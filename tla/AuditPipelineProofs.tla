------------------------- MODULE AuditPipelineProofs -------------------------
(***************************************************************************)
(* Proofs about AuditPipeline, for any candidates, requirements and        *)
(* bounds: leases, queue and running audits agree, no candidate is left    *)
(* without an audit, and the pipeline implements IndependentAudits: what   *)
(* is promoted, withheld or rejected rests on reports of different         *)
(* auditors on different assignments, whatever is retried, made stale,     *)
(* lost in a crash or imported.                                            *)
(*                                                                         *)
(* The invariant IInv says how leases, queue and jobs correspond in every  *)
(* phase (Agreement), who takes care of a candidate (Coverage), and where  *)
(* the results come from that the gate, the log and the checkpoint hold    *)
(* (Witnessed): from reports of different jobs, but for the one that is    *)
(* just being accepted.                                                    *)
(***************************************************************************)
EXTENDS AuditPipeline, FiniteSetTheorems, SequenceTheorems, TLAPS

Distinct(s) == \A i, k \in DOMAIN s : s[i].job = s[k].job => i = k

(***************************************************************************)
(* The inductive invariant.                                                *)
(***************************************************************************)
Doing == doing.at # "none"
Answers == [at : {"report", "event", "act"}, cand : Candidates, result : Results]
Typed ==
  /\ TypeOK
  /\ Doing => /\ mode \in {"running", "draining"}
              /\ doing \in Answers /\ doing.cand \in DOMAIN gate
  /\ mode = "down" => DOMAIN gate = {} /\ queue = {} /\ active = {}
  /\ mode = "import" => active = {}

\* Leases ls, queued tasks Q and running audits A.
Held(ls, Q, A) ==
  /\ \A i, j \in A : SameLease(i.task, j.task) => i = j
  /\ \A t, u \in Q : SameLease(t, u) => t = u
  /\ \A t \in Q : ls[t.cand][t.kind].attempt = t.attempt /\ ls[t.cand][t.kind].status \in Waiting
  /\ \A j \in A : ls[j.task.cand][j.task.kind] = [attempt |-> j.task.attempt, status |-> "ACTIVE"]

Worked(c, k) == \E j \in active : j.task.cand = c /\ j.task.kind = k
Agreement ==
  /\ Held(leases, queue, active)
  /\ \A t \in queue : t.cand \in DOMAIN gate
  /\ \A j \in active : j.task.cand \in DOMAIN gate
  /\ mode \notin {"down", "import"} =>
       \A c \in Candidates, k \in Kinds : leases[c][k].status = "ACTIVE" => Worked(c, k)
  /\ epoch = 0 => mode = "down" /\ ~open /\ \A c \in Candidates, k \in Kinds : leases[c][k].status # "ACTIVE"

\* A candidate that needs audits is queued, running, or left to the Director.
AuditOf(c, Q, A) == \E t \in Q \cup {j.task : j \in A} : t.cand = c
Covered(c) == Terminal(c, gate[c]) \/ c \in parked \/ AuditOf(c, queue, active)
Coverage ==
  mode # "draining" => \A c \in DOMAIN gate : (Doing => c # doing.cand) => Covered(c)

\* A lease that no audit holds and none waits for.
Spent(l) == l.status \notin Waiting \cup {"ACTIVE"}
Used(l, r) == r.attempt <= l.attempt /\ (r.attempt = l.attempt => Spent(l))
ReportsOld ==
  \A c \in Candidates : \A r \in Range(reports[c]) :
     r.job <= jobs /\ (\A j \in active : j.job # r.job) /\ Used(leases[c][r.kind], r)

\* The answer that is being accepted: new until its report is written.
NewAnswer(c, r) ==
  /\ r.job <= jobs /\ \A j \in active : j.job # r.job
  /\ leases[c][r.kind].attempt = r.attempt /\ Spent(leases[c][r.kind])
  /\ \A p \in Range(reports[c]) : p.job # r.job /\ ~(p.kind = r.kind /\ p.attempt = r.attempt)
AnswerSound ==
  Doing =>
    /\ doing.result \in Range(gate[doing.cand])
    /\ doing.at = "report" => NewAnswer(doing.cand, doing.result)
    /\ doing.at # "report" => doing.result \in Range(reports[doing.cand])
    /\ doing.at \in {"report", "event"} =>
         \A p \in Range(log.recorded[doing.cand]) : p.job # doing.result.job
    /\ doing.cand \in Bridged =>
         \A p \in Range(gate[doing.cand]) : p.verdict = "PASS" => p.authority = authority

BeingAccepted(c, r) == doing.at = "report" /\ c = doing.cand /\ r = doing.result
Genuine(c, s) == Distinct(s) /\ \A r \in Range(s) : r \in Range(reports[c])
Witnessed ==
  /\ ReportsOld /\ AnswerSound
  /\ \A i, j \in active : i.job = j.job => i = j
  /\ \A c \in DOMAIN gate : Distinct(gate[c])
  /\ \A c \in DOMAIN gate : \A r \in Range(gate[c]) :
       r \in Range(reports[c]) \/ BeingAccepted(c, r)
  /\ \A c \in Candidates : Genuine(c, log.recorded[c])
  /\ \A c \in DOMAIN checkpoint.frontier : Genuine(c, checkpoint.frontier[c])

IInv == Typed /\ Agreement /\ Coverage /\ Witnessed

(***************************************************************************)
(* Induction up to a number, over the set of the numbers it holds for, and *)
(* what it gives: a function can be defined by iterating a step.           *)
(***************************************************************************)
LEMMA UpTo ==
  ASSUME NEW N \in Nat, NEW G, 0 \in G, \A n \in 1 .. N : n - 1 \in G => n \in G
  PROVE  \A n \in 0 .. N : n \in G
<1> DEFINE R == OpToRel(<, Nat)
           Bad == {n \in 0 .. N : n \notin G}
<1> SUFFICES ASSUME Bad # {} PROVE FALSE
  OBVIOUS
<1>1. IsWellFoundedOn(R, Nat)
  BY NatLessThanWellFounded
<1>2. R = {p \in Nat \X Nat : p[1] < p[2]}
  BY DEF OpToRel
<1>3. Bad \subseteq Nat
  OBVIOUS
<1> HIDE DEF R
<1>4. PICK n \in Bad : \A m \in Bad : ~ (<<m, n>> \in R)
  BY <1>1, <1>3, WFMin
<1>5. n \in 1 .. N /\ n - 1 \notin G
  OBVIOUS
<1>6. n - 1 \in Bad /\ <<n - 1, n>> \in Nat \X Nat
  BY <1>5
<1> QED BY <1>2, <1>4, <1>6

Iterates(x0, step, n, acc) == acc[0] = x0 /\ \A m \in 1 .. n : acc[m] = step[<<acc[m - 1], m>>]

LEMMA Iterated ==
  ASSUME NEW X, NEW x0 \in X, NEW N \in Nat, NEW step \in [X \X (1 .. N) -> X]
  PROVE  \E acc \in [0 .. N -> X] : Iterates(x0, step, N, acc)
<1> DEFINE G == {n \in 0 .. N : \E acc \in [0 .. n -> X] : Iterates(x0, step, n, acc)}
<1>1. 0 \in G
  <2> DEFINE a == [m \in 0 .. 0 |-> x0]
  <2>1. a \in [0 .. 0 -> X] /\ a[0] = x0
    OBVIOUS
  <2> HIDE DEF a
  <2> QED BY <2>1 DEF Iterates
<1>2. ASSUME NEW n \in 1 .. N, n - 1 \in G
      PROVE  n \in G
  <2>1. PICK a \in [0 .. n - 1 -> X] : Iterates(x0, step, n - 1, a)
    BY <1>2
  <2> DEFINE b == [m \in 0 .. n |-> IF m = n THEN step[<<a[n - 1], n>>] ELSE a[m]]
  <2>2. n - 1 \in 0 .. n - 1
    OBVIOUS
  <2>3. step[<<a[n - 1], n>>] \in X
    BY <2>2
  <2>4. b \in [0 .. n -> X]
    BY <2>2, <2>3
  <2>5. b[n] = step[<<a[n - 1], n>>] /\ \A m \in 0 .. n - 1 : b[m] = a[m]
    BY <2>2
  <2> HIDE DEF b
  <2>6. Iterates(x0, step, n, b)
    <3>1. b[0] = x0
      BY <2>1, <2>2, <2>5 DEF Iterates
    <3>2. ASSUME NEW m \in 1 .. n PROVE b[m] = step[<<b[m - 1], m>>]
      <4>1. m - 1 \in 0 .. n - 1
        BY <2>2
      <4>2. CASE m = n
        BY <2>5, <4>1, <4>2
      <4>3. CASE m # n
        <5>1. m \in 1 .. n - 1 /\ m \in 0 .. n - 1
          BY <2>2, <4>3
        <5> QED BY <2>1, <2>5, <4>1, <5>1 DEF Iterates
      <4> QED BY <4>2, <4>3
    <3> QED BY <3>1, <3>2 DEF Iterates
  <2> QED BY <2>4, <2>6
<1>3. N \in 0 .. N
  OBVIOUS
<1> HIDE DEF G
<1>4. N \in G
  BY <1>1, <1>2, <1>3, UpTo
<1> QED BY <1>4 DEF G

\* What a recursive definition says that takes some of the elements of a
\* sequence: such functions exist.
Selects(f, s, Takes) ==
  /\ DOMAIN f = 0 .. Len(s) /\ f[0] = <<>>
  /\ \A n \in 1 .. Len(s) :
       f[n] = IF <<f[n - 1], s[n]>> \in Takes THEN Append(f[n - 1], s[n]) ELSE f[n - 1]

LEMMA Selection ==
  ASSUME NEW S, NEW s \in Seq(S), NEW Takes
  PROVE  \E f \in [0 .. Len(s) -> Seq(S)] : Selects(f, s, Takes)
<1> DEFINE N == Len(s)
           step == [p \in Seq(S) \X (1 .. N) |->
                      IF <<p[1], s[p[2]]>> \in Takes THEN Append(p[1], s[p[2]]) ELSE p[1]]
<1>1. N \in Nat /\ <<>> \in Seq(S)
  OBVIOUS
<1>2. step \in [Seq(S) \X (1 .. N) -> Seq(S)]
  OBVIOUS
<1>3. \A q \in Seq(S), n \in 1 .. N :
        step[<<q, n>>] = IF <<q, s[n]>> \in Takes THEN Append(q, s[n]) ELSE q
  OBVIOUS
<1> HIDE DEF step
<1>4. PICK f \in [0 .. N -> Seq(S)] : Iterates(<<>>, step, N, f)
  BY <1>1, <1>2, Iterated
<1>5. ASSUME NEW n \in 1 .. N
      PROVE  f[n] = IF <<f[n - 1], s[n]>> \in Takes THEN Append(f[n - 1], s[n]) ELSE f[n - 1]
  <2>1. n - 1 \in 0 .. N
    BY <1>1
  <2>2. f[n - 1] \in Seq(S)
    BY <2>1, <1>4
  <2>3. f[n] = step[<<f[n - 1], n>>]
    BY <1>4 DEF Iterates
  <2> QED BY <1>3, <2>2, <2>3
<1> QED BY <1>4, <1>5 DEF Selects, Iterates

LEMMA DistinctRange ==
  \A s : DOMAIN s = {} => Distinct(s) /\ Range(s) = {}
BY DEF Distinct, Range

\* A function made of such selections ends with elements of s, and without
\* repetition if s has none.
LEMMA Selected ==
  ASSUME NEW S, NEW s \in Seq(S), NEW P, NEW f, f[0] = <<>>,
         \A n \in 1 .. Len(s) : \/ f[n] = f[n - 1]
                                \/ s[n] \in P /\ f[n] = Append(f[n - 1], s[n])
  PROVE  /\ f[Len(s)] \in Seq(S)
         /\ \A r \in Range(f[Len(s)]) : r \in P /\ r \in Range(s)
         /\ Distinct(s) => Distinct(f[Len(s)])
<1> DEFINE Fine(n) == /\ f[n] \in Seq(S)
                      /\ \A i \in 1 .. Len(f[n]) : f[n][i] \in P /\ \E k \in 1 .. n : f[n][i] = s[k]
                      /\ Distinct(s) => Distinct(f[n])
           N == Len(s)
           G == {n \in 0 .. N : Fine(n)}
<1>1. N \in Nat /\ DOMAIN s = 1 .. N
  OBVIOUS
<1>2. 0 \in G
  <2>1. f[0] \in Seq(S) /\ Len(f[0]) = 0 /\ DOMAIN f[0] = {}
    OBVIOUS
  <2>2. Distinct(f[0])
    BY <2>1 DEF Distinct
  <2>3. \A i \in 1 .. Len(f[0]) : FALSE
    BY <2>1
  <2>4. Fine(0)
    BY <2>1, <2>2, <2>3
  <2> HIDE DEF Fine
  <2> QED BY <1>1, <2>4
<1>3. ASSUME NEW n \in 1 .. N, n - 1 \in G
      PROVE  n \in G
  <2>1. PICK q \in Seq(S) : q = f[n - 1]
    BY <1>3
  <2>2. /\ \A i \in 1 .. Len(q) : q[i] \in P /\ \E k \in 1 .. n - 1 : q[i] = s[k]
        /\ Distinct(s) => Distinct(q)
    BY <1>3, <2>1
  <2>3. n \in 0 .. N /\ s[n] \in S
    BY <1>1
  <2>4. CASE f[n] = q
    <3>1. \A k \in 1 .. n - 1 : k \in 1 .. n
      BY <1>1
    <3> QED BY <2>1, <2>2, <2>3, <2>4, <3>1
  <2>5. CASE s[n] \in P /\ f[n] = Append(q, s[n])
    <3> DEFINE t == Append(q, s[n])
    <3>1. t \in Seq(S)
      BY <2>3, AppendProperties
    <3>2. /\ Len(q) \in Nat /\ Len(t) = Len(q) + 1 /\ t[Len(q) + 1] = s[n]
          /\ \A i \in 1 .. Len(q) : t[i] = q[i]
      BY <2>3, AppendProperties
    <3> HIDE DEF t
    <3>3. \A i \in 1 .. Len(t) : t[i] \in P /\ \E k \in 1 .. n : t[i] = s[k]
      <4> TAKE i \in 1 .. Len(t)
      <4>1. CASE i = Len(q) + 1
        BY <2>5, <3>2, <4>1
      <4>2. CASE i # Len(q) + 1
        <5>1. i \in 1 .. Len(q)
          BY <3>2, <4>2
        <5>2. PICK k \in 1 .. n - 1 : q[i] = s[k]
          BY <2>2, <5>1
        <5> QED BY <2>2, <3>2, <5>1, <5>2
      <4> QED BY <4>1, <4>2
    <3>4. ASSUME Distinct(s) PROVE Distinct(t)
      <4>1. Distinct(q) /\ DOMAIN q = 1 .. Len(q) /\ DOMAIN t = 1 .. Len(t)
        BY <2>2, <3>1, <3>4
      <4>2. \A i \in 1 .. Len(q) : q[i].job # s[n].job
        <5> TAKE i \in 1 .. Len(q)
        <5>1. PICK k \in 1 .. n - 1 : q[i] = s[k]
          BY <2>2
        <5>2. k \in 1 .. N /\ k # n
          BY <1>1
        <5> QED BY <1>1, <3>4, <5>1, <5>2 DEF Distinct
      <4>3. ASSUME NEW i \in 1 .. Len(t), NEW k \in 1 .. Len(t), t[i].job = t[k].job
            PROVE  i = k
        <5>1. i \in 1 .. Len(q) \/ i = Len(q) + 1
          BY <3>2
        <5>2. k \in 1 .. Len(q) \/ k = Len(q) + 1
          BY <3>2
        <5> QED BY <3>2, <4>1, <4>2, <4>3, <5>1, <5>2 DEF Distinct
      <4> QED BY <4>1, <4>3 DEF Distinct
    <3> QED BY <2>3, <2>5, <3>1, <3>3, <3>4 DEF t
  <2> QED BY <2>1, <2>4, <2>5
<1> HIDE DEF G, N
<1>4. N \in G
  <2>1. N \in 0 .. N
    BY <1>1
  <2> QED BY <1>1, <1>2, <1>3, <2>1, UpTo
<1>5. Fine(N)
  BY <1>4 DEF G
<1>6. \A r \in Range(f[N]) : r \in P /\ r \in Range(s)
  <2>1. DOMAIN f[N] = 1 .. Len(f[N])
    BY <1>5
  <2> QED BY <1>1, <1>5, <2>1 DEF Range
<1> QED BY <1>5, <1>6 DEF N

\* What is left of results when stale passes are discarded.
LEMMA KeptFacts ==
  ASSUME NEW c, NEW s \in Seq(Results)
  PROVE  /\ WithoutStale(c, s) \in Seq(Results)
         /\ \A r \in Range(WithoutStale(c, s)) : r \in Range(s) /\ Current(c, r)
         /\ Distinct(s) => Distinct(WithoutStale(c, s))
<1> DEFINE TakesNext == {p \in Seq(Results) \X Results : Current(c, p[2])}
           P(f) == f = [n \in 0 .. Len(s) |->
                          IF n = 0 THEN <<>>
                          ELSE IF Current(c, s[n]) THEN Append(f[n - 1], s[n]) ELSE f[n - 1]]
           Q == {r \in Results : Current(c, r)}
<1> DEFINE N == Len(s)
<1>1. N \in Nat /\ \A n \in 1 .. N : s[n] \in Results
  OBVIOUS
<1>2. PICK f \in [0 .. N -> Seq(Results)] : Selects(f, s, TakesNext)
  <2> HIDE DEF TakesNext
  <2> QED BY Selection
<1>3. \A n \in 1 .. N : <<f[n - 1], s[n]>> \in TakesNext <=> Current(c, s[n])
  <2> TAKE n \in 1 .. N
  <2>1. n - 1 \in 0 .. N
    BY <1>1
  <2>2. f[n - 1] \in Seq(Results)
    BY <1>2, <2>1
  <2> QED BY <1>1, <2>2
<1> HIDE DEF TakesNext
<1>4. P(f)
  <2> DEFINE e(n) == IF n = 0 THEN <<>>
                     ELSE IF Current(c, s[n]) THEN Append(f[n - 1], s[n]) ELSE f[n - 1]
  <2>1. ASSUME NEW n \in 0 .. N PROVE f[n] = e(n)
    <3>1. CASE n = 0
      BY <1>2, <3>1 DEF Selects
    <3>2. CASE n # 0
      <4>1. n \in 1 .. N
        BY <1>1, <3>2
      <4> QED BY <1>2, <1>3, <3>2, <4>1 DEF Selects
    <3> QED BY <3>1, <3>2
  <2> HIDE DEF e
  <2>2. f = [n \in 0 .. N |-> e(n)]
    BY <1>2, <2>1 DEF Selects
  <2> QED BY <2>2 DEF e
<1>5. Keeping(c, s) = CHOOSE g : P(g)
  BY DEF Keeping
<1>6. P(Keeping(c, s))
  BY <1>4, <1>5
<1>7. PICK g : g = Keeping(c, s)
  OBVIOUS
<1>8. g[0] = <<>> /\ \A n \in 1 .. N : \/ g[n] = g[n - 1]
                                       \/ s[n] \in Q /\ g[n] = Append(g[n - 1], s[n])
  <2>1. g = [n \in 0 .. N |-> IF n = 0 THEN <<>>
                               ELSE IF Current(c, s[n]) THEN Append(g[n - 1], s[n]) ELSE g[n - 1]]
    BY <1>6, <1>7
  <2>2. g[0] = <<>>
    BY <1>1, <2>1
  <2>3. ASSUME NEW n \in 1 .. N
        PROVE  g[n] = IF Current(c, s[n]) THEN Append(g[n - 1], s[n]) ELSE g[n - 1]
    <3>1. n \in 0 .. N /\ n # 0
      BY <1>1
    <3> QED BY <2>1, <3>1
  <2> HIDE DEF N
  <2> QED BY <1>1, <2>2, <2>3
<1> HIDE DEF Q, N
<1>9. /\ g[N] \in Seq(Results)
      /\ \A r \in Range(g[N]) : r \in Q /\ r \in Range(s)
      /\ Distinct(s) => Distinct(g[N])
  BY <1>8, Selected DEF N
<1> QED BY <1>7, <1>9 DEF N, WithoutStale, Q

\* What is restored from recorded results.
LEMMA RestoredFacts ==
  ASSUME NEW c, NEW s \in Seq(Results)
  PROVE  /\ Restored(c, s).results \in Seq(Results)
         /\ \A r \in Range(Restored(c, s).results) : r \in Range(s)
         /\ Distinct(s) => Distinct(Restored(c, s).results)
<1> DEFINE TakesNext == {p \in Seq(Results) \X Results : IsNext(c, p[1], p[2])}
           P(f) == f = [n \in 0 .. Len(s) |->
                          IF n = 0 THEN <<>>
                          ELSE IF IsNext(c, f[n - 1], s[n]) THEN Append(f[n - 1], s[n]) ELSE f[n - 1]]
<1> DEFINE N == Len(s)
<1>1. N \in Nat /\ \A n \in 1 .. N : s[n] \in Results
  OBVIOUS
<1>2. PICK f \in [0 .. N -> Seq(Results)] : Selects(f, s, TakesNext)
  <2> HIDE DEF TakesNext
  <2> QED BY Selection
<1>3. \A n \in 1 .. N : <<f[n - 1], s[n]>> \in TakesNext <=> IsNext(c, f[n - 1], s[n])
  <2> TAKE n \in 1 .. N
  <2>1. n - 1 \in 0 .. N
    BY <1>1
  <2>2. f[n - 1] \in Seq(Results)
    BY <1>2, <2>1
  <2> QED BY <1>1, <2>2
<1> HIDE DEF TakesNext
<1>4. P(f)
  <2> DEFINE e(n) == IF n = 0 THEN <<>>
                     ELSE IF IsNext(c, f[n - 1], s[n]) THEN Append(f[n - 1], s[n]) ELSE f[n - 1]
  <2>1. ASSUME NEW n \in 0 .. N PROVE f[n] = e(n)
    <3>1. CASE n = 0
      BY <1>2, <3>1 DEF Selects
    <3>2. CASE n # 0
      <4>1. n \in 1 .. N
        BY <1>1, <3>2
      <4> QED BY <1>2, <1>3, <3>2, <4>1 DEF Selects
    <3> QED BY <3>1, <3>2
  <2> HIDE DEF e
  <2>2. f = [n \in 0 .. N |-> e(n)]
    BY <1>2, <2>1 DEF Selects
  <2> QED BY <2>2 DEF e
<1>5. Restoring(c, s) = CHOOSE g : P(g)
  BY DEF Restoring
<1>6. P(Restoring(c, s))
  BY <1>4, <1>5
<1>7. PICK g : g = Restoring(c, s)
  OBVIOUS
<1>8. g[0] = <<>> /\ \A n \in 1 .. N : \/ g[n] = g[n - 1]
                                       \/ s[n] \in Results /\ g[n] = Append(g[n - 1], s[n])
  <2>1. g = [n \in 0 .. N |-> IF n = 0 THEN <<>>
                               ELSE IF IsNext(c, g[n - 1], s[n]) THEN Append(g[n - 1], s[n]) ELSE g[n - 1]]
    BY <1>6, <1>7
  <2>2. g[0] = <<>>
    BY <1>1, <2>1
  <2>3. ASSUME NEW n \in 1 .. N
        PROVE  g[n] = IF IsNext(c, g[n - 1], s[n]) THEN Append(g[n - 1], s[n]) ELSE g[n - 1]
    <3>1. n \in 0 .. N /\ n # 0
      BY <1>1
    <3> QED BY <2>1, <3>1
  <2> HIDE DEF N
  <2> QED BY <1>1, <2>2, <2>3
<1> HIDE DEF N
<1>9. /\ g[N] \in Seq(Results)
      /\ \A r \in Range(g[N]) : r \in Results /\ r \in Range(s)
      /\ Distinct(s) => Distinct(g[N])
  BY <1>8, Selected DEF N
<1> QED BY <1>7, <1>9 DEF N, Restored

(***************************************************************************)
(* Leases and the queue.                                                   *)
(***************************************************************************)
Lease == [attempt : Nat, status : Statuses]
LeaseType == [Candidates -> [Kinds -> Lease]]

LEMMA SetLeaseFacts ==
  ASSUME NEW ls \in LeaseType, NEW t \in Tasks, NEW status \in Statuses
  PROVE  /\ SetLease(ls, t, status) \in LeaseType
         /\ SetLease(ls, t, status)[t.cand][t.kind] =
              [attempt |-> ls[t.cand][t.kind].attempt, status |-> status]
         /\ \A c \in Candidates, k \in Kinds :
              ~(c = t.cand /\ k = t.kind) => SetLease(ls, t, status)[c][k] = ls[c][k]
<1>1. t.cand \in Candidates /\ t.kind \in Kinds
  BY DEF Tasks
<1>2. PICK d, k : d = t.cand /\ k = t.kind
  OBVIOUS
<1>3. PICK l : l = ls[d][k]
  OBVIOUS
<1> DEFINE m == [l EXCEPT !.status = status]
<1>4. l \in Lease /\ m = [attempt |-> l.attempt, status |-> status] /\ m \in Lease
  BY <1>1, <1>2, <1>3 DEF LeaseType, Lease
<1>5. SetLease(ls, t, status) = [ls EXCEPT ![d] = [ls[d] EXCEPT ![k] = m]]
  BY <1>1, <1>2, <1>3 DEF SetLease, LeaseType
<1> HIDE DEF m
<1>6. ls[d] \in [Kinds -> Lease]
  BY <1>1, <1>2 DEF LeaseType
<1> DEFINE row == [ls[d] EXCEPT ![k] = m]
<1>7. row \in [Kinds -> Lease] /\ row[k] = m /\ \A o \in Kinds \ {k} : row[o] = ls[d][o]
  BY <1>1, <1>2, <1>4, <1>6
<1> HIDE DEF row
<1>8. /\ [ls EXCEPT ![d] = row] \in LeaseType /\ [ls EXCEPT ![d] = row][d] = row
      /\ \A c \in Candidates \ {d} : [ls EXCEPT ![d] = row][c] = ls[c]
  BY <1>1, <1>2, <1>7 DEF LeaseType
<1> QED BY <1>1, <1>2, <1>3, <1>4, <1>5, <1>7, <1>8 DEF row

LEMMA ReleasedFacts ==
  ASSUME NEW ls \in LeaseType
  PROVE  /\ Released(ls) \in LeaseType
         /\ \A c \in Candidates, k \in Kinds :
              /\ Released(ls)[c][k].attempt = ls[c][k].attempt
              /\ Released(ls)[c][k].status # "ACTIVE"
              /\ Released(ls)[c][k].status =
                   IF ls[c][k].status = "ACTIVE" THEN "RETRY_WAIT" ELSE ls[c][k].status
<1> DEFINE e(c, k) == IF ls[c][k].status = "ACTIVE" THEN [ls[c][k] EXCEPT !.status = "RETRY_WAIT"]
                      ELSE ls[c][k]
<1>1. ASSUME NEW c \in Candidates, NEW k \in Kinds
      PROVE  /\ e(c, k) \in Lease /\ e(c, k).attempt = ls[c][k].attempt
             /\ e(c, k).status # "ACTIVE"
             /\ e(c, k).status = IF ls[c][k].status = "ACTIVE" THEN "RETRY_WAIT" ELSE ls[c][k].status
  <2>1. PICK l \in Lease : l = ls[c][k]
    BY DEF LeaseType
  <2>2. CASE l.status = "ACTIVE"
    BY <2>1, <2>2 DEF Lease, Statuses, Waiting
  <2>3. CASE l.status # "ACTIVE"
    BY <2>1, <2>3
  <2> QED BY <2>2, <2>3
<1>2. Released(ls) = [c \in Candidates |-> [k \in Kinds |-> e(c, k)]]
  BY DEF Released
<1> HIDE DEF e
<1> QED BY <1>1, <1>2 DEF LeaseType

LEMMA EnsuredFacts ==
  ASSUME NEW l \in Lease
  PROVE  /\ Ensured(l) \in Lease /\ Ensured(l).status \in Waiting \cup {"ACTIVE"}
         /\ Ensured(l).status = "ACTIVE" <=> l.status = "ACTIVE"
         /\ ~Spent(l) => Ensured(l) = l
         /\ Spent(l) => Ensured(l).attempt = l.attempt + 1
BY DEF Ensured, Lease, Waiting, Statuses, Spent

\* Ids of audits.
LEMMA TaskFacts ==
  ASSUME NEW ls \in LeaseType, NEW c \in Candidates, NEW k \in Kinds, authority \in Authorities
  PROVE  /\ Task(c, k, ls) \in Tasks /\ Task(c, k, ls).cand = c /\ Task(c, k, ls).kind = k
         /\ Task(c, k, ls).attempt = ls[c][k].attempt
BY DEF Task, Tasks, LeaseType, Lease

\* Terminal is what NextKind goes by.
LEMMA NextKindFacts ==
  ASSUME NEW c, NEW q
  PROVE  /\ NextKind(c, q) = "none" <=> Terminal(c, q)
         /\ ~Terminal(c, q) => NextKind(c, q) \in Kinds
BY DEF NextKind, Kinds

\* No ACTIVE lease without a job.
NoneLost(ls, A) ==
  \A c \in Candidates, k \in Kinds :
    ls[c][k].status = "ACTIVE" => \E j \in A : j.task.cand = c /\ j.task.kind = k

\* What queueing the next audits of the candidates S does, whatever results,
\* leases and running audits it starts from.
Enqueued(S, g, ls, A) ==
  /\ DOMAIN gate' = DOMAIN g /\ IsGate(gate')
  /\ \A c \in DOMAIN g \ S : gate'[c] = g[c]
  /\ \A c \in S : gate'[c] = WithoutStale(c, g[c])
  /\ leases' \in LeaseType
  /\ \A c \in Candidates, k \in Kinds :
       /\ leases'[c][k].status = "ACTIVE" <=> ls[c][k].status = "ACTIVE"
       /\ leases'[c][k] = ls[c][k] \/ (Spent(ls[c][k]) /\ leases'[c][k].attempt = ls[c][k].attempt + 1)
  /\ queue \subseteq queue' /\ queue' \subseteq Tasks
  /\ \A t \in queue' \ queue : t.cand \in S
  /\ Held(leases', queue', A)
  /\ \A c \in S : Terminal(c, gate'[c]) \/ AuditOf(c, queue', A)
  /\ parked' \subseteq parked
  /\ \A c \in parked : c \in parked' \/ AuditOf(c, queue', A)

LEMMA EnqueueFacts ==
  ASSUME NEW S, NEW g, NEW ls \in LeaseType, NEW A,
         IsGate(g), S \subseteq DOMAIN g, authority \in Authorities, queue \subseteq Tasks,
         Held(ls, queue, A), \A j \in A : j.task \in Tasks,
         NoneLost(ls, A),
         Enqueue(S, g, ls, A)
  PROVE  Enqueued(S, g, ls, A)
<1> DEFINE freshD == [c \in DOMAIN g |-> IF c \in S THEN WithoutStale(c, g[c]) ELSE g[c]]
           wantedD == {c \in S : NextKind(c, freshD[c]) # "none"}
           nowD == [c \in Candidates |-> [k \in Kinds |->
                     IF c \in wantedD /\ k = NextKind(c, freshD[c])
                     THEN Ensured(ls[c][k]) ELSE ls[c][k]]]
           tasksD == {Task(c, NextKind(c, freshD[c]), nowD) : c \in wantedD}
<1>0. /\ gate' = freshD /\ leases' = nowD
      /\ queue' = queue \cup {t \in tasksD : ~Queued(t, A)}
      /\ parked' = parked \ wantedD
  BY DEF Enqueue
<1>1. PICK fresh, wanted, now, tasks :
        fresh = freshD /\ wanted = wantedD /\ now = nowD /\ tasks = tasksD
  OBVIOUS
<1>2. /\ DOMAIN fresh = DOMAIN g
      /\ \A c \in DOMAIN g : fresh[c] = IF c \in S THEN WithoutStale(c, g[c]) ELSE g[c]
  BY <1>1
<1> HIDE DEF freshD
<1>3. /\ \A c : c \in wanted <=> c \in S /\ ~Terminal(c, fresh[c])
      /\ wanted \subseteq Candidates
  BY <1>1, NextKindFacts DEF IsGate
<1>4. \A c \in Candidates, k \in Kinds :
        now[c][k] = IF c \in wanted /\ k = NextKind(c, fresh[c]) THEN Ensured(ls[c][k]) ELSE ls[c][k]
  BY <1>1
<1>5. now \in LeaseType
  <2>1. \A c \in Candidates, k \in Kinds :
          (IF c \in wanted /\ k = NextKind(c, fresh[c]) THEN Ensured(ls[c][k]) ELSE ls[c][k]) \in Lease
    <3> TAKE c \in Candidates, k \in Kinds
    <3>1. ls[c][k] \in Lease
      BY DEF LeaseType
    <3> QED BY <3>1, EnsuredFacts
  <2>2. now = [c \in Candidates |-> [k \in Kinds |->
           IF c \in wanted /\ k = NextKind(c, fresh[c]) THEN Ensured(ls[c][k]) ELSE ls[c][k]]]
    BY <1>1
  <2> QED BY <2>1, <2>2 DEF LeaseType
<1> HIDE DEF nowD
<1>6. \A t : t \in tasks <=> \E c \in wanted : t = Task(c, NextKind(c, fresh[c]), now)
  BY <1>1
<1> HIDE DEF wantedD, tasksD
<1>7. /\ gate' = fresh /\ leases' = now /\ parked' = parked \ wanted
      /\ queue' = queue \cup {t \in tasks : ~Queued(t, A)}
  BY <1>0, <1>1
<1>8. IsGate(fresh)
  <2>1. ASSUME NEW c \in DOMAIN g PROVE fresh[c] \in Seq(Results)
    <3>1. g[c] \in Seq(Results)
      BY DEF IsGate
    <3>2. WithoutStale(c, g[c]) \in Seq(Results)
      BY <3>1, KeptFacts
    <3> QED BY <1>2, <3>1, <3>2
  <2> QED BY <1>2, <2>1 DEF IsGate
<1>9. ASSUME NEW c \in Candidates, NEW k \in Kinds
      PROVE  /\ now[c][k] \in Lease /\ ls[c][k] \in Lease
             /\ now[c][k].status = "ACTIVE" <=> ls[c][k].status = "ACTIVE"
             /\ ~Spent(ls[c][k]) => now[c][k] = ls[c][k]
             /\ \/ now[c][k] = ls[c][k]
                \/ Spent(ls[c][k]) /\ now[c][k].attempt = ls[c][k].attempt + 1
  <2>1. ls[c][k] \in Lease /\ now[c][k] \in Lease
    BY <1>5 DEF LeaseType
  <2> QED BY <1>4, <2>1, EnsuredFacts
<1>10. ASSUME NEW c \in wanted
       PROVE  LET k == NextKind(c, fresh[c])
                  t == Task(c, k, now)
              IN  /\ c \in Candidates /\ k \in Kinds /\ t \in tasks /\ t \in Tasks
                  /\ t.cand = c /\ t.kind = k /\ t.attempt = now[c][k].attempt
                  /\ now[c][k].status \in Waiting \cup {"ACTIVE"}
  <2>1. PICK k : k = NextKind(c, fresh[c])
    OBVIOUS
  <2>2. c \in Candidates /\ k \in Kinds
    BY <1>3, <2>1, NextKindFacts
  <2>3. now[c][k] = Ensured(ls[c][k]) /\ ls[c][k] \in Lease
    BY <1>4, <1>9, <2>1, <2>2
  <2> QED BY <1>5, <1>6, <2>1, <2>2, <2>3, TaskFacts, EnsuredFacts
<1>11. ASSUME NEW t \in tasks
       PROVE  /\ t.cand \in wanted /\ t \in Tasks /\ t.kind = NextKind(t.cand, fresh[t.cand])
              /\ t.cand \in Candidates /\ t.kind \in Kinds
              /\ t = Task(t.cand, t.kind, now) /\ t.attempt = now[t.cand][t.kind].attempt
              /\ now[t.cand][t.kind].status \in Waiting \cup {"ACTIVE"}
  <2>1. PICK c \in wanted : t = Task(c, NextKind(c, fresh[c]), now)
    BY <1>6
  <2> QED BY <1>10, <2>1
<1>12. \A t \in queue : t.cand \in Candidates /\ t.kind \in Kinds
  BY DEF Tasks
<1>13. ASSUME NEW t \in queue, NEW c \in Candidates, NEW k \in Kinds, t.cand = c, t.kind = k
       PROVE  now[c][k] = ls[c][k]
  BY <1>9, <1>13 DEF Held, Spent
<1>14. ASSUME NEW t \in tasks, ~Queued(t, A)
       PROVE  now[t.cand][t.kind].status \in Waiting
  <2> SUFFICES ASSUME now[t.cand][t.kind].status = "ACTIVE" PROVE FALSE
    BY <1>11
  <2>1. ls[t.cand][t.kind].status = "ACTIVE" /\ now[t.cand][t.kind] = ls[t.cand][t.kind]
    BY <1>9, <1>11 DEF Spent
  <2>2. PICK j \in A : j.task.cand = t.cand /\ j.task.kind = t.kind
    BY <1>11, <2>1 DEF NoneLost
  <2>3. ls[j.task.cand][j.task.kind].attempt = j.task.attempt
    <3>1. ls[j.task.cand][j.task.kind] = [attempt |-> j.task.attempt, status |-> "ACTIVE"]
      BY DEF Held
    <3> QED BY <3>1
  <2>4. SameLease(t, j.task)
    BY <1>11, <2>1, <2>2, <2>3 DEF SameLease
  <2> QED BY <1>14, <2>4 DEF Queued
<1>15. Held(now, queue', A)
  <2>1. ASSUME NEW t \in queue', NEW u \in queue', SameLease(t, u)
        PROVE  t = u
    <3>1. CASE t \in queue /\ u \in queue
      BY <2>1, <3>1 DEF Held
    <3>2. CASE t \in tasks /\ u \in tasks
      BY <1>11, <2>1, <3>2 DEF SameLease
    <3>3. CASE t \in tasks /\ ~Queued(t, A) /\ u \in queue
      BY <2>1, <3>3 DEF Queued
    <3>4. CASE u \in tasks /\ ~Queued(u, A) /\ t \in queue
      BY <2>1, <3>4 DEF Queued, SameLease
    <3> QED BY <1>7, <3>1, <3>2, <3>3, <3>4
  <2>2. ASSUME NEW t \in queue'
        PROVE  now[t.cand][t.kind].attempt = t.attempt /\ now[t.cand][t.kind].status \in Waiting
    <3>1. CASE t \in queue
      BY <1>12, <1>13, <3>1 DEF Held
    <3>2. CASE t \in tasks /\ ~Queued(t, A)
      BY <1>11, <1>14, <3>2
    <3> QED BY <1>7, <3>1, <3>2
  <2>3. ASSUME NEW j \in A
        PROVE  now[j.task.cand][j.task.kind] = [attempt |-> j.task.attempt, status |-> "ACTIVE"]
    <3>1. ls[j.task.cand][j.task.kind] = [attempt |-> j.task.attempt, status |-> "ACTIVE"]
      BY DEF Held
    <3>2. PICK c \in Candidates, k \in Kinds : c = j.task.cand /\ k = j.task.kind
      BY DEF Tasks
    <3>3. ls[c][k].status = "ACTIVE"
      BY <3>1, <3>2
    <3>4. now[c][k] = ls[c][k]
      BY <1>9, <3>3 DEF Spent
    <3> QED BY <3>1, <3>2, <3>4
  <2> QED BY <2>1, <2>2, <2>3 DEF Held
<1>16. ASSUME NEW c \in wanted PROVE AuditOf(c, queue', A)
  <2>1. PICK t \in tasks : t.cand = c
    BY <1>10
  <2>2. CASE ~Queued(t, A)
    BY <1>7, <2>1, <2>2 DEF AuditOf
  <2>3. CASE Queued(t, A)
    <3>1. PICK u \in queue \cup {j.task : j \in A} : SameLease(t, u)
      BY <2>3 DEF Queued
    <3> QED BY <1>7, <2>1, <3>1 DEF AuditOf, SameLease
  <2> QED BY <2>2, <2>3
<1>17. queue \subseteq queue' /\ queue' \subseteq Tasks /\ \A t \in queue' \ queue : t.cand \in S
  BY <1>3, <1>7, <1>11
<1> QED BY <1>2, <1>3, <1>5, <1>7, <1>8, <1>9, <1>15, <1>16, <1>17 DEF Enqueued

(***************************************************************************)
(* What the parts of the invariant need from a step.                       *)
(***************************************************************************)
LogType == [processed : SUBSET Candidates, recorded : [Candidates -> Seq(Results)],
            imported : BOOLEAN, retried : [Candidates -> Nat], policy : Nat]

LEMMA TypeFacts ==
  ASSUME Typed
  PROVE  /\ leases \in LeaseType /\ IsGate(gate) /\ queue \subseteq Tasks
         /\ DOMAIN gate \subseteq Candidates
         /\ \A j \in active : j.task \in Tasks /\ j.job \in 1 .. jobs
         /\ \A j \in active : j.task.cand \in Candidates /\ j.task.kind \in Kinds
         /\ authority \in Authorities /\ log \in LogType /\ jobs \in Nat
         /\ reports \in [Candidates -> Seq(Results)] /\ IsGate(checkpoint.frontier)
BY DEF Typed, TypeOK, LeaseType, Lease, LogType, IsGate, Tasks

\* A lease only moves on.
Later(l, m) == l.attempt <= m.attempt /\ (m.attempt = l.attempt /\ Spent(l) => Spent(m))

LEMMA LaterFacts ==
  /\ \A l, m \in Lease : l.attempt = m.attempt /\ (Spent(l) => Spent(m)) => Later(l, m)
  /\ \A l, m \in Lease : m.attempt = l.attempt + 1 => Later(l, m)
  /\ \A l, m, o \in Lease : Later(l, m) /\ Later(m, o) => Later(l, o)
  /\ \A l, m \in Lease, r \in Results : Later(l, m) /\ Used(l, r) => Used(m, r)
BY DEF Later, Lease, Used, Results

LEMMA ReportFacts ==
  ASSUME Typed, NEW c \in Candidates, NEW r \in Range(reports[c])
  PROVE  r \in Results /\ r.kind \in Kinds
<1>1. reports[c] \in Seq(Results)
  BY TypeFacts
<1>2. PICK s \in Seq(Results) : s = reports[c]
  BY <1>1
<1>3. r \in Results
  BY <1>2 DEF Range
<1> QED BY <1>3 DEF Results

\* Old reports stay old while leases move on and audits end.
LEMMA ReportsKept ==
  ASSUME IInv, Typed', reports' = reports, jobs' \in Nat, jobs <= jobs',
         \A j \in active' : j \in active \/ jobs < j.job,
         \A c \in Candidates, k \in Kinds : Later(leases[c][k], leases'[c][k])
  PROVE  ReportsOld'
<1> SUFFICES ASSUME NEW c \in Candidates, NEW r \in Range(reports[c])
             PROVE  /\ r.job <= jobs' /\ (\A j \in active' : j.job # r.job)
                    /\ Used(leases'[c][r.kind], r)
  BY DEF ReportsOld
<1>1. r \in Results /\ r.kind \in Kinds /\ r.job \in Nat
  BY ReportFacts DEF IInv, Results
<1>2. r.job <= jobs /\ (\A j \in active : j.job # r.job) /\ Used(leases[c][r.kind], r)
  BY DEF IInv, Witnessed, ReportsOld
<1>3. leases[c][r.kind] \in Lease
  BY <1>1, TypeFacts DEF IInv, LeaseType
<1>4. leases'[c][r.kind] \in Lease
  <2>1. leases' \in LeaseType
    BY DEF Typed, TypeOK, LeaseType, Lease
  <2> QED BY <1>1, <2>1 DEF LeaseType
<1>5. Used(leases'[c][r.kind], r)
  BY <1>1, <1>2, <1>3, <1>4, LaterFacts
<1>6. jobs \in Nat
  BY TypeFacts DEF IInv
<1>7. \A j \in active' : j.job # r.job
  <2> TAKE j \in active'
  <2>1. CASE j \in active
    BY <1>2, <2>1
  <2>2. CASE jobs < j.job
    BY <1>1, <1>2, <1>6, <2>2
  <2> QED BY <2>1, <2>2
<1> QED BY <1>1, <1>2, <1>5, <1>6, <1>7

\* No answer is being accepted after the step.
LEMMA QuietWitnessed ==
  ASSUME IInv, Typed', ~Doing', reports' = reports, jobs' \in Nat, jobs <= jobs',
         \A j \in active' : j \in active \/ jobs < j.job,
         \A i, j \in active' : i.job = j.job => i = j,
         \A c \in Candidates, k \in Kinds : Later(leases[c][k], leases'[c][k]),
         \A c \in DOMAIN gate' : Genuine(c, gate'[c]),
         log'.recorded = log.recorded \/ log'.recorded = NoRecord,
         \/ checkpoint' = checkpoint
         \/ \A c \in DOMAIN checkpoint'.frontier : Genuine(c, checkpoint'.frontier[c])
  PROVE  Witnessed'
<1>1. ReportsOld'
  BY ReportsKept
<1>2. AnswerSound'
  BY DEF AnswerSound
<1>3. \A c \in Candidates : Genuine(c, log.recorded[c])'
  <2>1. CASE log'.recorded = log.recorded
    BY <2>1 DEF IInv, Witnessed, Genuine
  <2>2. CASE log'.recorded = NoRecord
    <3>1. \A c \in Candidates : NoRecord[c] = <<>>
      BY DEF NoRecord
    <3>2. Distinct(<<>>) /\ Range(<<>>) = {}
      BY DistinctRange
    <3> QED BY <2>2, <3>1, <3>2 DEF Genuine
  <2> QED BY <2>1, <2>2
<1>4. \A c \in DOMAIN checkpoint'.frontier : Genuine(c, checkpoint.frontier[c])'
  BY DEF IInv, Witnessed, Genuine
<1>5. \A c \in DOMAIN gate' : /\ Distinct(gate'[c])
                              /\ \A r \in Range(gate'[c]) : r \in Range(reports'[c])
  BY DEF Genuine
<1> QED BY <1>1, <1>2, <1>3, <1>4, <1>5 DEF Witnessed

\* Results in the gate, when none is being accepted.
LEMMA QuietGate ==
  ASSUME IInv, doing.at # "report"
  PROVE  \A c \in DOMAIN gate : Genuine(c, gate[c])
BY DEF IInv, Witnessed, Genuine, BeingAccepted

\* Leases, when nothing is running.
LEMMA ReleasedHeld ==
  ASSUME IInv, active = {}
  PROVE  /\ Released(leases) \in LeaseType /\ Held(Released(leases), queue, {})
         /\ \A c \in Candidates, k \in Kinds : /\ Released(leases)[c][k].status # "ACTIVE"
                                               /\ Later(leases[c][k], Released(leases)[c][k])
<1>1. leases \in LeaseType
  BY TypeFacts DEF IInv
<1>2. Released(leases) \in LeaseType
  BY <1>1, ReleasedFacts
<1>3. ASSUME NEW c \in Candidates, NEW k \in Kinds
      PROVE  Later(leases[c][k], Released(leases)[c][k])
  <2>1. leases[c][k] \in Lease /\ Released(leases)[c][k] \in Lease
    BY <1>1, <1>2 DEF LeaseType
  <2> QED BY <1>1, <2>1, ReleasedFacts, LaterFacts DEF Spent, Waiting
<1>4. ASSUME NEW t \in queue
      PROVE  /\ Released(leases)[t.cand][t.kind].attempt = t.attempt
             /\ Released(leases)[t.cand][t.kind].status \in Waiting
  <2>1. t.cand \in Candidates /\ t.kind \in Kinds
    BY TypeFacts DEF IInv, Tasks
  <2>2. leases[t.cand][t.kind].attempt = t.attempt /\ leases[t.cand][t.kind].status \in Waiting
    BY DEF IInv, Agreement, Held
  <2> QED BY <1>1, <2>1, <2>2, ReleasedFacts DEF Waiting
<1>5. Held(Released(leases), queue, {})
  BY <1>4 DEF IInv, Agreement, Held
<1> QED BY <1>1, <1>2, <1>3, <1>5, ReleasedFacts

(***************************************************************************)
(* The steps that queue audits.                                            *)
(***************************************************************************)
LEMMA EnqueueInv ==
  ASSUME IInv, NEW S, NEW g, NEW ls \in LeaseType,
         IsGate(g), S \subseteq DOMAIN g, DOMAIN gate \subseteq DOMAIN g,
         \A c \in DOMAIN g : Genuine(c, g[c]),
         active' \subseteq active, Held(ls, queue, active'),
         NoneLost(ls, active'),
         \A c \in Candidates, k \in Kinds : Later(leases[c][k], ls[c][k]),
         Enqueue(S, g, ls, active'),
         \A c \in DOMAIN g \ S : \/ Terminal(c, g[c]) \/ c \in parked \/ AuditOf(c, queue, active')
                                 \/ mode' = "draining",
         UNCHANGED <<reports, standing, checkpoint, epoch, open, authority, jobs>>, ~Doing',
         doing'.at = "none",
         epoch # 0, mode' \in {"import", "imported", "booted", "running", "draining"},
         mode' = "import" => active' = {},
         {context', faults', failures', operator'} \subseteq Nat,
         retries' \in [Candidates -> Nat], log' \in LogType, log'.recorded = log.recorded
  PROVE  IInv'
<1>1. /\ authority \in Authorities /\ queue \subseteq Tasks /\ \A j \in active' : j.task \in Tasks
      /\ jobs \in Nat
  BY TypeFacts DEF IInv
<1>2. /\ DOMAIN gate' = DOMAIN g /\ IsGate(gate')
      /\ \A c \in DOMAIN g \ S : gate'[c] = g[c]
      /\ \A c \in S : gate'[c] = WithoutStale(c, g[c])
      /\ leases' \in LeaseType
      /\ \A c \in Candidates, k \in Kinds :
           /\ leases'[c][k].status = "ACTIVE" <=> ls[c][k].status = "ACTIVE"
           /\ leases'[c][k] = ls[c][k] \/ (Spent(ls[c][k]) /\ leases'[c][k].attempt = ls[c][k].attempt + 1)
      /\ queue \subseteq queue' /\ queue' \subseteq Tasks
      /\ \A t \in queue' \ queue : t.cand \in S
      /\ Held(leases', queue', active')
      /\ \A c \in S : Terminal(c, gate'[c]) \/ AuditOf(c, queue', active')
      /\ parked' \subseteq parked
      /\ \A c \in parked : c \in parked' \/ AuditOf(c, queue', active')
  <2>1. PICK A : A = active'
    OBVIOUS
  <2>2. Held(ls, queue, A) /\ NoneLost(ls, A) /\ \A j \in A : j.task \in Tasks
    BY <1>1, <2>1
  <2>3. Enqueue(S, g, ls, A)
    BY <2>1
  <2>4. Enqueued(S, g, ls, A)
    BY <1>1, <2>2, <2>3, EnqueueFacts
  <2> QED BY <2>1, <2>4 DEF Enqueued
<1>3. TypeOK'
  <2>1. leases' \in [Candidates -> [Kinds -> [attempt : Nat, status : Statuses]]]
    BY <1>2 DEF LeaseType, Lease
  <2>2. log' \in [processed : SUBSET Candidates, recorded : [Candidates -> Seq(Results)],
                  imported : BOOLEAN, retried : [Candidates -> Nat], policy : Nat]
    BY DEF LogType
  <2>3. parked' \subseteq Candidates /\ \A j \in active' : j.job \in 1 .. jobs /\ j.task \in Tasks
    BY <1>2, TypeFacts DEF IInv, Typed, TypeOK
  <2> QED BY <1>2, <2>1, <2>2, <2>3, SMTT(30) DEF IInv, Typed, TypeOK
<1>4. Typed'
  BY <1>3 DEF Typed, Doing
<1>5. \A c \in Candidates, k \in Kinds : Later(leases[c][k], leases'[c][k])
  <2> TAKE c \in Candidates, k \in Kinds
  <2>1. leases[c][k] \in Lease /\ ls[c][k] \in Lease /\ leases'[c][k] \in Lease
    BY <1>2, TypeFacts DEF IInv, LeaseType
  <2>2. Later(ls[c][k], leases'[c][k])
    BY <1>2, <2>1, LaterFacts
  <2> QED BY <2>1, <2>2, LaterFacts
<1>6. \A c \in DOMAIN gate' : Genuine(c, gate'[c])
  <2> TAKE c \in DOMAIN gate'
  <2>1. g[c] \in Seq(Results) /\ Genuine(c, g[c])
    BY <1>2 DEF IsGate
  <2>2. Genuine(c, WithoutStale(c, g[c]))
    BY <2>1, KeptFacts DEF Genuine
  <2> QED BY <1>2, <2>1, <2>2
<1>7. Witnessed'
  <2>1. \A i, j \in active' : i.job = j.job => i = j
    BY DEF IInv, Witnessed
  <2> QED BY <1>1, <1>4, <1>5, <1>6, <2>1, QuietWitnessed
<1>8. \A t \in queue' : t.cand \in DOMAIN gate'
  BY <1>2 DEF IInv, Agreement
<1>9. \A j \in active' : j.task.cand \in DOMAIN gate'
  BY <1>2 DEF IInv, Agreement
<1>10. Agreement'
  BY <1>2, <1>8, <1>9 DEF Agreement, Worked, NoneLost
<1>11. \A c : AuditOf(c, queue, active') => AuditOf(c, queue', active')
  BY <1>2 DEF AuditOf
<1>12. Coverage'
  <2> SUFFICES ASSUME NEW c \in DOMAIN gate', mode' # "draining" PROVE Covered(c)'
    BY DEF Coverage
  <2>1. CASE c \in S
    BY <1>2, <2>1 DEF Covered
  <2>2. CASE c \notin S
    BY <1>2, <1>11, <2>2 DEF Covered
  <2> QED BY <2>1, <2>2
<1> QED BY <1>4, <1>7, <1>10, <1>12 DEF IInv

(***************************************************************************)
(* Steps that leave gate, leases, queue and jobs alone, and steps that     *)
(* forget them.                                                            *)
(***************************************************************************)
LEMMA LeasesStay ==
  ASSUME IInv, leases' = leases
  PROVE  \A c \in Candidates, k \in Kinds : Later(leases[c][k], leases'[c][k])
<1> TAKE c \in Candidates, k \in Kinds
<1>1. leases[c][k] \in Lease
  BY TypeFacts DEF IInv, LeaseType
<1> QED BY <1>1, LaterFacts

LEMMA StillInv ==
  ASSUME IInv, TypeOK', doing.at = "none",
         UNCHANGED <<leases, reports, checkpoint, gate, queue, active, parked, doing, jobs>>,
         log'.recorded = log.recorded,
         epoch' # 0 \/ UNCHANGED <<mode, epoch, open>>,
         mode' = "down" => mode = "down",
         mode' = "import" => mode \in {"down", "import"},
         mode' \notin {"down", "import"} /\ mode \in {"down", "import"} =>
           \A c \in Candidates, k \in Kinds : leases[c][k].status # "ACTIVE",
         mode' # "draining" => mode # "draining"
  PROVE  IInv'
<1>1. Typed'
  BY DEF IInv, Typed, Doing
<1>2. Agreement'
  <2>1. Held(leases, queue, active)'
    BY DEF IInv, Agreement, Held
  <2> QED BY <2>1 DEF IInv, Agreement, Worked
<1>3. Coverage'
  BY DEF IInv, Coverage, Covered, Doing
<1>4. Witnessed'
  <2>1. \A c \in DOMAIN gate' : Genuine(c, gate'[c])
    BY QuietGate
  <2>2. jobs' \in Nat /\ jobs <= jobs'
    BY TypeFacts DEF IInv
  <2>3. ~Doing'
    BY DEF Doing
  <2> QED BY <1>1, <2>1, <2>2, <2>3, LeasesStay, QuietWitnessed DEF IInv, Witnessed
<1> QED BY <1>1, <1>2, <1>3, <1>4 DEF IInv

LEMMA ForgetInv ==
  ASSUME IInv, ForgetMemory, mode # "down", mode' = "down", open' \in BOOLEAN,
         leases' \in LeaseType,
         \A c \in Candidates, k \in Kinds : Later(leases[c][k], leases'[c][k]),
         UNCHANGED <<reports, standing, context, log, epoch, authority, jobs>>,
         {faults', failures', operator'} \subseteq Nat,
         \/ checkpoint' = checkpoint
         \/ /\ checkpoint'.usable \in BOOLEAN /\ IsGate(checkpoint'.frontier)
            /\ \A c \in DOMAIN checkpoint'.frontier : Genuine(c, checkpoint'.frontier[c])
  PROVE  IInv'
<1>1. DOMAIN gate' = {} /\ queue' = {} /\ active' = {} /\ parked' = {} /\ doing'.at = "none"
  BY DEF ForgetMemory
<1>2. TypeOK'
  <2>1. leases' \in [Candidates -> [Kinds -> [attempt : Nat, status : Statuses]]]
    BY DEF LeaseType, Lease
  <2>2. retries' \in [Candidates -> Nat]
    BY DEF ForgetMemory
  <2>3. IsGate(gate')
    BY <1>1 DEF IsGate
  <2>4. TypeOK
    BY DEF IInv, Typed
  <2>5. checkpoint'.usable \in BOOLEAN /\ IsGate(checkpoint'.frontier)
    BY <2>4 DEF TypeOK
  <2>6. {context', epoch', jobs', faults', failures', operator'} \subseteq Nat
    BY <2>4 DEF TypeOK
  <2> QED BY <1>1, <2>1, <2>2, <2>3, <2>4, <2>5, <2>6 DEF TypeOK
<1>3. Typed'
  BY <1>1, <1>2 DEF Typed, Doing
<1>4. Agreement'
  BY <1>1 DEF IInv, Agreement, Held
<1>5. Coverage'
  BY <1>1 DEF Coverage
<1>6. Witnessed'
  <2>1. ~Doing' /\ \A c \in DOMAIN gate' : Genuine(c, gate'[c])
    BY <1>1 DEF Doing
  <2>2. jobs' \in Nat /\ jobs <= jobs'
    BY TypeFacts DEF IInv
  <2> QED BY <1>1, <1>3, <2>1, <2>2, QuietWitnessed
<1> QED BY <1>3, <1>4, <1>5, <1>6 DEF IInv

(***************************************************************************)
(* Booting.                                                                *)
(***************************************************************************)
LEMMA NewEpochInv ==
  ASSUME IInv, NewEpoch
  PROVE  IInv'
<1>1. DOMAIN gate = {} /\ queue = {} /\ active = {} /\ doing.at = "none"
  BY DEF IInv, Typed, Doing, NewEpoch
<1>2. log' \in LogType /\ log'.recorded = NoRecord
  <2>1. NoRecord \in [Candidates -> Seq(Results)]
    BY DEF NoRecord
  <2>2. authority.policy \in Nat
    BY TypeFacts DEF IInv, Authorities
  <2> QED BY <2>1, <2>2 DEF NewEpoch, NewLog, LogType
<1>3. epoch' \in Nat /\ epoch' # 0 /\ open' = TRUE /\ mode' \in {"booted", "import"}
  BY DEF IInv, Typed, TypeOK, NewEpoch
<1>4. UNCHANGED <<leases, reports, standing, context, checkpoint, authority, gate, queue,
                  active, retries, parked, doing, jobs, faults, failures, operator>>
  BY DEF NewEpoch, ledgers, memory, counters
<1>5. TypeOK'
  BY <1>2, <1>3, <1>4 DEF IInv, Typed, TypeOK, LogType, IsGate
<1>6. Typed'
  BY <1>1, <1>3, <1>4, <1>5 DEF Typed, Doing
<1>7. Agreement'
  <2>1. mode' # "import" => \A c \in Candidates, k \in Kinds : leases[c][k].status # "ACTIVE"
    BY DEF IInv, Agreement, NewEpoch
  <2> QED BY <1>1, <1>3, <1>4, <2>1 DEF Agreement, Held
<1>8. Coverage'
  BY <1>1, <1>4 DEF Coverage
<1>9. Witnessed'
  <2>1. ~Doing' /\ \A c \in DOMAIN gate' : Genuine(c, gate'[c])
    BY <1>1, <1>4 DEF Doing
  <2>2. jobs' \in Nat /\ jobs <= jobs'
    BY <1>4, TypeFacts DEF IInv
  <2> QED BY <1>1, <1>2, <1>4, <1>6, <2>1, <2>2, LeasesStay, QuietWitnessed
<1> QED BY <1>6, <1>7, <1>8, <1>9 DEF IInv

\* A gate restored from results of the log or the checkpoint.
LEMMA RestoredGate ==
  ASSUME NEW c, NEW s \in Seq(Results), Genuine(c, s)
  PROVE  Restored(c, s).results \in Seq(Results) /\ Genuine(c, Restored(c, s).results)
BY RestoredFacts DEF Genuine

LEMMA ResumeEpochInv ==
  ASSUME IInv, ResumeEpoch
  PROVE  IInv'
<1> DEFINE S == log.processed
           gD == [c \in log.processed |-> Restored(c, log.recorded[c]).results]
           lsD == Released(leases)
<1>1. DOMAIN gate = {} /\ queue = {} /\ active = {} /\ doing.at = "none" /\ epoch # 0
  BY DEF IInv, Typed, Doing, Agreement, ResumeEpoch
<1>2. UNCHANGED <<reports, standing, context, log, checkpoint, epoch, open, authority, active,
                  doing, jobs, faults, failures, operator>>
  BY DEF ResumeEpoch, history, counters
<1>3. PICK g, ls : g = gD /\ ls = lsD
  OBVIOUS
<1>4. Enqueue(S, g, ls, active')
  <2>1. [c \in log.processed |-> [c_1 \in log.processed |-> Restored(c_1, log.recorded[c_1])][c].results]
          = gD
    OBVIOUS
  <2> HIDE DEF gD
  <2>2. Enqueue(S, gD, lsD, {})
    BY <2>1 DEF ResumeEpoch
  <2> QED BY <1>1, <1>2, <1>3, <2>2
<1>5. S \subseteq Candidates /\ log \in LogType
  BY TypeFacts DEF IInv, LogType
<1>6. \A c \in S : g[c] \in Seq(Results) /\ Genuine(c, g[c])
  <2> TAKE c \in S
  <2>1. log.recorded[c] \in Seq(Results)
    BY <1>5 DEF LogType
  <2>2. Genuine(c, log.recorded[c])
    BY <1>5 DEF IInv, Witnessed
  <2> QED BY <1>3, <2>1, <2>2, RestoredGate
<1>7. DOMAIN g = S
  BY <1>3
<1>8. IsGate(g)
  BY <1>5, <1>6, <1>7 DEF IsGate
<1> HIDE DEF gD
<1>9. /\ ls \in LeaseType /\ Held(ls, queue, active')
      /\ \A c \in Candidates, k \in Kinds : ls[c][k].status # "ACTIVE" /\ Later(leases[c][k], ls[c][k])
  BY <1>1, <1>2, <1>3, ReleasedHeld
<1>10. NoneLost(ls, active')
  BY <1>9 DEF NoneLost
<1>11. /\ mode' \in {"import", "booted"} /\ retries' \in [Candidates -> Nat]
       /\ {context', faults', failures', operator'} \subseteq Nat
  <2>1. log.retried \in [Candidates -> Nat]
    BY <1>5 DEF LogType
  <2> QED BY <1>2, <2>1 DEF ResumeEpoch, IInv, Typed, TypeOK
<1>12. ~Doing' /\ doing'.at = "none"
  BY <1>1, <1>2 DEF Doing
<1>13. \A c \in DOMAIN g \ S : FALSE
  BY <1>7
<1>14. S \subseteq DOMAIN g /\ DOMAIN gate \subseteq DOMAIN g /\ active' \subseteq active
  BY <1>1, <1>2, <1>7
<1>15. \A c \in DOMAIN g : Genuine(c, g[c])
  BY <1>6, <1>7
<1> QED BY <1>1, <1>2, <1>4, <1>5, <1>8, <1>9, <1>10, <1>11, <1>12, <1>13, <1>14, <1>15, EnqueueInv

LEMMA ImportCheckpointInv ==
  ASSUME IInv, ImportCheckpoint
  PROVE  IInv'
<1> DEFINE all == DOMAIN gate \cup DOMAIN checkpoint.frontier
           gD == [c \in all |-> IF c \in DOMAIN checkpoint.frontier
                                THEN Restored(c, checkpoint.frontier[c]).results ELSE gate[c]]
           lsD == Released(leases)
           SD == {c \in all : ~Terminal(c, gD[c])}
<1>1. active = {} /\ doing.at = "none" /\ epoch # 0
  BY DEF IInv, Typed, Doing, Agreement, ImportCheckpoint
<1>2. UNCHANGED <<reports, standing, context, log, checkpoint, epoch, open, authority, active,
                  retries, doing, jobs, faults, failures, operator>> /\ mode' = "imported"
  BY DEF ImportCheckpoint, history, counters
<1>3. PICK S, g, ls : S = SD /\ g = gD /\ ls = lsD
  OBVIOUS
<1>4. Enqueue(S, g, ls, active')
  <2>1. Enqueue(SD, gD, lsD, {})
    BY DEF ImportCheckpoint
  <2> HIDE DEF SD, gD
  <2> QED BY <1>1, <1>2, <1>3, <2>1
<1>5. DOMAIN g = all /\ S \subseteq all /\ \A c \in all \ S : Terminal(c, g[c])
  BY <1>3
<1>6. ASSUME NEW c \in all
      PROVE  c \in Candidates /\ g[c] \in Seq(Results) /\ Genuine(c, g[c])
  <2>1. CASE c \in DOMAIN checkpoint.frontier
    <3>1. checkpoint.frontier[c] \in Seq(Results) /\ c \in Candidates
      BY <2>1, TypeFacts DEF IInv, IsGate
    <3>2. Genuine(c, checkpoint.frontier[c])
      BY <2>1 DEF IInv, Witnessed
    <3>3. g[c] = Restored(c, checkpoint.frontier[c]).results
      BY <1>3, <2>1
    <3> QED BY <3>1, <3>2, <3>3, RestoredGate
  <2>2. CASE c \notin DOMAIN checkpoint.frontier
    <3>1. c \in DOMAIN gate /\ gate[c] \in Seq(Results) /\ c \in Candidates
      BY <2>2, TypeFacts DEF IInv, IsGate
    <3>2. Genuine(c, gate[c])
      BY <1>1, <3>1, QuietGate
    <3>3. g[c] = gate[c]
      BY <1>3, <2>2
    <3> QED BY <3>1, <3>2, <3>3
  <2> QED BY <2>1, <2>2
<1>7. IsGate(g)
  BY <1>5, <1>6 DEF IsGate
<1>8. /\ ls \in LeaseType /\ Held(ls, queue, active')
      /\ \A c \in Candidates, k \in Kinds : ls[c][k].status # "ACTIVE" /\ Later(leases[c][k], ls[c][k])
  BY <1>1, <1>2, <1>3, ReleasedHeld
<1> HIDE DEF gD, SD
<1>9. NoneLost(ls, active')
  BY <1>8 DEF NoneLost
<1>10. /\ retries' \in [Candidates -> Nat] /\ {context', faults', failures', operator'} \subseteq Nat
       /\ log' \in LogType
  BY <1>2, TypeFacts DEF IInv, Typed, TypeOK
<1>11. ~Doing' /\ doing'.at = "none"
  BY <1>1, <1>2 DEF Doing
<1>12. S \subseteq DOMAIN g /\ DOMAIN gate \subseteq DOMAIN g /\ active' \subseteq active
  BY <1>2, <1>5
<1>13. \A c \in DOMAIN g : Genuine(c, g[c])
  BY <1>5, <1>6
<1>14. \A c \in DOMAIN g \ S : Terminal(c, g[c])
  BY <1>5
<1> HIDE DEF all
<1> QED BY <1>1, <1>2, <1>4, <1>7, <1>8, <1>9, <1>10, <1>11, <1>12, <1>13, <1>14, EnqueueInv

\* Steps that change the phase only, or what has no part in the invariant.
LEMMA QuietStepsInv ==
  ASSUME IInv, DiscardCheckpoint \/ ImportDone \/ StartWork \/ Drain \/ EditSources \/ ChangeAuthority
  PROVE  IInv'
<1>1. CASE DiscardCheckpoint
  <2>1. doing.at = "none"
    BY <1>1 DEF IInv, Typed, Doing, DiscardCheckpoint
  <2>2. \A c \in Candidates, k \in Kinds : leases[c][k].status # "ACTIVE"
    BY <1>1 DEF DiscardCheckpoint, AuditsOpen
  <2>3. epoch # 0
    BY <1>1 DEF IInv, Agreement, DiscardCheckpoint
  <2>4. TypeOK'
    BY <1>1 DEF IInv, Typed, TypeOK, IsGate, DiscardCheckpoint, ledgers, history, memory, counters
  <2> QED BY <1>1, <2>1, <2>2, <2>3, <2>4, StillInv DEF DiscardCheckpoint, ledgers, history, memory, counters
<1>2. CASE ImportDone
  <2>1. doing.at = "none"
    BY <1>2 DEF IInv, Typed, Doing, ImportDone
  <2>2. log' \in LogType /\ log'.recorded = log.recorded
    BY <1>2, TypeFacts DEF IInv, LogType, ImportDone
  <2>3. epoch # 0
    BY <1>2 DEF IInv, Agreement, ImportDone
  <2>4. TypeOK'
    BY <1>2, <2>2 DEF IInv, Typed, TypeOK, IsGate, LogType, ImportDone, ledgers, memory, counters
  <2> QED BY <1>2, <2>1, <2>2, <2>3, <2>4, StillInv DEF ImportDone, ledgers, memory, counters
<1>3. CASE StartWork
  <2>1. doing.at = "none"
    BY <1>3 DEF IInv, Typed, Doing, StartWork
  <2>2. epoch # 0
    BY <1>3 DEF IInv, Agreement, StartWork
  <2>3. TypeOK'
    BY <1>3 DEF IInv, Typed, TypeOK, IsGate, StartWork, ledgers, history, memory, counters
  <2> QED BY <1>3, <2>1, <2>2, <2>3, StillInv DEF StartWork, ledgers, history, memory, counters
<1>4. CASE Drain
  <2>1. epoch # 0
    BY <1>4 DEF IInv, Agreement, Drain
  <2>2. TypeOK'
    BY <1>4 DEF IInv, Typed, TypeOK, IsGate, Drain, ledgers, history, memory, counters
  <2> QED BY <1>4, <2>1, <2>2, StillInv DEF Drain, ledgers, history, memory, counters
<1>5. CASE EditSources
  <2>1. doing.at = "none"
    BY <1>5 DEF IInv, Typed, Doing, EditSources
  <2>2. TypeOK'
    BY <1>5 DEF IInv, Typed, TypeOK, IsGate, EditSources, history, memory
  <2> QED BY <1>5, <2>1, <2>2, StillInv DEF EditSources, history, memory
<1>6. CASE ChangeAuthority
  <2>1. doing.at = "none"
    BY <1>6 DEF IInv, Typed, Doing, ChangeAuthority
  <2>2. authority' \in Authorities
    BY <1>6, TypeFacts DEF IInv, ChangeAuthority, Authorities
  <2>3. TypeOK'
    BY <1>6, <2>2 DEF IInv, Typed, TypeOK, IsGate, ChangeAuthority, ledgers, history, memory, counters
  <2> QED BY <1>6, <2>1, <2>3, StillInv DEF ChangeAuthority, ledgers, history, memory, counters
<1> QED BY <1>1, <1>2, <1>3, <1>4, <1>5, <1>6

\* Steps that end the attempt.
LEMMA EndsInv ==
  ASSUME IInv, ImportFails \/ BootstrapFails \/ SealEpoch \/ Crash
  PROVE  IInv'
<1>1. ASSUME mode # "down", ForgetMemory, mode' = "down", open' = FALSE,
             \/ leases' = leases
             \/ active = {} /\ leases' = Released(leases),
             UNCHANGED <<reports, standing, context, log, checkpoint, epoch, authority, jobs>>,
             {faults', failures', operator'} \subseteq Nat
      PROVE  IInv'
  <2>1. leases' \in LeaseType /\ \A c \in Candidates, k \in Kinds : Later(leases[c][k], leases'[c][k])
    BY <1>1, ReleasedHeld, LeasesStay, TypeFacts DEF IInv
  <2> QED BY <1>1, <2>1, ForgetInv
<1>2. {faults, failures, operator} \subseteq Nat /\ leases \in LeaseType
  BY TypeFacts DEF IInv, Typed, TypeOK
<1>3. CASE ImportFails
  <2>1. active = {}
    BY <1>3 DEF IInv, Typed, ImportFails
  <2>2. mode # "down" /\ jobs' = jobs /\ {faults', failures', operator'} \subseteq Nat
    BY <1>2, <1>3 DEF ImportFails, counters
  <2>3. /\ ForgetMemory /\ mode' = "down" /\ open' = FALSE
        /\ leases' = IF Drifted THEN leases ELSE Released(leases)
        /\ UNCHANGED <<reports, standing, context, log, checkpoint, epoch, authority>>
    BY <1>3 DEF ImportFails, SealUnusable
  <2> QED BY <1>1, <2>1, <2>2, <2>3
<1>4. CASE BootstrapFails
  <2>1. mode # "down" /\ jobs' = jobs /\ {faults', failures', operator'} \subseteq Nat
    BY <1>2, <1>4 DEF BootstrapFails
  <2> QED BY <1>1, <1>4, <2>1 DEF BootstrapFails, SealUnusable
<1>5. CASE SealEpoch
  <2>1. /\ checkpoint'.usable \in BOOLEAN /\ checkpoint'.frontier = Frontier
    BY <1>5 DEF SealEpoch
  <2>2. IsGate(Frontier)
    BY TypeFacts DEF IInv, IsGate, Frontier
  <2>3. \A c \in DOMAIN Frontier : Genuine(c, Frontier[c])
    BY <1>5, QuietGate DEF SealEpoch, Frontier
  <2>4. \A c \in DOMAIN checkpoint'.frontier : Genuine(c, checkpoint'.frontier[c])
    BY <2>1, <2>3
  <2> QED BY <1>2, <1>5, <2>1, <2>2, <2>4, LeasesStay, ForgetInv DEF SealEpoch, ledgers, counters
<1>6. CASE Crash
  <2>1. open' \in BOOLEAN
    BY <1>6 DEF IInv, Typed, TypeOK, Crash, history
  <2> QED BY <1>2, <1>6, <2>1, LeasesStay, ForgetInv DEF Crash, ledgers, history
<1> QED BY <1>3, <1>4, <1>5, <1>6

(***************************************************************************)
(* Queueing and launching.                                                 *)
(***************************************************************************)
LEMMA Running ==
  ASSUME IInv, mode \in {"imported", "booted", "running", "draining"}
  PROVE  /\ epoch # 0 /\ NoneLost(leases, active) /\ leases \in LeaseType
         /\ Held(leases, queue, active)
BY TypeFacts DEF IInv, Agreement, NoneLost, Worked

\* The candidates S are queued with the leases as they are.
LEMMA QueueInv ==
  ASSUME IInv, NEW S, NEW g, mode \in {"running", "draining"}, doing.at # "report",
         S \subseteq DOMAIN g, DOMAIN gate \subseteq DOMAIN g, IsGate(g),
         \A c \in DOMAIN g : Genuine(c, g[c]),
         \A c \in DOMAIN g \ S : c \in DOMAIN gate /\ g[c] = gate[c] /\ (Doing => c # doing.cand),
         Enqueue(S, g, leases, active), doing'.at = "none",
         UNCHANGED <<reports, standing, checkpoint, epoch, open, authority, mode, active, jobs,
                     faults, failures, retries>>,
         {context', operator'} \subseteq Nat, log' \in LogType, log'.recorded = log.recorded
  PROVE  IInv'
<1>1. PICK ls : ls = leases
  OBVIOUS
<1>2. /\ epoch # 0 /\ NoneLost(ls, active') /\ ls \in LeaseType /\ Held(ls, queue, active')
      /\ \A c \in Candidates, k \in Kinds : Later(leases[c][k], ls[c][k])
  <2>1. \A c \in Candidates, k \in Kinds : leases[c][k] \in Lease
    BY TypeFacts DEF IInv, LeaseType
  <2> QED BY <1>1, <2>1, Running, LaterFacts
<1>3. Enqueue(S, g, ls, active')
  BY <1>1
<1>4. \A c \in DOMAIN g \ S : \/ Terminal(c, g[c]) \/ c \in parked \/ AuditOf(c, queue, active')
                              \/ mode' = "draining"
  BY DEF IInv, Coverage, Covered
<1>5. ~Doing'
  BY DEF Doing
<1>6. retries' \in [Candidates -> Nat] /\ {context', faults', failures', operator'} \subseteq Nat
  BY DEF IInv, Typed, TypeOK
<1>7. mode' \in {"import", "imported", "booted", "running", "draining"} /\ mode' # "import"
  OBVIOUS
<1>8. active' \subseteq active
  OBVIOUS
<1> QED BY <1>2, <1>3, <1>4, <1>5, <1>6, <1>7, <1>8, EnqueueInv

LEMMA ProcessCandidateInv ==
  ASSUME IInv, NEW c \in Candidates, ProcessCandidate(c)
  PROVE  IInv'
<1> DEFINE gD == [d \in DOMAIN gate \cup {c} |-> IF d = c THEN <<>> ELSE gate[d]]
<1>1. PICK S, g : S = {c} /\ g = gD
  OBVIOUS
<1>2. c \notin DOMAIN gate /\ mode \in {"running", "draining"} /\ doing.at = "none"
  BY DEF ProcessCandidate, Accepted, Idle
<1>3. /\ DOMAIN g = DOMAIN gate \cup {c} /\ g[c] = <<>>
      /\ \A d \in DOMAIN gate : g[d] = gate[d]
  BY <1>1, <1>2
<1>4. IsGate(g)
  <2>1. <<>> \in Seq(Results)
    OBVIOUS
  <2> QED BY <1>3, <2>1, TypeFacts DEF IInv, IsGate
<1>5. \A d \in DOMAIN g : Genuine(d, g[d])
  <2>1. Genuine(c, g[c])
    BY <1>3, DistinctRange DEF Genuine
  <2> QED BY <1>2, <1>3, <2>1, QuietGate
<1>6. Enqueue(S, g, leases, active)
  BY <1>1 DEF ProcessCandidate
<1> HIDE DEF gD
<1>7. log' \in LogType /\ log'.recorded = log.recorded
  <2>1. PICK l \in LogType : l = log
    BY TypeFacts DEF IInv
  <2>2. log' = [l EXCEPT !.processed = l.processed \cup {c}]
    BY <2>1 DEF ProcessCandidate
  <2> QED BY <2>1, <2>2 DEF LogType
<1>8. {context', operator'} \subseteq Nat
  BY DEF ProcessCandidate, IInv, Typed, TypeOK, counters
<1>9. /\ UNCHANGED <<reports, standing, checkpoint, epoch, open, authority, mode, active, jobs,
                     faults, failures, retries, doing>>
  BY DEF ProcessCandidate, counters
<1>10. S \subseteq DOMAIN g /\ DOMAIN gate \subseteq DOMAIN g
  BY <1>1, <1>3
<1>11. \A d \in DOMAIN g \ S : d \in DOMAIN gate /\ g[d] = gate[d] /\ (Doing => d # doing.cand)
  BY <1>1, <1>2, <1>3 DEF Doing
<1> QED BY <1>2, <1>4, <1>5, <1>6, <1>7, <1>8, <1>9, <1>10, <1>11, QueueInv

LEMMA RequestAuditInv ==
  ASSUME IInv, NEW c \in Candidates, RequestAudit(c)
  PROVE  IInv'
<1>1. PICK S, g : S = {c} /\ g = gate
  OBVIOUS
<1>2. mode \in {"running", "draining"} /\ doing.at = "none" /\ c \in DOMAIN gate
  BY DEF RequestAudit, Idle
<1>3. IsGate(g) /\ \A d \in DOMAIN g : Genuine(d, g[d])
  BY <1>1, <1>2, TypeFacts, QuietGate DEF IInv
<1>4. Enqueue(S, g, leases, active)
  BY <1>1 DEF RequestAudit
<1>5. log' \in LogType /\ log'.recorded = log.recorded
  BY TypeFacts DEF IInv, RequestAudit, history
<1>6. {context', operator'} \subseteq Nat
  BY DEF RequestAudit, IInv, Typed, TypeOK
<1>7. /\ UNCHANGED <<reports, standing, checkpoint, epoch, open, authority, mode, active, jobs,
                     faults, failures, retries, doing>>
  BY DEF RequestAudit, history
<1>8. S \subseteq DOMAIN g /\ DOMAIN gate \subseteq DOMAIN g
  BY <1>1, <1>2
<1>9. \A d \in DOMAIN g \ S : d \in DOMAIN gate /\ g[d] = gate[d] /\ (Doing => d # doing.cand)
  BY <1>1, <1>2 DEF Doing
<1> QED BY <1>2, <1>3, <1>4, <1>5, <1>6, <1>7, <1>8, <1>9, QueueInv

LEMMA LaunchAuditInv ==
  ASSUME IInv, NEW t \in queue, LaunchAudit(t)
  PROVE  IInv'
<1> DEFINE jD == [job |-> jobs + 1, task |-> t]
<1>1. PICK j : j = jD
  OBVIOUS
<1>2. j.job = jobs + 1 /\ j.task = t
  BY <1>1
<1>3. /\ mode = "running" /\ doing.at = "none" /\ queue' = queue \ {t} /\ jobs' = jobs + 1
      /\ active' = active \cup {j} /\ leases' = SetLease(leases, t, "ACTIVE")
      /\ UNCHANGED <<reports, standing, context, log, checkpoint, epoch, open, authority, mode,
                     gate, retries, parked, doing, faults, failures, operator>>
  BY <1>1 DEF LaunchAudit, history
<1> HIDE DEF jD
<1>4. t \in Tasks /\ t.cand \in Candidates /\ t.kind \in Kinds /\ leases \in LeaseType /\ jobs \in Nat
  BY TypeFacts DEF IInv, Tasks
<1>5. /\ leases[t.cand][t.kind].attempt = t.attempt /\ leases[t.cand][t.kind].status \in Waiting
      /\ \A u \in queue : SameLease(t, u) => t = u
  BY DEF IInv, Agreement, Held
<1>6. /\ leases' \in LeaseType
      /\ leases'[t.cand][t.kind] = [attempt |-> t.attempt, status |-> "ACTIVE"]
      /\ \A c \in Candidates, k \in Kinds :
           ~(c = t.cand /\ k = t.kind) => leases'[c][k] = leases[c][k]
  BY <1>3, <1>4, <1>5, SetLeaseFacts DEF Statuses
<1>7. Held(leases, queue, active)
  BY DEF IInv, Agreement
<1>8. ASSUME NEW i \in active
      PROVE  /\ ~(i.task.cand = t.cand /\ i.task.kind = t.kind)
             /\ i.task.cand \in Candidates /\ i.task.kind \in Kinds
  <2>1. leases[i.task.cand][i.task.kind] = [attempt |-> i.task.attempt, status |-> "ACTIVE"]
    BY <1>7 DEF Held
  <2>2. leases[i.task.cand][i.task.kind].status = "ACTIVE"
    BY <2>1
  <2> QED BY <1>5, <2>2, TypeFacts DEF Waiting, IInv
<1>9. ASSUME NEW u \in queue'
      PROVE  /\ ~(u.cand = t.cand /\ u.kind = t.kind) /\ u \in queue
             /\ u.cand \in Candidates /\ u.kind \in Kinds
  <2>1. u \in queue /\ u # t /\ u.cand \in Candidates /\ u.kind \in Kinds
    BY <1>3, TypeFacts DEF IInv, Tasks
  <2>2. leases[u.cand][u.kind].attempt = u.attempt
    BY <1>7, <2>1 DEF Held
  <2> QED BY <1>5, <2>1, <2>2 DEF SameLease
<1>10. Held(leases', queue', active')
  <2>1. \A i, l \in active' : SameLease(i.task, l.task) => i = l
    BY <1>2, <1>3, <1>7, <1>8 DEF Held, SameLease
  <2>2. \A u, v \in queue' : SameLease(u, v) => u = v
    BY <1>7, <1>9 DEF Held
  <2>3. \A u \in queue' : leases'[u.cand][u.kind].attempt = u.attempt /\ leases'[u.cand][u.kind].status \in Waiting
    BY <1>6, <1>7, <1>9 DEF Held
  <2>4. \A i \in active' : leases'[i.task.cand][i.task.kind] = [attempt |-> i.task.attempt, status |-> "ACTIVE"]
    <3> TAKE i \in active'
    <3>1. CASE i \in active
      <4>1. leases[i.task.cand][i.task.kind] = [attempt |-> i.task.attempt, status |-> "ACTIVE"]
        BY <1>7, <3>1 DEF Held
      <4> QED BY <1>6, <1>8, <3>1, <4>1
    <3>2. CASE i = j
      BY <1>2, <1>6, <3>2
    <3> QED BY <1>3, <3>1, <3>2
  <2> QED BY <2>1, <2>2, <2>3, <2>4 DEF Held
<1>11. Typed'
  <2>1. leases' \in [Candidates -> [Kinds -> [attempt : Nat, status : Statuses]]]
    BY <1>6 DEF LeaseType, Lease
  <2>2. \A i \in active' : i.job \in 1 .. jobs' /\ i.task \in Tasks
    BY <1>2, <1>3, <1>4, TypeFacts DEF IInv
  <2>3. TypeOK'
    BY <1>3, <1>4, <2>1, <2>2, SMTT(30) DEF IInv, Typed, TypeOK, IsGate
  <2> QED BY <1>3, <2>3 DEF IInv, Typed, Doing
<1>12. Agreement'
  <2>1. \A u \in queue' : u.cand \in DOMAIN gate'
    BY <1>3 DEF IInv, Agreement
  <2>2. \A i \in active' : i.task.cand \in DOMAIN gate'
    BY <1>2, <1>3 DEF IInv, Agreement
  <2>3. ASSUME NEW c \in Candidates, NEW k \in Kinds, leases'[c][k].status = "ACTIVE"
        PROVE  \E i \in active' : i.task.cand = c /\ i.task.kind = k
    <3>1. CASE c = t.cand /\ k = t.kind
      BY <1>2, <1>3, <3>1
    <3>2. CASE ~(c = t.cand /\ k = t.kind)
      <4>1. leases[c][k].status = "ACTIVE"
        BY <1>6, <2>3, <3>2
      <4> QED BY <1>3, <4>1 DEF IInv, Agreement, Worked
    <3> QED BY <3>1, <3>2
  <2>4. epoch' # 0
    BY <1>3 DEF IInv, Agreement
  <2> QED BY <1>10, <2>1, <2>2, <2>3, <2>4 DEF Agreement, Worked
<1>13. Coverage'
  <2> SUFFICES ASSUME NEW c \in DOMAIN gate PROVE Covered(c)'
    BY <1>3 DEF Coverage
  <2>1. Terminal(c, gate[c]) \/ c \in parked \/ AuditOf(c, queue, active)
    BY <1>3 DEF IInv, Coverage, Covered, Doing
  <2>2. AuditOf(c, queue, active) => AuditOf(c, queue', active')
    BY <1>2, <1>3 DEF AuditOf
  <2> QED BY <1>3, <2>1, <2>2 DEF Covered
<1>14. Witnessed'
  <2>1. ASSUME NEW c \in Candidates, NEW k \in Kinds PROVE Later(leases[c][k], leases'[c][k])
    <3>1. leases[c][k] \in Lease /\ leases'[c][k] \in Lease
      BY <1>4, <1>6 DEF LeaseType
    <3>2. CASE c = t.cand /\ k = t.kind
      <4>1. leases'[c][k].attempt = leases[c][k].attempt /\ ~Spent(leases[c][k])
        BY <1>5, <1>6, <3>2 DEF Spent
      <4> QED BY <3>1, <4>1, LaterFacts
    <3>3. CASE ~(c = t.cand /\ k = t.kind)
      BY <1>6, <3>1, <3>3, LaterFacts
    <3> QED BY <3>2, <3>3
  <2>2. \A i \in active : i.job \in 1 .. jobs
    BY TypeFacts DEF IInv
  <2>3. \A i \in active' : i \in active \/ jobs < i.job
    BY <1>2, <1>3, <1>4
  <2>4. \A i, l \in active' : i.job = l.job => i = l
    <3>1. \A i, l \in active : i.job = l.job => i = l
      BY DEF IInv, Witnessed
    <3> QED BY <1>2, <1>3, <1>4, <2>2, <3>1
  <2>5. \A c \in DOMAIN gate' : Genuine(c, gate'[c])
    BY <1>3, QuietGate
  <2>6. ~Doing' /\ jobs' \in Nat /\ jobs <= jobs'
    BY <1>3, <1>4 DEF Doing
  <2> QED BY <1>3, <1>11, <2>1, <2>3, <2>4, <2>5, <2>6, QuietWitnessed
<1> QED BY <1>11, <1>12, <1>13, <1>14 DEF IInv

LEMMA DriftAtLaunchInv ==
  ASSUME IInv, NEW t \in queue, DriftAtLaunch(t)
  PROVE  IInv'
<1>1. /\ mode = "running" /\ doing.at = "none" /\ queue' = queue \ {t}
      /\ parked' = parked \cup {t.cand} /\ faults' = faults + 1
      /\ UNCHANGED <<leases, reports, standing, context, log, checkpoint, epoch, open, authority,
                     mode, gate, active, retries, doing, jobs, failures, operator>>
  BY DEF DriftAtLaunch, ArtifactDrift, ledgers, history
<1>2. t.cand \in Candidates
  BY TypeFacts DEF IInv, Tasks
<1>3. Typed'
  <2>1. parked' \subseteq Candidates /\ queue' \subseteq Tasks /\ faults' \in Nat
    BY <1>1, <1>2 DEF IInv, Typed, TypeOK
  <2>2. TypeOK'
    BY <1>1, <2>1 DEF IInv, Typed, TypeOK, IsGate
  <2> QED BY <1>1, <2>2 DEF IInv, Typed, Doing
<1>4. Agreement'
  <2>1. Held(leases, queue, active)'
    BY <1>1 DEF IInv, Agreement, Held
  <2> QED BY <1>1, <2>1 DEF IInv, Agreement, Worked
<1>5. Coverage'
  <2> SUFFICES ASSUME NEW c \in DOMAIN gate PROVE Covered(c)'
    BY <1>1 DEF Coverage
  <2>1. Terminal(c, gate[c]) \/ c \in parked \/ AuditOf(c, queue, active)
    BY <1>1 DEF IInv, Coverage, Covered, Doing
  <2>2. AuditOf(c, queue, active) => AuditOf(c, queue', active') \/ c = t.cand
    BY <1>1 DEF AuditOf
  <2> QED BY <1>1, <2>1, <2>2 DEF Covered
<1>6. Witnessed'
  <2>1. \A c \in DOMAIN gate' : Genuine(c, gate'[c])
    BY <1>1, QuietGate
  <2>2. ~Doing' /\ jobs' \in Nat /\ jobs <= jobs'
    BY <1>1, TypeFacts DEF IInv, Doing
  <2> QED BY <1>1, <1>3, <2>1, <2>2, LeasesStay, QuietWitnessed DEF IInv, Witnessed
<1> QED BY <1>3, <1>4, <1>5, <1>6 DEF IInv

(***************************************************************************)
(* The end of a job.                                                       *)
(***************************************************************************)
LEMMA JobFacts ==
  ASSUME IInv, NEW j \in active
  PROVE  /\ j.task \in Tasks /\ j.task.cand \in Candidates /\ j.task.kind \in Kinds
         /\ j.task.attempt \in Nat /\ j.task.authority \in Authorities /\ j.job \in 1 .. jobs
         /\ j.task.cand \in DOMAIN gate
         /\ leases[j.task.cand][j.task.kind].attempt = j.task.attempt
         /\ leases[j.task.cand][j.task.kind].status = "ACTIVE"
         /\ \A i \in active \ {j} : ~(i.task.cand = j.task.cand /\ i.task.kind = j.task.kind)
         /\ \A t \in queue : ~(t.cand = j.task.cand /\ t.kind = j.task.kind)
<1>1. Held(leases, queue, active)
  BY DEF IInv, Agreement
<1>2. ASSUME NEW i \in active
      PROVE  /\ leases[i.task.cand][i.task.kind].attempt = i.task.attempt
             /\ leases[i.task.cand][i.task.kind].status = "ACTIVE"
  <2>1. leases[i.task.cand][i.task.kind] = [attempt |-> i.task.attempt, status |-> "ACTIVE"]
    BY <1>1 DEF Held
  <2> QED BY <2>1
<1>3. \A i \in active \ {j} : ~(i.task.cand = j.task.cand /\ i.task.kind = j.task.kind)
  BY <1>1, <1>2 DEF Held, SameLease
<1>4. \A t \in queue : ~(t.cand = j.task.cand /\ t.kind = j.task.kind)
  BY <1>1, <1>2 DEF Held, Waiting
<1>5. j.task \in Tasks /\ j.job \in 1 .. jobs
  BY TypeFacts DEF IInv
<1>6. j.task.cand \in DOMAIN gate
  BY DEF IInv, Agreement
<1> QED BY <1>2, <1>3, <1>4, <1>5, <1>6 DEF Tasks

\* The leases when job j has ended and its own is not ACTIVE any more.
LEMMA EndFacts ==
  ASSUME IInv, NEW j \in active, mode \in {"running", "draining"},
         NEW status \in Statuses \ {"ACTIVE"}, NEW ls, ls = SetLease(leases, j.task, status)
  PROVE  /\ ls \in LeaseType /\ Held(ls, queue, active \ {j}) /\ NoneLost(ls, active \ {j})
         /\ ls[j.task.cand][j.task.kind].attempt = j.task.attempt
         /\ ls[j.task.cand][j.task.kind].status = status
         /\ \A c \in Candidates, k \in Kinds : Later(leases[c][k], ls[c][k])
<1> DEFINE t == j.task
<1>1. t \in Tasks /\ t.cand \in Candidates /\ t.kind \in Kinds
  BY JobFacts
<1>2. leases \in LeaseType
  BY TypeFacts DEF IInv
<1>3. leases[t.cand][t.kind].attempt = t.attempt /\ leases[t.cand][t.kind].status = "ACTIVE"
  BY JobFacts
<1>4. /\ ls \in LeaseType
      /\ ls[t.cand][t.kind] = [attempt |-> leases[t.cand][t.kind].attempt, status |-> status]
      /\ \A c \in Candidates, k \in Kinds : ~(c = t.cand /\ k = t.kind) => ls[c][k] = leases[c][k]
  BY <1>1, <1>2, SetLeaseFacts
<1>5. ls[t.cand][t.kind].attempt = t.attempt /\ ls[t.cand][t.kind].status = status
  BY <1>3, <1>4
<1>6. Held(leases, queue, active)
  BY DEF IInv, Agreement
<1>7. ASSUME NEW i \in active \ {j}
      PROVE  ls[i.task.cand][i.task.kind] = [attempt |-> i.task.attempt, status |-> "ACTIVE"]
  <2>1. leases[i.task.cand][i.task.kind] = [attempt |-> i.task.attempt, status |-> "ACTIVE"]
    BY <1>6 DEF Held
  <2>2. ~(i.task.cand = t.cand /\ i.task.kind = t.kind)
    BY JobFacts
  <2>3. i.task.cand \in Candidates /\ i.task.kind \in Kinds
    BY TypeFacts DEF IInv
  <2> QED BY <1>4, <2>1, <2>2, <2>3
<1>8. ASSUME NEW u \in queue
      PROVE  ls[u.cand][u.kind].attempt = u.attempt /\ ls[u.cand][u.kind].status \in Waiting
  <2>1. leases[u.cand][u.kind].attempt = u.attempt /\ leases[u.cand][u.kind].status \in Waiting
    BY <1>6 DEF Held
  <2>2. ~(u.cand = t.cand /\ u.kind = t.kind)
    BY JobFacts
  <2>3. u.cand \in Candidates /\ u.kind \in Kinds
    BY TypeFacts DEF IInv, Tasks
  <2> QED BY <1>4, <2>1, <2>2, <2>3
<1>9. Held(ls, queue, active \ {j})
  BY <1>6, <1>7, <1>8 DEF Held
<1>10. NoneLost(ls, active \ {j})
  <2> SUFFICES ASSUME NEW c \in Candidates, NEW k \in Kinds, ls[c][k].status = "ACTIVE"
               PROVE  \E i \in active \ {j} : i.task.cand = c /\ i.task.kind = k
    BY DEF NoneLost
  <2>1. ~(c = t.cand /\ k = t.kind)
    BY <1>5
  <2>2. leases[c][k].status = "ACTIVE"
    BY <1>4, <2>1
  <2>3. PICK i \in active : i.task.cand = c /\ i.task.kind = k
    BY <2>2, Running DEF NoneLost
  <2> QED BY <2>1, <2>3
<1>11. ASSUME NEW c \in Candidates, NEW k \in Kinds PROVE Later(leases[c][k], ls[c][k])
  <2>1. leases[c][k] \in Lease /\ ls[c][k] \in Lease
    BY <1>2, <1>4 DEF LeaseType
  <2>2. CASE c = t.cand /\ k = t.kind
    <3>1. ls[c][k].attempt = leases[c][k].attempt /\ ~Spent(leases[c][k])
      BY <1>3, <1>5, <2>2 DEF Spent
    <3> QED BY <2>1, <3>1, LaterFacts
  <2>3. CASE ~(c = t.cand /\ k = t.kind)
    BY <1>4, <2>1, <2>3, LaterFacts
  <2> QED BY <2>2, <2>3
<1> QED BY <1>4, <1>5, <1>9, <1>10, <1>11

\* The gate while a job ends: as it was, or without the stale passes.
AtEnd(g, j) == g = gate \/ g = Completed(j)

LEMMA AtEndFacts ==
  ASSUME IInv, NEW j \in active, doing.at = "none", NEW g, AtEnd(g, j)
  PROVE  /\ DOMAIN g = DOMAIN gate /\ IsGate(g)
         /\ \A c \in DOMAIN gate : c # j.task.cand => g[c] = gate[c]
         /\ \A c \in DOMAIN g : Genuine(c, g[c])
         /\ g = Completed(j) =>
              g[j.task.cand] = WithoutStale(j.task.cand, gate[j.task.cand])
<1>1. IsGate(gate) /\ (\A c \in DOMAIN gate : Genuine(c, gate[c])) /\ j.task.cand \in DOMAIN gate
  BY TypeFacts, QuietGate, JobFacts DEF IInv
<1>2. CASE g = gate /\ g # Completed(j)
  BY <1>1, <1>2
<1>3. CASE g = Completed(j)
  <2>1. PICK c : c = j.task.cand
    OBVIOUS
  <2>2. PICK s : s = WithoutStale(c, gate[c])
    OBVIOUS
  <2>3. g = [gate EXCEPT ![c] = s]
    BY <1>3, <2>1, <2>2 DEF Completed
  <2>4. gate[c] \in Seq(Results) /\ Genuine(c, gate[c])
    BY <1>1, <2>1 DEF IsGate
  <2>5. s \in Seq(Results) /\ Genuine(c, s)
    BY <2>2, <2>4, KeptFacts DEF Genuine
  <2>6. DOMAIN g = DOMAIN gate /\ g[c] = s /\ \A d \in DOMAIN gate : d # c => g[d] = gate[d]
    BY <1>1, <2>1, <2>3
  <2>7. IsGate(g)
    BY <1>1, <2>5, <2>6 DEF IsGate
  <2> QED BY <1>1, <2>1, <2>2, <2>5, <2>6, <2>7
<1> QED BY <1>2, <1>3 DEF AtEnd

\* A job ends, its lease waits for a retry, and the candidate is left to the
\* Director or the epoch ends.
LEMMA ReleaseInv ==
  ASSUME IInv, NEW j \in active, mode \in {"running", "draining"}, doing.at = "none",
         NEW g, AtEnd(g, j), gate' = g, active' = active \ {j},
         leases' = SetLease(leases, j.task, "RETRY_WAIT"),
         parked' \subseteq Candidates, parked \subseteq parked', mode' \in {mode, "draining"},
         j.task.cand \in parked' \/ mode' = "draining",
         UNCHANGED <<reports, standing, context, log, checkpoint, epoch, open, authority, queue,
                     retries, doing, jobs, operator>>,
         {faults', failures'} \subseteq Nat
  PROVE  IInv'
<1>1. PICK ls : ls = SetLease(leases, j.task, "RETRY_WAIT")
  OBVIOUS
<1>2. /\ leases' \in LeaseType /\ Held(leases', queue, active \ {j}) /\ NoneLost(leases', active \ {j})
      /\ \A c \in Candidates, k \in Kinds : Later(leases[c][k], leases'[c][k])
  <2>1. "RETRY_WAIT" \in Statuses \ {"ACTIVE"}
    BY DEF Statuses, Waiting
  <2>2. /\ ls \in LeaseType /\ Held(ls, queue, active \ {j}) /\ NoneLost(ls, active \ {j})
        /\ \A c \in Candidates, k \in Kinds : Later(leases[c][k], ls[c][k])
    BY <1>1, <2>1, EndFacts
  <2> QED BY <1>1, <2>2
<1>3. /\ DOMAIN g = DOMAIN gate /\ IsGate(g) /\ \A c \in DOMAIN g : Genuine(c, g[c])
      /\ \A c \in DOMAIN gate : c # j.task.cand => g[c] = gate[c]
  BY AtEndFacts
<1>4. Typed'
  <2>1. leases' \in [Candidates -> [Kinds -> [attempt : Nat, status : Statuses]]]
    BY <1>2 DEF LeaseType, Lease
  <2>2. \A i \in active' : i.job \in 1 .. jobs /\ i.task \in Tasks
    BY TypeFacts DEF IInv
  <2>3. TypeOK'
    BY <1>3, <2>1, <2>2 DEF IInv, Typed, TypeOK, IsGate
  <2> QED BY <2>3 DEF IInv, Typed, Doing
<1>5. Agreement'
  <2>1. Held(leases', queue', active')
    BY <1>2
  <2>2. epoch # 0
    BY Running
  <2> QED BY <1>2, <1>3, <2>1, <2>2 DEF IInv, Agreement, Worked, NoneLost
<1>6. Coverage'
  <2> SUFFICES ASSUME NEW c \in DOMAIN gate, mode' # "draining" PROVE Covered(c)'
    BY <1>3 DEF Coverage
  <2>1. Terminal(c, gate[c]) \/ c \in parked \/ AuditOf(c, queue, active)
    BY DEF IInv, Coverage, Covered, Doing
  <2>2. CASE c = j.task.cand
    BY <2>2 DEF Covered
  <2>3. CASE c # j.task.cand
    <3>1. AuditOf(c, queue, active) => AuditOf(c, queue', active')
      BY <2>3 DEF AuditOf
    <3> QED BY <1>3, <2>1, <2>3, <3>1 DEF Covered
  <2> QED BY <2>2, <2>3
<1>7. Witnessed'
  <2>1. ~Doing' /\ jobs' \in Nat /\ jobs <= jobs'
    BY TypeFacts DEF IInv, Doing
  <2>2. \A i, l \in active' : i.job = l.job => i = l
    BY DEF IInv, Witnessed
  <2>3. \A i \in active' : i \in active
    OBVIOUS
  <2> QED BY <1>2, <1>3, <1>4, <2>1, <2>2, <2>3, QuietWitnessed
<1> QED BY <1>4, <1>5, <1>6, <1>7 DEF IInv

\* A job ends, and its audit is queued again.
LEMMA RetryInv ==
  ASSUME IInv, NEW j \in active, mode \in {"running", "draining"}, doing.at = "none",
         NEW g, AtEnd(g, j), active' = active \ {j}, NEW ls,
         ls = SetLease(leases, j.task, "RETRY_WAIT"), NEW S, S = {j.task.cand},
         Enqueue(S, g, ls, active'),
         retries' = [retries EXCEPT ![j.task.cand] = @ + 1],
         log' = [log EXCEPT !.retried[j.task.cand] = IF @ > retries[j.task.cand] THEN @
                                                     ELSE retries[j.task.cand] + 1],
         UNCHANGED <<reports, standing, context, checkpoint, epoch, open, authority, mode, doing,
                     jobs, faults, operator>>,
         failures' \in Nat
  PROVE  IInv'
<1>1. j.task.cand \in Candidates /\ j.task.cand \in DOMAIN gate
  BY JobFacts
<1>2. /\ ls \in LeaseType /\ Held(ls, queue, active') /\ NoneLost(ls, active')
      /\ \A c \in Candidates, k \in Kinds : Later(leases[c][k], ls[c][k])
  <2>1. "RETRY_WAIT" \in Statuses \ {"ACTIVE"}
    BY DEF Statuses, Waiting
  <2>2. /\ ls \in LeaseType /\ Held(ls, queue, active \ {j}) /\ NoneLost(ls, active \ {j})
        /\ \A c \in Candidates, k \in Kinds : Later(leases[c][k], ls[c][k])
    BY <2>1, EndFacts
  <2> QED BY <2>2
<1>3. /\ DOMAIN g = DOMAIN gate /\ IsGate(g) /\ \A c \in DOMAIN g : Genuine(c, g[c])
      /\ \A c \in DOMAIN gate : c # j.task.cand => g[c] = gate[c]
  BY AtEndFacts
<1>4. \A c \in DOMAIN g \ S : \/ Terminal(c, g[c]) \/ c \in parked \/ AuditOf(c, queue, active')
                              \/ mode' = "draining"
  <2> TAKE c \in DOMAIN g \ S
  <2>1. mode # "draining" => Terminal(c, gate[c]) \/ c \in parked \/ AuditOf(c, queue, active)
    BY <1>3 DEF IInv, Coverage, Covered, Doing
  <2>2. AuditOf(c, queue, active) => AuditOf(c, queue, active')
    BY DEF AuditOf
  <2> QED BY <1>3, <2>1, <2>2
<1>5. retries' \in [Candidates -> Nat] /\ log' \in LogType /\ log'.recorded = log.recorded
  <2>1. PICK c \in Candidates : c = j.task.cand
    BY <1>1
  <2>2. PICK l \in LogType, r \in [Candidates -> Nat] : l = log /\ r = retries
    BY TypeFacts DEF IInv, Typed, TypeOK
  <2>3. PICK n \in Nat : n = IF l.retried[c] > r[c] THEN l.retried[c] ELSE r[c] + 1
    BY <2>2 DEF LogType
  <2>4. log' = [l EXCEPT !.retried = [l.retried EXCEPT ![c] = n]]
    BY <2>1, <2>2, <2>3 DEF LogType
  <2>5. [l.retried EXCEPT ![c] = n] \in [Candidates -> Nat]
    BY <2>2, <2>3 DEF LogType
  <2>6. log' \in LogType /\ log'.recorded = log.recorded
    BY <2>2, <2>4, <2>5 DEF LogType
  <2> QED BY <2>1, <2>2, <2>6
<1>6. ~Doing' /\ doing'.at = "none" /\ mode' \in {"import", "imported", "booted", "running", "draining"}
  BY DEF Doing
<1>7. {context', faults', failures', operator'} \subseteq Nat /\ mode' # "import" /\ epoch # 0
  BY Running DEF IInv, Typed, TypeOK
<1>8. S \subseteq DOMAIN g /\ DOMAIN gate \subseteq DOMAIN g /\ active' \subseteq active
  BY <1>1, <1>3
<1> QED BY <1>2, <1>3, <1>4, <1>5, <1>6, <1>7, <1>8, EnqueueInv

LEMMA RetryOrParkInv ==
  ASSUME IInv, NEW j \in active, mode \in {"running", "draining"}, doing.at = "none",
         NEW g, AtEnd(g, j), NEW retryable, RetryOrPark(j, g, retryable),
         UNCHANGED <<reports, standing, context, checkpoint, epoch, open, authority, mode, doing,
                     jobs, faults, operator>>,
         failures' \in Nat
  PROVE  IInv'
<1>1. PICK S, ls : S = {j.task.cand} /\ ls = SetLease(leases, j.task, "RETRY_WAIT")
  OBVIOUS
<1>2. active' = active \ {j}
  BY DEF RetryOrPark
<1>3. CASE retryable /\ retries[j.task.cand] < RetryLimit
  <2>1. Enqueue(S, g, ls, active')
    BY <1>1, <1>3 DEF RetryOrPark
  <2>2. /\ retries' = [retries EXCEPT ![j.task.cand] = @ + 1]
        /\ log' = [log EXCEPT !.retried[j.task.cand] = IF @ > retries[j.task.cand] THEN @
                                                       ELSE retries[j.task.cand] + 1]
    BY <1>3 DEF RetryOrPark
  <2> QED BY <1>1, <1>2, <2>1, <2>2, RetryInv
<1>4. CASE ~(retryable /\ retries[j.task.cand] < RetryLimit)
  <2>1. /\ gate' = g /\ leases' = SetLease(leases, j.task, "RETRY_WAIT")
        /\ parked' = parked \cup {j.task.cand} /\ UNCHANGED <<queue, retries, log>>
    BY <1>4 DEF RetryOrPark
  <2>2. parked' \subseteq Candidates
    BY <2>1, JobFacts DEF IInv, Typed, TypeOK
  <2>3. {faults', failures'} \subseteq Nat
    BY DEF IInv, Typed, TypeOK
  <2> QED BY <1>2, <2>1, <2>2, <2>3, ReleaseInv
<1> QED BY <1>3, <1>4

LEMMA AuditFailsInv ==
  ASSUME IInv, NEW j \in active, AuditFails(j)
  PROVE  IInv'
<1>1. PICK retryable \in BOOLEAN : RetryOrPark(j, gate, retryable)
  BY DEF AuditFails
<1>2. PICK g : g = gate
  OBVIOUS
<1>3. RetryOrPark(j, g, retryable) /\ AtEnd(g, j)
  BY <1>1, <1>2 DEF AtEnd
<1>4. failures' \in Nat
  BY DEF AuditFails, IInv, Typed, TypeOK
<1> QED BY <1>3, <1>4, RetryOrParkInv DEF AuditFails, Idle

LEMMA InvalidVerdictInv ==
  ASSUME IInv, NEW j \in active, InvalidVerdict(j)
  PROVE  IInv'
<1>1. PICK g, retryable : /\ g = Completed(j)
                          /\ retryable = ~Terminal(j.task.cand, Completed(j)[j.task.cand])
  OBVIOUS
<1>2. RetryOrPark(j, g, retryable) /\ AtEnd(g, j)
  BY <1>1 DEF InvalidVerdict, AtEnd
<1>3. failures' \in Nat
  BY DEF InvalidVerdict, counters, IInv, Typed, TypeOK
<1> QED BY <1>2, <1>3, RetryOrParkInv DEF InvalidVerdict, Idle, counters

LEMMA DriftAtCompletionInv ==
  ASSUME IInv, NEW j \in active, DriftAtCompletion(j)
  PROVE  IInv'
<1>1. PICK g : g = Completed(j)
  OBVIOUS
<1>2. /\ gate' = g /\ AtEnd(g, j) /\ active' = active \ {j}
      /\ leases' = SetLease(leases, j.task, "RETRY_WAIT")
      /\ parked' = parked \cup {j.task.cand} /\ faults' = faults + 1
      /\ mode \in {"running", "draining"} /\ doing.at = "none"
      /\ UNCHANGED <<reports, standing, context, log, checkpoint, epoch, open, authority, mode,
                     queue, retries, doing, jobs, failures, operator>>
  BY <1>1 DEF DriftAtCompletion, ArtifactDrift, Idle, Completed, AtEnd, history
<1>3. parked' \subseteq Candidates /\ {faults', failures'} \subseteq Nat
  BY <1>2, JobFacts DEF IInv, Typed, TypeOK
<1> QED BY <1>2, <1>3, ReleaseInv

LEMMA LoseProviderInv ==
  ASSUME IInv, NEW j \in active, LoseProvider(j)
  PROVE  IInv'
<1>1. PICK g : g = gate
  OBVIOUS
<1>2. /\ gate' = g /\ AtEnd(g, j) /\ active' = active \ {j}
      /\ leases' = SetLease(leases, j.task, "RETRY_WAIT")
      /\ mode' = "draining" /\ failures' = failures + 1
      /\ mode \in {"running", "draining"} /\ doing.at = "none"
      /\ UNCHANGED <<reports, standing, context, log, checkpoint, epoch, open, authority, parked,
                     queue, retries, doing, jobs, faults, operator>>
  BY <1>1 DEF LoseProvider, Idle, AtEnd, history
<1>3. parked' \subseteq Candidates /\ {faults', failures'} \subseteq Nat
  BY <1>2 DEF IInv, Typed, TypeOK
<1> QED BY <1>2, <1>3, ReleaseInv

(***************************************************************************)
(* A verdict is accepted, written down and acted on.                       *)
(***************************************************************************)
LEMMA AppendFacts ==
  ASSUME NEW T, NEW s \in Seq(T), NEW r \in T
  PROVE  /\ Append(s, r) \in Seq(T)
         /\ \A x : x \in Range(Append(s, r)) <=> x \in Range(s) \/ x = r
         /\ Distinct(s) /\ (\A p \in Range(s) : p.job # r.job) => Distinct(Append(s, r))
<1> DEFINE t == Append(s, r)
<1>1. t \in Seq(T)
  BY AppendProperties
<1>2. /\ Len(s) \in Nat /\ Len(t) = Len(s) + 1 /\ t[Len(s) + 1] = r
      /\ \A i \in 1 .. Len(s) : t[i] = s[i]
  BY AppendProperties
<1>3. DOMAIN s = 1 .. Len(s) /\ DOMAIN t = 1 .. Len(t)
  BY <1>1
<1> HIDE DEF t
<1>4. \A i \in 1 .. Len(t) : i \in 1 .. Len(s) \/ i = Len(s) + 1
  BY <1>2
<1>5. Len(s) + 1 \in 1 .. Len(t) /\ \A i \in 1 .. Len(s) : i \in 1 .. Len(t)
  BY <1>2
<1>6. \A x : x \in Range(t) <=> x \in Range(s) \/ x = r
  BY <1>2, <1>3, <1>4, <1>5 DEF Range
<1>7. ASSUME Distinct(s), \A p \in Range(s) : p.job # r.job
      PROVE  Distinct(t)
  <2>1. \A i \in 1 .. Len(s) : s[i].job # r.job
    BY <1>3, <1>7 DEF Range
  <2> QED BY <1>2, <1>3, <1>4, <1>7, <2>1 DEF Distinct
<1> QED BY <1>1, <1>6, <1>7 DEF t

LEMMA AcceptVerdictInv ==
  ASSUME IInv, NEW j \in active, NEW verdict \in Verdicts, AcceptVerdict(j, verdict)
  PROVE  IInv'
<1>1. PICK t, c, g : t = j.task /\ c = t.cand /\ g = Completed(j)
  OBVIOUS
<1> DEFINE rD == [job |-> j.job, kind |-> t.kind, attempt |-> t.attempt,
                  authority |-> t.authority, verdict |-> verdict]
<1>2. PICK r : r = rD
  OBVIOUS
<1>3. /\ t \in Tasks /\ c \in Candidates /\ t.kind \in Kinds /\ t.attempt \in Nat
      /\ t.authority \in Authorities /\ j.job \in 1 .. jobs /\ jobs \in Nat /\ c \in DOMAIN gate
  BY <1>1, JobFacts, TypeFacts DEF IInv
<1>4. /\ r.job = j.job /\ r.kind = t.kind /\ r.attempt = t.attempt /\ r.authority = t.authority
      /\ r.verdict = verdict /\ r \in Results
  BY <1>2, <1>3 DEF Results
<1>5. PICK status \in Statuses \ {"ACTIVE"} : status = Finished(verdict) /\ status \notin Waiting
  BY DEF Finished, Verdicts, Statuses, Waiting
<1>5a. PICK ls : ls = SetLease(leases, j.task, status)
  OBVIOUS
<1> DEFINE docD == [at |-> "report", cand |-> c, result |-> r]
<1>6. /\ mode \in {"running", "draining"} /\ doing.at = "none" /\ Valid(t, g[c])
      /\ active' = active \ {j} /\ gate' = [g EXCEPT ![c] = Append(g[c], r)]
      /\ leases' = ls /\ retries' = [retries EXCEPT ![c] = 0] /\ doing' = docD
      /\ UNCHANGED <<reports, standing, context, log, checkpoint, epoch, open, authority, mode,
                     queue, parked, jobs, faults, failures, operator>>
  BY <1>1, <1>2, <1>5, <1>5a DEF AcceptVerdict, Idle, history, counters
<1>7. doing'.at = "report" /\ doing'.cand = c /\ doing'.result = r /\ doing' \in Answers
  BY <1>3, <1>4, <1>6 DEF Answers
<1> HIDE DEF docD, rD
<1>8. /\ ls \in LeaseType /\ Held(ls, queue, active') /\ NoneLost(ls, active')
      /\ ls[c][t.kind].attempt = t.attempt /\ ls[c][t.kind].status = status
      /\ \A d \in Candidates, k \in Kinds : Later(leases[d][k], leases'[d][k])
  <2>1. /\ ls \in LeaseType /\ Held(ls, queue, active \ {j}) /\ NoneLost(ls, active \ {j})
        /\ ls[j.task.cand][j.task.kind].attempt = j.task.attempt
        /\ ls[j.task.cand][j.task.kind].status = status
        /\ \A d \in Candidates, k \in Kinds : Later(leases[d][k], ls[d][k])
    <3>1. mode \in {"running", "draining"}
      BY <1>6
    <3>2. ls = SetLease(leases, j.task, status)
      BY <1>5a
    <3> QED BY ONLY IInv, j \in active, status \in Statuses \ {"ACTIVE"}, <3>1, <3>2, EndFacts, SMTT(30)
  <2> QED BY <1>1, <1>6, <2>1
<1>9. /\ DOMAIN g = DOMAIN gate /\ IsGate(g) /\ \A d \in DOMAIN g : Genuine(d, g[d])
      /\ \A d \in DOMAIN gate : d # c => g[d] = gate[d]
      /\ g[c] = WithoutStale(c, gate[c])
  BY <1>1, <1>6, AtEndFacts DEF AtEnd
<1>10. g[c] \in Seq(Results) /\ gate[c] \in Seq(Results)
  BY <1>3, <1>9, TypeFacts DEF IsGate, IInv
<1>11. \A p \in Range(reports[c]) : p.job # r.job /\ ~(p.kind = r.kind /\ p.attempt = r.attempt)
  <2> TAKE p \in Range(reports[c])
  <2>1. p.job # j.job /\ Used(leases[c][p.kind], p)
    BY <1>3 DEF IInv, Witnessed, ReportsOld
  <2>2. leases[c][t.kind].attempt = t.attempt /\ leases[c][t.kind].status = "ACTIVE"
    BY <1>1, JobFacts
  <2> QED BY <1>4, <2>1, <2>2 DEF Used, Spent
<1>12. /\ gate'[c] \in Seq(Results) /\ Distinct(gate'[c])
       /\ \A x : x \in Range(gate'[c]) <=> x \in Range(g[c]) \/ x = r
  <2>1. gate'[c] = Append(g[c], r)
    BY <1>3, <1>6, <1>9
  <2>2. Genuine(c, g[c])
    BY <1>3, <1>9
  <2>3. Distinct(g[c]) /\ \A p \in Range(g[c]) : p.job # r.job
    BY <1>11, <2>2 DEF Genuine
  <2> QED BY <1>4, <1>10, <2>1, <2>3, AppendFacts
<1>13. DOMAIN gate' = DOMAIN gate /\ \A d \in DOMAIN gate : d # c => gate'[d] = gate[d]
  BY <1>3, <1>6, <1>9
<1>14. IsGate(gate')
  <2>1. IsGate(gate)
    BY TypeFacts DEF IInv
  <2> QED BY <1>12, <1>13, <2>1 DEF IsGate
<1>15. Typed'
  <2>1. leases' \in [Candidates -> [Kinds -> [attempt : Nat, status : Statuses]]]
    BY <1>6, <1>8 DEF LeaseType, Lease
  <2>2. \A i \in active' : i.job \in 1 .. jobs /\ i.task \in Tasks
    BY <1>6, TypeFacts DEF IInv
  <2>3. retries' \in [Candidates -> Nat]
    BY <1>6 DEF IInv, Typed, TypeOK
  <2>4. TypeOK'
    BY <1>6, <1>7, <1>14, <2>1, <2>2, <2>3 DEF IInv, Typed, TypeOK
  <2> QED BY <1>3, <1>4, <1>6, <1>7, <1>13, <2>4 DEF Typed, Doing
<1>16. Agreement'
  <2>1. Held(leases', queue', active')
    BY <1>6, <1>8
  <2>2. epoch # 0
    BY <1>6, Running
  <2>3. NoneLost(leases', active')
    BY <1>6, <1>8
  <2> QED BY <1>6, <1>13, <2>1, <2>2, <2>3 DEF IInv, Agreement, Worked, NoneLost
<1>17. Coverage'
  <2> SUFFICES ASSUME NEW d \in DOMAIN gate, mode # "draining", d # c PROVE Covered(d)'
    BY <1>6, <1>7, <1>13 DEF Coverage, Doing
  <2>1. Terminal(d, gate[d]) \/ d \in parked \/ AuditOf(d, queue, active)
    BY <1>6 DEF IInv, Coverage, Covered, Doing
  <2>2. AuditOf(d, queue, active) => AuditOf(d, queue', active')
    BY <1>1, <1>6 DEF AuditOf
  <2> QED BY <1>6, <1>13, <2>1, <2>2 DEF Covered
<1>18. ReportsOld'
  <2>1. \A i \in active' : i \in active
    BY <1>6
  <2> QED BY <1>3, <1>6, <1>8, <1>15, <2>1, ReportsKept
<1>19. NewAnswer(c, r)'
  <2>1. \A i \in active' : i.job # r.job
    BY <1>4, <1>6 DEF IInv, Witnessed
  <2>2. leases'[c][r.kind].attempt = r.attempt /\ Spent(leases'[c][r.kind])
    BY <1>4, <1>5, <1>6, <1>8 DEF Spent
  <2> QED BY <1>3, <1>4, <1>6, <1>11, <2>1, <2>2 DEF NewAnswer
<1>20. ASSUME c \in Bridged, NEW p \in Range(gate'[c]), p.verdict = "PASS"
       PROVE  p.authority = authority
  <2>1. CASE p = r
    BY <1>1, <1>4, <1>6, <1>20, <2>1 DEF Valid
  <2>2. CASE p # r
    <3>1. p \in Range(WithoutStale(c, gate[c]))
      BY <1>9, <1>12, <1>20, <2>2
    <3>2. Current(c, p)
      BY <1>10, <3>1, KeptFacts
    <3> QED BY <1>20, <3>2 DEF Current
  <2> QED BY <2>1, <2>2
<1>21. AnswerSound'
  <2>1. r \in Range(gate'[c])
    BY <1>12
  <2>2. \A p \in Range(log.recorded[c]) : p.job # r.job
    <3>1. Genuine(c, log.recorded[c])
      BY <1>3 DEF IInv, Witnessed
    <3> QED BY <1>11, <3>1 DEF Genuine
  <2>3. NewAnswer(doing.cand, doing.result)'
    BY <1>7, <1>19 DEF NewAnswer
  <2> QED BY <1>6, <1>7, <1>20, <2>1, <2>2, <2>3 DEF AnswerSound
<1>22. Witnessed'
  <2>1. \A d \in DOMAIN gate' : Distinct(gate'[d])
    BY <1>12, <1>13 DEF IInv, Witnessed
  <2>2. ASSUME NEW d \in DOMAIN gate', NEW p \in Range(gate'[d])
        PROVE  p \in Range(reports'[d]) \/ BeingAccepted(d, p)'
    <3>1. CASE d = c
      <4>1. p \in Range(g[c]) => p \in Range(reports[c])
        BY <1>3, <1>9 DEF Genuine
      <4> QED BY <1>6, <1>7, <1>12, <2>2, <3>1, <4>1 DEF BeingAccepted
    <3>2. CASE d # c
      <4>1. d \in DOMAIN gate /\ gate'[d] = gate[d]
        BY <1>13, <3>2
      <4>2. Genuine(d, gate[d])
        BY <1>6, <4>1, QuietGate
      <4> QED BY <1>6, <2>2, <4>1, <4>2 DEF Genuine
    <3> QED BY <3>1, <3>2
  <2>3. \A i, l \in active' : i.job = l.job => i = l
    BY <1>6 DEF IInv, Witnessed
  <2>4. \A d \in Candidates : Genuine(d, log.recorded[d])'
    BY <1>6 DEF IInv, Witnessed, Genuine
  <2>5. \A d \in DOMAIN checkpoint'.frontier : Genuine(d, checkpoint.frontier[d])'
    BY <1>6 DEF IInv, Witnessed, Genuine
  <2> QED BY <1>18, <1>21, <2>1, <2>2, <2>3, <2>4, <2>5 DEF Witnessed
<1> QED BY <1>15, <1>16, <1>17, <1>22 DEF IInv

\* The answer that is being accepted.
LEMMA AnswerFacts ==
  ASSUME IInv, Doing
  PROVE  /\ mode \in {"running", "draining"} /\ epoch # 0
         /\ doing.cand \in Candidates /\ doing.cand \in DOMAIN gate /\ doing.result \in Results
         /\ reports[doing.cand] \in Seq(Results) /\ log.recorded[doing.cand] \in Seq(Results)
         /\ \A s \in {"event", "act"} : /\ [doing EXCEPT !.at = s] \in Answers
                                        /\ [doing EXCEPT !.at = s].at = s
                                        /\ [doing EXCEPT !.at = s].cand = doing.cand
                                        /\ [doing EXCEPT !.at = s].result = doing.result
<1>1. doing \in Answers /\ mode \in {"running", "draining"} /\ doing.cand \in DOMAIN gate
  BY DEF IInv, Typed
<1>2. doing.cand \in Candidates /\ doing.result \in Results
  BY <1>1 DEF Answers
<1>3. reports[doing.cand] \in Seq(Results) /\ log.recorded[doing.cand] \in Seq(Results)
  BY <1>2, TypeFacts DEF IInv, LogType
<1>4. epoch # 0
  BY <1>1, Running
<1>5. \A s \in {"event", "act"} : /\ [doing EXCEPT !.at = s] \in Answers
                                  /\ [doing EXCEPT !.at = s].at = s
                                  /\ [doing EXCEPT !.at = s].cand = doing.cand
                                  /\ [doing EXCEPT !.at = s].result = doing.result
  BY <1>1 DEF Answers
<1> QED BY <1>1, <1>2, <1>3, <1>4, <1>5

LEMMA WriteReportInv ==
  ASSUME IInv, WriteReport
  PROVE  IInv'
<1>1. PICK c, r : c = doing.cand /\ r = doing.result
  OBVIOUS
<1>2. Doing /\ doing.at = "report"
  BY DEF WriteReport, Doing
<1>3. /\ mode \in {"running", "draining"} /\ c \in Candidates /\ c \in DOMAIN gate /\ r \in Results
      /\ reports[c] \in Seq(Results)
  BY <1>1, <1>2, AnswerFacts
<1>4. doing' \in Answers /\ doing'.at = "event" /\ doing'.cand = c /\ doing'.result = r
  BY <1>1, <1>2, AnswerFacts DEF WriteReport
<1>5. /\ reports' = [reports EXCEPT ![c] = Append(reports[c], r)]
      /\ UNCHANGED <<leases, standing, context, log, checkpoint, epoch, open, authority, mode,
                     gate, queue, active, retries, parked, jobs, faults, failures, operator>>
  BY <1>1 DEF WriteReport, history, counters
<1>6. /\ reports'[c] \in Seq(Results)
      /\ \A x : x \in Range(reports'[c]) <=> x \in Range(reports[c]) \/ x = r
      /\ reports' \in [Candidates -> Seq(Results)]
      /\ \A d \in Candidates : d # c => reports'[d] = reports[d]
  <2>1. reports \in [Candidates -> Seq(Results)]
    BY TypeFacts DEF IInv
  <2>2. reports'[c] = Append(reports[c], r)
    BY <1>3, <1>5, <2>1
  <2>3. Append(reports[c], r) \in Seq(Results)
    BY <1>3, AppendFacts
  <2>4. \A x : x \in Range(Append(reports[c], r)) <=> x \in Range(reports[c]) \/ x = r
    BY <1>3, AppendFacts
  <2> QED BY <1>3, <1>5, <2>1, <2>2, <2>3, <2>4
<1>7. \A d \in Candidates : \A p : p \in Range(reports[d]) => p \in Range(reports'[d])
  BY <1>6
<1>8. Typed'
  <2>1. TypeOK'
    BY <1>4, <1>5, <1>6 DEF IInv, Typed, TypeOK, IsGate
  <2> QED BY <1>3, <1>4, <1>5, <2>1 DEF Typed, Doing
<1>9. Agreement'
  <2>1. Held(leases, queue, active)'
    BY <1>5 DEF IInv, Agreement, Held
  <2> QED BY <1>5, <2>1 DEF IInv, Agreement, Worked
<1>10. Coverage'
  BY <1>1, <1>2, <1>4, <1>5 DEF IInv, Coverage, Covered, Doing
<1>11. NewAnswer(c, r) /\ ReportsOld
  <2>1. NewAnswer(doing.cand, doing.result)
    BY <1>2 DEF IInv, Witnessed, AnswerSound
  <2> QED BY <1>1, <2>1 DEF IInv, Witnessed
<1>12. ReportsOld'
  <2> SUFFICES ASSUME NEW d \in Candidates, NEW p \in Range(reports'[d])
               PROVE  p.job <= jobs /\ (\A j \in active : j.job # p.job) /\ Used(leases[d][p.kind], p)
    BY <1>5 DEF ReportsOld
  <2>1. CASE p \in Range(reports[d])
    BY <1>11, <2>1 DEF ReportsOld
  <2>2. CASE p \notin Range(reports[d])
    <3>1. d = c /\ p = r
      BY <1>6, <2>2
    <3>2. r.attempt \in Nat
      BY <1>3 DEF Results
    <3> QED BY <1>11, <3>1, <3>2 DEF NewAnswer, Used
  <2> QED BY <2>1, <2>2
<1>13. AnswerSound'
  <2>1. r \in Range(gate[c])
    BY <1>1, <1>2 DEF IInv, Witnessed, AnswerSound
  <2>2. \A p \in Range(log.recorded[c]) : p.job # r.job
    BY <1>1, <1>2 DEF IInv, Witnessed, AnswerSound
  <2>3. c \in Bridged => \A p \in Range(gate[c]) : p.verdict = "PASS" => p.authority = authority
    BY <1>1, <1>2 DEF IInv, Witnessed, AnswerSound
  <2> QED BY <1>4, <1>5, <1>6, <2>1, <2>2, <2>3 DEF AnswerSound
<1>14. Witnessed'
  <2>1. \A d \in DOMAIN gate : d \in Candidates
    BY TypeFacts DEF IInv
  <2>2. ASSUME NEW d \in DOMAIN gate, NEW p \in Range(gate[d])
        PROVE  p \in Range(reports'[d])
    <3>1. p \in Range(reports[d]) \/ (d = c /\ p = r)
      BY <1>1 DEF IInv, Witnessed, BeingAccepted
    <3> QED BY <1>6, <1>7, <2>1, <3>1
  <2>3. \A d \in Candidates : Genuine(d, log.recorded[d])'
    BY <1>5, <1>7 DEF IInv, Witnessed, Genuine
  <2>4. \A d \in DOMAIN checkpoint'.frontier : Genuine(d, checkpoint.frontier[d])'
    <3>1. \A d \in DOMAIN checkpoint.frontier : d \in Candidates
      BY TypeFacts DEF IInv, IsGate
    <3> QED BY <1>5, <1>7, <3>1 DEF IInv, Witnessed, Genuine
  <2>5. \A i, l \in active' : i.job = l.job => i = l
    BY <1>5 DEF IInv, Witnessed
  <2>6. \A d \in DOMAIN gate' : Distinct(gate'[d])
    BY <1>5 DEF IInv, Witnessed
  <2> QED BY <1>5, <1>12, <1>13, <2>2, <2>3, <2>4, <2>5, <2>6 DEF Witnessed
<1> QED BY <1>8, <1>9, <1>10, <1>14 DEF IInv

LEMMA RecordVerdictInv ==
  ASSUME IInv, RecordVerdict
  PROVE  IInv'
<1>1. PICK c, r : c = doing.cand /\ r = doing.result
  OBVIOUS
<1>2. Doing /\ doing.at = "event"
  BY DEF RecordVerdict, Doing
<1>3. /\ mode \in {"running", "draining"} /\ c \in Candidates /\ c \in DOMAIN gate /\ r \in Results
      /\ log.recorded[c] \in Seq(Results)
  BY <1>1, <1>2, AnswerFacts
<1>4. doing' \in Answers /\ doing'.at = "act" /\ doing'.cand = c /\ doing'.result = r
  BY <1>1, <1>2, AnswerFacts DEF RecordVerdict
<1>5. /\ log' = [log EXCEPT !.recorded[c] = Append(@, r)]
      /\ UNCHANGED <<leases, reports, standing, context, checkpoint, epoch, open, authority, mode,
                     gate, queue, active, retries, parked, jobs, faults, failures, operator>>
  BY <1>1 DEF RecordVerdict, ledgers, counters
<1>6. PICK l, s : l \in LogType /\ l = log /\ s = Append(l.recorded[c], r)
  BY TypeFacts DEF IInv
<1>7. log' = [l EXCEPT !.recorded = [l.recorded EXCEPT ![c] = s]]
  BY <1>3, <1>5, <1>6 DEF LogType
<1>8. Genuine(c, log.recorded[c])
  BY <1>3 DEF IInv, Witnessed
<1>9. r \in Range(reports[c]) /\ \A p \in Range(log.recorded[c]) : p.job # r.job
  BY <1>1, <1>2 DEF IInv, Witnessed, AnswerSound
<1>10. s \in Seq(Results) /\ Genuine(c, s)
  <2>1. /\ Append(log.recorded[c], r) \in Seq(Results)
        /\ \A x : x \in Range(Append(log.recorded[c], r)) <=> x \in Range(log.recorded[c]) \/ x = r
        /\ Distinct(log.recorded[c]) /\ (\A p \in Range(log.recorded[c]) : p.job # r.job)
             => Distinct(Append(log.recorded[c], r))
    BY <1>3, AppendFacts
  <2> QED BY <1>6, <1>8, <1>9, <2>1 DEF Genuine
<1>11. /\ [l.recorded EXCEPT ![c] = s] \in [Candidates -> Seq(Results)]
       /\ [l.recorded EXCEPT ![c] = s][c] = s
       /\ \A d \in Candidates : d # c => [l.recorded EXCEPT ![c] = s][d] = log.recorded[d]
  BY <1>3, <1>6, <1>10 DEF LogType
<1>12. log' \in LogType /\ log'.recorded = [l.recorded EXCEPT ![c] = s]
  BY <1>6, <1>7, <1>11 DEF LogType
<1>13. Typed'
  <2>1. log' \in [processed : SUBSET Candidates, recorded : [Candidates -> Seq(Results)],
                  imported : BOOLEAN, retried : [Candidates -> Nat], policy : Nat]
    BY <1>12 DEF LogType
  <2>2. TypeOK'
    BY <1>4, <1>5, <2>1 DEF IInv, Typed, TypeOK, IsGate
  <2> QED BY <1>3, <1>4, <1>5, <2>2 DEF Typed, Doing
<1>14. Agreement'
  <2>1. Held(leases, queue, active)'
    BY <1>5 DEF IInv, Agreement, Held
  <2> QED BY <1>5, <2>1 DEF IInv, Agreement, Worked
<1>15. Coverage'
  BY <1>1, <1>2, <1>4, <1>5 DEF IInv, Coverage, Covered, Doing
<1>16. AnswerSound'
  <2>1. r \in Range(gate[c])
    BY <1>1, <1>2 DEF IInv, Witnessed, AnswerSound
  <2>2. c \in Bridged => \A p \in Range(gate[c]) : p.verdict = "PASS" => p.authority = authority
    BY <1>1, <1>2 DEF IInv, Witnessed, AnswerSound
  <2> QED BY <1>4, <1>5, <1>9, <2>1, <2>2 DEF AnswerSound
<1>17. Witnessed'
  <2>1. ReportsOld'
    BY <1>5 DEF IInv, Witnessed, ReportsOld
  <2>2. ASSUME NEW d \in DOMAIN gate, NEW p \in Range(gate[d])
        PROVE  p \in Range(reports[d])
    BY <1>2 DEF IInv, Witnessed, BeingAccepted
  <2>3. \A d \in Candidates : Genuine(d, log.recorded[d])'
    <3>1. ASSUME NEW d \in Candidates PROVE Genuine(d, log'.recorded[d])
      <4>1. CASE d = c
        BY <1>10, <1>11, <1>12, <4>1
      <4>2. CASE d # c
        BY <1>11, <1>12, <4>2 DEF IInv, Witnessed
      <4> QED BY <4>1, <4>2
    <3> QED BY <1>5, <3>1 DEF Genuine
  <2>4. \A d \in DOMAIN checkpoint'.frontier : Genuine(d, checkpoint.frontier[d])'
    BY <1>5 DEF IInv, Witnessed, Genuine
  <2>5. \A i, k \in active' : i.job = k.job => i = k
    BY <1>5 DEF IInv, Witnessed
  <2>6. \A d \in DOMAIN gate' : Distinct(gate'[d])
    BY <1>5 DEF IInv, Witnessed
  <2> QED BY <1>5, <1>16, <2>1, <2>2, <2>3, <2>4, <2>5, <2>6 DEF Witnessed
<1> QED BY <1>13, <1>14, <1>15, <1>17 DEF IInv

LEMMA ActOnVerdictInv ==
  ASSUME IInv, ActOnVerdict
  PROVE  IInv'
<1>1. PICK c : c = doing.cand
  OBVIOUS
<1>2. Doing /\ doing.at = "act" /\ doing'.at = "none" /\ ~Doing'
  BY DEF ActOnVerdict, Doing
<1>3. /\ mode \in {"running", "draining"} /\ c \in Candidates /\ c \in DOMAIN gate
      /\ gate[c] \in Seq(Results) /\ epoch # 0
  BY <1>1, <1>2, AnswerFacts, TypeFacts DEF IInv, IsGate
<1>4. UNCHANGED <<reports, log, checkpoint, epoch, open, authority, active, retries, jobs, faults,
                  failures, operator>>
  BY DEF ActOnVerdict, history, counters
<1>5. CASE ActAgain(c)
  <2>1. PICK S, g : S = {c} /\ g = gate
    OBVIOUS
  <2>2. Enqueue(S, g, leases, active)
    BY <1>5, <2>1 DEF ActAgain
  <2>3. UNCHANGED <<standing, context, mode>>
    BY <1>5 DEF ActAgain
  <2>4. IsGate(g) /\ \A d \in DOMAIN g : Genuine(d, g[d])
    BY <1>2, <2>1, TypeFacts, QuietGate DEF IInv
  <2>5. \A d \in DOMAIN g \ S : d \in DOMAIN gate /\ g[d] = gate[d] /\ (Doing => d # doing.cand)
    BY <1>1, <2>1
  <2>6. S \subseteq DOMAIN g /\ DOMAIN gate \subseteq DOMAIN g /\ doing.at # "report"
    BY <1>2, <1>3, <2>1
  <2>7. {context', operator'} \subseteq Nat /\ log' \in LogType /\ log'.recorded = log.recorded
    BY <1>4, <2>3, TypeFacts DEF IInv, Typed, TypeOK
  <2> QED BY <1>2, <1>3, <1>4, <2>2, <2>3, <2>4, <2>5, <2>6, <2>7, QueueInv
<1>6. ASSUME UNCHANGED <<gate, leases, queue>>, parked \subseteq parked', parked' \subseteq Candidates,
             mode' \in {mode, "draining"}, context' \in Nat,
             standing' \in [Candidates -> {"none", "promoted", "withheld", "rejected"}],
             Terminal(c, gate[c]) \/ c \in parked'
      PROVE  IInv'
  <2>1. Typed'
    <3>1. TypeOK'
      BY <1>2, <1>4, <1>6 DEF IInv, Typed, TypeOK, IsGate
    <3> QED BY <1>2, <1>3, <1>6, <3>1 DEF Typed
  <2>2. Agreement'
    <3>1. Held(leases, queue, active)'
      BY <1>4, <1>6 DEF IInv, Agreement, Held
    <3> QED BY <1>3, <1>4, <1>6, <3>1 DEF IInv, Agreement, Worked
  <2>3. Coverage'
    <3> SUFFICES ASSUME NEW d \in DOMAIN gate, mode' # "draining" PROVE Covered(d)'
      BY <1>6 DEF Coverage
    <3>1. CASE d = c
      BY <1>6, <3>1 DEF Covered
    <3>2. CASE d # c
      BY <1>1, <1>4, <1>6, <3>2 DEF IInv, Coverage, Covered
    <3> QED BY <3>1, <3>2
  <2>4. Witnessed'
    <3>1. \A d \in DOMAIN gate' : Genuine(d, gate'[d])
      BY <1>2, <1>6, QuietGate
    <3>2. jobs' \in Nat /\ jobs <= jobs'
      BY <1>4, TypeFacts DEF IInv
    <3> QED BY <1>2, <1>4, <1>6, <2>1, <3>1, <3>2, LeasesStay, QuietWitnessed DEF IInv, Witnessed
  <2> QED BY <2>1, <2>2, <2>3, <2>4 DEF IInv
<1>7. /\ standing \in [Candidates -> {"none", "promoted", "withheld", "rejected"}]
      /\ context \in Nat /\ parked \subseteq Candidates
  BY DEF IInv, Typed, TypeOK
<1>8. CASE ActRejected(c)
  <2>1. Terminal(c, gate[c])
    BY <1>8 DEF ActRejected, Terminal
  <2>2. context' \in Nat /\ standing' \in [Candidates -> {"none", "promoted", "withheld", "rejected"}]
    BY <1>3, <1>7, <1>8 DEF ActRejected
  <2> QED BY <1>6, <1>7, <1>8, <2>1, <2>2 DEF ActRejected
<1>9. CASE ActUnresolved(c)
  BY <1>3, <1>6, <1>7, <1>9 DEF ActUnresolved
<1>10. CASE Promote(c)
  <2>1. Terminal(c, gate[c])
    BY <1>10 DEF Promote, Approved
  <2>2. context' \in Nat /\ standing' \in [Candidates -> {"none", "promoted", "withheld", "rejected"}]
    BY <1>3, <1>7, <1>10 DEF Promote
  <2> QED BY <1>6, <1>7, <1>10, <2>1, <2>2 DEF Promote
<1>11. CASE Withhold(c)
  <2>1. Terminal(c, gate[c])
    BY <1>11 DEF Withhold, Approved
  <2>2. standing' \in [Candidates -> {"none", "promoted", "withheld", "rejected"}]
    BY <1>3, <1>7, <1>11 DEF Withhold
  <2> QED BY <1>6, <1>7, <1>11, <2>1, <2>2 DEF Withhold
<1> QED BY <1>1, <1>5, <1>8, <1>9, <1>10, <1>11 DEF ActOnVerdict

(***************************************************************************)
(* The invariant, and what follows from it.                                *)
(***************************************************************************)
LEMMA InitInv == Init => IInv
<1> SUFFICES ASSUME Init PROVE IInv
  OBVIOUS
<1>1. /\ DOMAIN gate = {} /\ queue = {} /\ active = {} /\ doing.at = "none" /\ mode = "down"
      /\ DOMAIN checkpoint.frontier = {}
  BY DEF Init
<1>2. NoRecord \in [Candidates -> Seq(Results)] /\ \A c \in Candidates : NoRecord[c] = <<>>
  BY DEF NoRecord
<1>3. \A c \in Candidates, k \in Kinds : leases[c][k] = NoLease
  BY DEF Init
<1>4. leases \in [Candidates -> [Kinds -> [attempt : Nat, status : Statuses]]]
  BY DEF Init, NoLease, Statuses
<1>5. log \in LogType /\ log.recorded = NoRecord
  BY <1>2 DEF Init, NewLog, LogType
<1>6. TypeOK
  <2>1. {context, epoch, jobs, faults, failures, operator} \subseteq Nat 
    BY DEF Init
  <2>2. authority \in Authorities /\ open \in BOOLEAN
    BY DEF Init, Authorities
  <2>3. checkpoint.usable \in BOOLEAN /\ IsGate(checkpoint.frontier) /\ IsGate(gate)
    BY <1>1 DEF Init, IsGate
  <2>4. /\ reports \in [Candidates -> Seq(Results)]
        /\ standing \in [Candidates -> {"none", "promoted", "withheld", "rejected"}]
        /\ retries \in [Candidates -> Nat] /\ parked \subseteq Candidates
    BY <1>2 DEF Init
  <2> QED BY <1>1, <1>4, <1>5, <2>1, <2>2, <2>3, <2>4 DEF TypeOK, LogType
<1>7. Typed
  BY <1>1, <1>6 DEF Typed, Doing
<1>8. Agreement
  BY <1>1, <1>3 DEF Init, Agreement, Held, NoLease
<1>9. Coverage
  BY <1>1 DEF Coverage
<1>10. Distinct(<<>>) /\ Range(<<>>) = {}
  BY DistinctRange
<1>11. Witnessed
  <2>1. \A c \in Candidates : Range(reports[c]) = {} /\ Genuine(c, log.recorded[c])
    BY <1>2, <1>5, <1>10 DEF Init, Genuine
  <2>2. ReportsOld /\ AnswerSound
    BY <1>1, <2>1 DEF ReportsOld, AnswerSound, Doing
  <2> QED BY <1>1, <2>1, <2>2 DEF Witnessed
<1> QED BY <1>7, <1>8, <1>9, <1>11 DEF IInv

LEMMA NextInv == IInv /\ [Next]_vars => IInv'
<1> SUFFICES ASSUME IInv, [Next]_vars PROVE IInv'
  OBVIOUS
<1>1. CASE Boot
  BY <1>1, NewEpochInv, ResumeEpochInv, ImportCheckpointInv, QuietStepsInv, EndsInv DEF Boot
<1>2. CASE BootstrapFails \/ SealEpoch \/ Crash
  BY <1>2, EndsInv
<1>3. CASE Drain \/ ChangeAuthority \/ EditSources
  BY <1>3, QuietStepsInv
<1>4. CASE \E c \in Candidates : ProcessCandidate(c) \/ RequestAudit(c)
  BY <1>4, ProcessCandidateInv, RequestAuditInv
<1>5. CASE \E t \in queue : LaunchAudit(t) \/ DriftAtLaunch(t)
  BY <1>5, LaunchAuditInv, DriftAtLaunchInv
<1>6. CASE \E j \in active : Answer(j)
  <2>1. PICK j \in active : Answer(j)
    BY <1>6
  <2>2. CASE \E verdict \in Verdicts : AcceptVerdict(j, verdict)
    BY <2>2, AcceptVerdictInv
  <2>3. CASE InvalidVerdict(j) \/ AuditFails(j) \/ LoseProvider(j) \/ DriftAtCompletion(j)
    BY <2>3, InvalidVerdictInv, AuditFailsInv, LoseProviderInv, DriftAtCompletionInv
  <2> QED BY <2>1, <2>2, <2>3 DEF Answer
<1>7. CASE FollowUp
  BY <1>7, WriteReportInv, RecordVerdictInv, ActOnVerdictInv DEF FollowUp
<1>8. CASE UNCHANGED vars
  <2>1. UNCHANGED <<leases, reports, standing, context, log, checkpoint, epoch, open, authority, mode,
                    gate, queue, active, retries, parked, doing, jobs, faults, failures, operator>>
    BY <1>8 DEF vars, ledgers, history, memory, counters
  <2>2. Typed'
    BY <2>1 DEF IInv, Typed, TypeOK, IsGate, Doing
  <2>3. Agreement'
    BY <2>1 DEF IInv, Agreement, Held, Worked
  <2>4. Coverage'
    BY <2>1 DEF IInv, Coverage, Covered, Doing
  <2>5. ReportsOld' /\ AnswerSound'
    BY <2>1 DEF IInv, Witnessed, ReportsOld, AnswerSound, NewAnswer, Doing
  <2>6. Witnessed'
    BY <2>1, <2>5 DEF IInv, Witnessed, Genuine, BeingAccepted
  <2> QED BY <2>2, <2>3, <2>4, <2>6 DEF IInv
<1> QED BY <1>1, <1>2, <1>3, <1>4, <1>5, <1>6, <1>7, <1>8 DEF Next

\* The invariant holds in every state.
THEOREM Invariance == Spec => []IInv
BY InitInv, NextInv, PTL DEF Spec

\* Gate, leases, queue and running audits agree, and no candidate that needs
\* an audit is forgotten, in every phase and after any crash, retry or import.
THEOREM Sound == Spec => []AuditsSound
<1>1. IInv => AuditsSound
  <2> SUFFICES ASSUME IInv PROVE AuditsSound
    OBVIOUS
  <2>1. TypeOK
    BY DEF IInv, Typed
  <2>2. LeasesHeld
    <3> SUFFICES ASSUME mode \in {"imported", "booted", "running", "draining"}
                 PROVE  /\ \A i, j \in active : SameLease(i.task, j.task) => i = j
                        /\ \A t, u \in queue : SameLease(t, u) => t = u
                        /\ \A t \in queue : leases[t.cand][t.kind].attempt = t.attempt
                                            /\ leases[t.cand][t.kind].status \in Waiting
                        /\ {l \in Candidates \X Kinds : leases[l[1]][l[2]].status = "ACTIVE"}
                             = {<<j.task.cand, j.task.kind>> : j \in active}
      BY DEF LeasesHeld
    <3>1. Held(leases, queue, active) /\ NoneLost(leases, active)
      BY Running
    <3>2. ASSUME NEW l \in Candidates \X Kinds, leases[l[1]][l[2]].status = "ACTIVE"
          PROVE  l \in {<<j.task.cand, j.task.kind>> : j \in active}
      <4>1. PICK c \in Candidates, k \in Kinds : l = <<c, k>>
        OBVIOUS
      <4>2. PICK j \in active : j.task.cand = c /\ j.task.kind = k
        BY <3>1, <3>2, <4>1 DEF NoneLost
      <4> QED BY <4>1, <4>2
    <3>3. ASSUME NEW j \in active
          PROVE  <<j.task.cand, j.task.kind>> \in
                   {l \in Candidates \X Kinds : leases[l[1]][l[2]].status = "ACTIVE"}
      <4>1. /\ j.task.cand \in Candidates /\ j.task.kind \in Kinds
            /\ leases[j.task.cand][j.task.kind].status = "ACTIVE"
        BY JobFacts
      <4> QED BY <4>1
    <3> QED BY <3>1, <3>2, <3>3 DEF Held
  <2>3. NothingStuck
    BY DEF NothingStuck, IInv, Coverage, Covered, AuditOf, Doing
  <2> QED BY <2>1, <2>2, <2>3 DEF AuditsSound
<1> QED BY <1>1, Invariance, PTL

(***************************************************************************)
(* The pipeline implements IndependentAudits.                              *)
(***************************************************************************)
Ballot(r) == [auditor |-> r.job, assignment |-> <<r.kind, r.attempt>>,
              verdict |-> r.verdict, authority |-> r.authority]

LEMMA BallotFacts ==
  /\ \A r : /\ Ballot(r).auditor = r.job /\ Ballot(r).assignment = <<r.kind, r.attempt>>
            /\ Ballot(r).verdict = r.verdict /\ Ballot(r).authority = r.authority
  /\ DOMAIN Votes = Candidates
  /\ \A c \in Candidates : \A v : v \in Votes[c] <=> \E r \in Range(reports[c]) : v = Ballot(r)
BY DEF Ballot, Votes

\* n of the results of s that Fits tells, with different jobs, are n ballots.
LEMMA DifferentBallots ==
  ASSUME NEW s \in Seq(Results), Distinct(s), NEW n \in Nat, n <= Passes(s)
  PROVE  \E Q : /\ Cardinality(Q) = n
                /\ \A v \in Q : \E r \in Range(s) : v = Ballot(r) /\ r.verdict = "PASS"
<1> DEFINE I == {i \in DOMAIN s : s[i].verdict = "PASS"}
           m == Cardinality(I)
<1>1. DOMAIN s = 1 .. Len(s) /\ Len(s) \in Nat
  OBVIOUS
<1>2. IsFiniteSet(I)
  <2>1. IsFiniteSet(1 .. Len(s))
    BY <1>1, FS_Interval
  <2> QED BY <1>1, <2>1, FS_Subset
<1>3. m \in Nat /\ n <= m /\ ExistsBijection(1 .. m, I)
  BY <1>2, FS_CardinalityType DEF Passes
<1>4. PICK f : f \in Bijection(1 .. m, I)
  BY <1>3 DEF ExistsBijection
<1>5. f \in [1 .. m -> I] /\ \A a, b \in 1 .. m : f[a] = f[b] => a = b
  BY <1>4 DEF Bijection, Injection, IsInjective
<1> HIDE DEF m
<1> DEFINE h == [k \in 1 .. n |-> Ballot(s[f[k]])]
           Q == {h[k] : k \in 1 .. n}
<1>6. ASSUME NEW k \in 1 .. n
      PROVE  k \in 1 .. m /\ f[k] \in DOMAIN s /\ s[f[k]].verdict = "PASS" /\ h[k] = Ballot(s[f[k]])
  BY <1>3, <1>5
<1>7. \A a, b \in 1 .. n : h[a] = h[b] => a = b
  <2> SUFFICES ASSUME NEW a \in 1 .. n, NEW b \in 1 .. n, h[a] = h[b] PROVE a = b
    OBVIOUS
  <2>1. h[a].auditor = s[f[a]].job /\ h[b].auditor = s[f[b]].job
    BY <1>6, BallotFacts
  <2>2. f[a] = f[b]
    BY <1>6, <2>1 DEF Distinct
  <2> QED BY <1>5, <1>6, <2>2
<1>8. h \in [1 .. n -> Q] /\ \A v \in Q : \E k \in 1 .. n : h[k] = v
  OBVIOUS
<1>9. ASSUME NEW v \in Q
      PROVE  \E r \in Range(s) : v = Ballot(r) /\ r.verdict = "PASS"
  <2>1. PICK k \in 1 .. n : v = h[k]
    BY <1>8
  <2>2. s[f[k]] \in Range(s)
    BY <1>6 DEF Range
  <2> QED BY <1>6, <2>1, <2>2
<1> HIDE DEF h, Q
<1>10. ExistsBijection(1 .. n, Q)
  <2>1. DOMAIN h = 1 .. n
    BY <1>8
  <2> QED BY <1>7, <1>8, <2>1 DEF ExistsBijection, Bijection, Injection, Surjection, IsInjective
<1> QED BY <1>9, <1>10, FS_CountingElements

\* What is approved has the votes it requires.
LEMMA ApprovedQuorum ==
  ASSUME IInv, doing.at = "act", Approved(doing.cand)
  PROVE  Promise!Quorum(doing.cand)
<1>1. PICK c : c = doing.cand
  OBVIOUS
<1>2. c \in Candidates /\ c \in DOMAIN gate /\ gate[c] \in Seq(Results) /\ Doing
  BY <1>1, AnswerFacts, TypeFacts DEF Doing, IInv, IsGate
<1>3. Required(c) \in Nat /\ Required(c) <= Passes(gate[c])
  <2>1. Passes(gate[c]) >= Required(c) /\ Required(c) \in Nat
    BY <1>1, <1>2, RequiredAssumption DEF Approved, Terminal
  <2>2. Passes(gate[c]) \in Nat
    <3>1. IsFiniteSet(1 .. Len(gate[c])) /\ DOMAIN gate[c] = 1 .. Len(gate[c])
      BY <1>2, FS_Interval
    <3>2. IsFiniteSet({i \in DOMAIN gate[c] : gate[c][i].verdict = "PASS"})
      BY <3>1, FS_Subset
    <3> QED BY <3>2, FS_CardinalityType DEF Passes
  <2> QED BY <2>1, <2>2
<1>4. Genuine(c, gate[c])
  BY <1>2, QuietGate
<1>5. PICK Q : /\ Cardinality(Q) = Required(c)
               /\ \A v \in Q : \E r \in Range(gate[c]) : v = Ballot(r) /\ r.verdict = "PASS"
  BY <1>2, <1>3, <1>4, DifferentBallots DEF Genuine
<1>6. Q \subseteq {v \in Votes[c] : v.verdict = "PASS"}
  BY <1>2, <1>4, <1>5, BallotFacts DEF Genuine
<1>7. c \in Bridged => \A r \in Range(gate[c]) : r.verdict = "PASS" => r.authority = authority
  BY <1>1, <1>2 DEF IInv, Witnessed, AnswerSound
<1>8. c \in Bridged => \A u, v \in Q : u.authority = v.authority
  BY <1>5, <1>7, BallotFacts
<1>9. Promise!Quorum(c)
  <2> USE DEF Promise!Quorum
  <2>1. Q \in SUBSET {v \in Votes[c] : v.verdict = "PASS"}
    BY <1>6
  <2> WITNESS Q \in SUBSET {v \in Votes[c] : v.verdict = "PASS"}
  <2>2. Promise!Cardinality(Q) = Cardinality(Q)
    BY Zenon DEF Cardinality, Promise!Cardinality
  <2> QED BY <1>5, <1>8, <2>2
<1> QED BY <1>1, <1>9

LEMMA PromiseStep == IInv /\ [Next]_vars => [Promise!Next]_(Promise!vars)
<1> SUFFICES ASSUME IInv, [Next]_vars PROVE [Promise!Next]_(Promise!vars)
  OBVIOUS
<1>1. ASSUME UNCHANGED <<reports, standing>> PROVE UNCHANGED Promise!vars
  BY <1>1 DEF Promise!vars, Votes
<1>2. CASE WriteReport
  <2>1. PICK c, r : c = doing.cand /\ r = doing.result
    OBVIOUS
  <2>2. c \in Candidates /\ reports[c] \in Seq(Results) /\ r \in Results
    BY <1>2, <2>1, AnswerFacts DEF WriteReport, Doing
  <2>3. reports' = [reports EXCEPT ![c] = Append(reports[c], r)] /\ standing' = standing
    BY <1>2, <2>1 DEF WriteReport
  <2>4. reports \in [Candidates -> Seq(Results)]
    BY TypeFacts DEF IInv
  <2>5. \A x : x \in Range(Append(reports[c], r)) <=> x \in Range(reports[c]) \/ x = r
    BY <2>2, AppendFacts
  <2>6. reports'[c] = Append(reports[c], r) /\ \A d \in Candidates : d # c => reports'[d] = reports[d]
    BY <2>2, <2>3, <2>4
  <2>7. NewAnswer(c, r)
    BY <1>2, <2>1 DEF IInv, Witnessed, AnswerSound, WriteReport, Doing
  <2>8. PICK v : v = Ballot(r)
    OBVIOUS
  <2>9. /\ DOMAIN Votes' = Candidates
        /\ \A d \in Candidates : Votes'[d] = {Ballot(p) : p \in Range(reports'[d])}
    BY DEF Votes, Ballot
  <2>10. \A d \in Candidates : Votes[d] = {Ballot(p) : p \in Range(reports[d])}
    BY DEF Votes, Ballot
  <2>11. Votes'[c] = Votes[c] \cup {v}
    BY <2>2, <2>5, <2>6, <2>8, <2>9, <2>10
  <2>12. \A d \in Candidates : d # c => Votes'[d] = Votes[d]
    BY <2>6, <2>9, <2>10
  <2>13. Votes' = [Votes EXCEPT ![c] = @ \cup {v}]
    <3>1. Votes = [d \in Candidates |-> Votes[d]] /\ Votes' = [d \in Candidates |-> Votes'[d]]
      BY DEF Votes
    <3>2. [Votes EXCEPT ![c] = @ \cup {v}] = [d \in Candidates |-> IF d = c THEN Votes[c] \cup {v} ELSE Votes[d]]
      BY <3>1
    <3> HIDE DEF Votes
    <3> QED BY <2>11, <2>12, <3>1, <3>2
  <2>14. \A u \in Votes[c] : u.auditor # v.auditor /\ u.assignment # v.assignment
    <3> TAKE u \in Votes[c]
    <3>1. PICK p \in Range(reports[c]) : u = Ballot(p)
      BY <2>2, BallotFacts
    <3>2. p.job # r.job /\ ~(p.kind = r.kind /\ p.attempt = r.attempt)
      BY <2>7 DEF NewAnswer
    <3> QED BY <2>8, <3>1, <3>2, BallotFacts
  <2>15. Promise!Vote(c)
    BY <2>3, <2>11, <2>13, <2>14 DEF Promise!Vote
  <2> QED BY <2>2, <2>15 DEF Promise!Next
<1>3. CASE ActOnVerdict
  <2>1. PICK c : c = doing.cand
    OBVIOUS
  <2>2. c \in Candidates /\ c \in DOMAIN gate /\ doing.at = "act" /\ reports' = reports
    BY <1>3, <2>1, AnswerFacts DEF ActOnVerdict, Doing
  <2>3. Votes' = Votes
    BY <2>2 DEF Votes
  <2>4. ActRejected(c) \/ ActUnresolved(c) \/ ActAgain(c) \/ Promote(c) \/ Withhold(c)
    BY <1>3, <2>1 DEF ActOnVerdict
  <2>5. CASE standing' = standing
    BY <1>1, <2>2, <2>5
  <2>6. CASE ActRejected(c) /\ standing' # standing
    <3>1. standing' = [standing EXCEPT ![c] = "rejected"] /\ Rejected(gate[c])
      BY <2>6 DEF ActRejected
    <3>2. Genuine(c, gate[c])
      BY <2>2, QuietGate
    <3>3. PICK r \in Range(gate[c]) : r.verdict = "REJECT"
      BY <3>1 DEF Rejected, Range
    <3>4. Ballot(r) \in Votes[c] /\ Ballot(r).verdict = "REJECT"
      BY <2>2, <3>2, <3>3, BallotFacts DEF Genuine
    <3>5. Promise!Become(c, "rejected")
      BY <2>3, <3>1 DEF Promise!Become
    <3> QED BY <2>2, <3>4, <3>5 DEF Promise!Next
  <2>7. CASE Promote(c) \/ Withhold(c)
    <3>1. Approved(c)
      BY <2>7 DEF Promote, Withhold
    <3>2. Promise!Quorum(c)
      BY <2>1, <2>2, <3>1, ApprovedQuorum
    <3>3. \E s \in {"promoted", "withheld"} : standing' = [standing EXCEPT ![c] = s]
      BY <2>7 DEF Promote, Withhold
    <3>4. \E s \in {"promoted", "withheld"} : Promise!Become(c, s)
      BY <2>3, <3>3 DEF Promise!Become
    <3> QED BY <2>2, <3>2, <3>4 DEF Promise!Next
  <2>8. CASE ActUnresolved(c) \/ ActAgain(c)
    BY <2>5, <2>8 DEF ActUnresolved, ActAgain
  <2> QED BY <2>4, <2>5, <2>6, <2>7, <2>8
<1>4. CASE Boot
  BY <1>1, <1>4 DEF Boot, NewEpoch, ResumeEpoch, DiscardCheckpoint, ImportCheckpoint, ImportDone,
                    ImportFails, SealUnusable, StartWork, ledgers
<1>5. CASE BootstrapFails \/ Drain \/ SealEpoch \/ Crash \/ ChangeAuthority \/ EditSources
  BY <1>1, <1>5 DEF BootstrapFails, SealUnusable, Drain, SealEpoch, Crash, ChangeAuthority,
                    EditSources, ledgers
<1>6. CASE \E c \in Candidates : ProcessCandidate(c) \/ RequestAudit(c)
  BY <1>1, <1>6 DEF ProcessCandidate, RequestAudit
<1>7. CASE \E t \in queue : LaunchAudit(t) \/ DriftAtLaunch(t)
  BY <1>1, <1>7 DEF LaunchAudit, DriftAtLaunch, ledgers
<1>8. CASE \E j \in active : Answer(j)
  BY <1>1, <1>8 DEF Answer, AcceptVerdict, InvalidVerdict, AuditFails, LoseProvider, DriftAtCompletion
<1>9. CASE RecordVerdict
  BY <1>1, <1>9 DEF RecordVerdict, ledgers
<1>10. CASE UNCHANGED vars
  BY <1>1, <1>10 DEF vars, ledgers
<1> QED BY <1>2, <1>3, <1>4, <1>5, <1>6, <1>7, <1>8, <1>9, <1>10 DEF Next, FollowUp

\* Every promotion rests on the votes of as many different auditors as the
\* candidate requires, every rejection on one, and no assignment votes twice:
\* the pipeline with its leases, retries, crashes, stale passes and imports
\* implements the votes of IndependentAudits.
THEOREM Independent == Spec => IndependentVotes
<1>1. Init => Promise!Init
  <2> SUFFICES ASSUME Init PROVE Promise!Init
    OBVIOUS
  <2>1. \A c \in Candidates : reports[c] = <<>>
    BY DEF Init, NoRecord
  <2>2. \A c \in Candidates : Range(reports[c]) = {}
    BY <2>1, DistinctRange
  <2>3. Votes = [c \in Candidates |-> {}]
    BY <2>2 DEF Votes
  <2> QED BY <2>3 DEF Init, Promise!Init
<1> QED BY <1>1, Invariance, PromiseStep, PTL DEF Spec, IndependentVotes, Promise!Spec

===============================================================================
