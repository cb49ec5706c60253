-------------------------- MODULE CampaignEpochProofs --------------------------
(***************************************************************************)
(* Proofs about CampaignEpoch, for any time budget and any number of       *)
(* epochs, crashes and failed writes: the ledger of a campaign is sound,   *)
(* no checkpoint forgets research, and a seal is final.                    *)
(*                                                                         *)
(* The inductive invariant adds to the properties where the running        *)
(* attempt stands (AttemptKnows): which control points imply that the      *)
(* epoch is open, and what a closing attempt may still tell; that the open *)
(* epoch is the one of the last record (LedgerAlternates); and how the     *)
(* frontier in memory, in the events and in the checkpoints correspond,    *)
(* which are what a checkpoint is built from (FrontierKnown).              *)
(***************************************************************************)
EXTENDS CampaignEpoch, NaturalsInduction, WellFoundedInduction, TLAPS

Working ==
    {"activate", "preflight", "import", "snapshot", "backend", "work", "finish", "seal"}
Closing == {"record", "artifacts", "stop", "returned"}

\* The frontier S holds all that epoch e was to take over.
Covers(e, S) ==
    runs[e].prev # 0 /\ ~runs[e].discarded => runs[runs[e].prev].saved \subseteq S

LedgerAlternates ==
    /\ Sealed \subseteq Started /\ Started \subseteq DOMAIN runs
    /\ OneOpenEpoch
    /\ Open = IF Len(records) % 2 = 1 THEN {records[Len(records)].epoch} ELSE {}

AttemptKnows ==
    /\ at # "none" => job.epoch \in DOMAIN runs
    /\ at = "create" => ~job.resume
    /\ at \in {"create", "claim"} /\ ~job.resume =>
         job.epoch \notin Started /\ job.recovered /\ Elapsed + This.hours <= CampaignHours
    /\ at \in Working => job.epoch \in Open /\ job.recovered
    /\ at \in {"finish", "seal"} => job.elapsed <= This.hours
    /\ at = "manifest" => /\ Open = {} /\ records # <<>>
                          /\ records[Len(records)].epoch = job.epoch
                          /\ records[Len(records)].status = job.status
    /\ at \in Closing =>
         /\ job.status # "PAUSED" \/ ~job.failed => SealedAs(job.epoch, job.status)
         /\ ~job.failed => status = job.status

FrontierKnown ==
    /\ \A e \in DOMAIN runs :
         /\ runs[e].prev # 0 => runs[e].prev \in Sealed
         /\ runs[e].imported => Covers(e, runs[e].known)
         /\ runs[e].prev = 0 => runs[e].imported
    /\ at # "none" =>
         /\ job.recovered => job.held = This.known
         /\ job.imported => Covers(job.epoch, job.held)
         /\ This.prev = 0 => job.imported
    /\ at = "import" => ~job.imported
    /\ at = "seal" /\ job.booted => This.saved = job.held

IInv == CampaignSound /\ NothingForgotten /\ LedgerAlternates /\ AttemptKnows /\ FrontierKnown

(***************************************************************************)
(* What a recursive sum over a ledger is.  The prover is told nothing of a *)
(* recursive function but the equation it was chosen for, so that its      *)
(* existence has to be shown first.                                        *)
(***************************************************************************)
\* A set of numbers that is not empty has a least member.
LEMMA LeastNumber ==
    ASSUME NEW S \in SUBSET Nat, S # {}
    PROVE  \E m \in S : \A y \in S : m <= y
<1>1. PICK m \in S : \A y \in S : ~(<<y, m>> \in OpToRel(<, Nat))
  BY NatLessThanWellFounded, WFMin
<1>2. \A y \in S : ~(y < m)
  BY <1>1, Zenon DEF OpToRel
<1>. QED
  BY <1>2

\* h holds the sums of g up to the n-th.
SumsUpTo(h, g, n) ==
    /\ h = [k \in 0..n |-> h[k]]
    /\ \A k \in 0..n : h[k] = IF k = 0 THEN 0 ELSE h[k - 1] + g[k]

LEMMA PartialSums ==
    ASSUME NEW g, NEW n \in Nat
    PROVE  \E h : SumsUpTo(h, g, n)
<1> DEFINE Missing == {k \in Nat : ~\E h : SumsUpTo(h, g, k)}
<1>1. SUFFICES Missing = {}
  OBVIOUS
<1>2. SUFFICES ASSUME Missing # {}
               PROVE  FALSE
  OBVIOUS
<1>3. PICK m \in Missing : \A y \in Missing : m <= y
  BY <1>2, LeastNumber
<1>4. CASE m = 0
  <2> DEFINE h == [k \in 0..0 |-> 0]
  <2>1. SumsUpTo(h, g, 0)
    BY DEF SumsUpTo
  <2>. QED BY <1>4, <2>1
<1>5. CASE m # 0
  <2>1. m \in Nat /\ m - 1 \in Nat /\ m - 1 \notin Missing
    BY <1>3, <1>5
  <2>2. PICK h : SumsUpTo(h, g, m - 1)
    BY <2>1
  <2> DEFINE f == [k \in 0..m |-> IF k = m THEN h[m - 1] + g[m] ELSE h[k]]
  <2>3. \A k \in 0..m : f[k] = IF k = 0 THEN 0 ELSE f[k - 1] + g[k]
    <3> SUFFICES ASSUME NEW k \in 0..m
                 PROVE  f[k] = IF k = 0 THEN 0 ELSE f[k - 1] + g[k]
      OBVIOUS
    <3>1. CASE k = m
      BY <1>5, <2>1, <3>1
    <3>2. CASE k # m
      <4>1. k \in 0..(m - 1)
        BY <2>1, <3>2
      <4>2. h[k] = IF k = 0 THEN 0 ELSE h[k - 1] + g[k]
        BY <2>2, <4>1 DEF SumsUpTo
      <4>3. f[k] = h[k]
        BY <3>2
      <4>4. k # 0 => f[k - 1] = h[k - 1]
        BY <2>1, <4>1
      <4>. QED BY <4>2, <4>3, <4>4
    <3>. QED BY <3>1, <3>2
  <2>4. f = [k \in 0..m |-> f[k]]
    OBVIOUS
  <2> HIDE DEF f
  <2>5. SumsUpTo(f, g, m)
    BY <2>3, <2>4 DEF SumsUpTo
  <2>. QED BY <2>5
<1>. QED BY <1>4, <1>5

LEMMA SumsAgree ==
    ASSUME NEW g, NEW m \in Nat, NEW n \in Nat, NEW h, NEW f,
           SumsUpTo(h, g, m), SumsUpTo(f, g, n), NEW k \in Nat, k <= m, k <= n
    PROVE  h[k] = f[k]
<1> DEFINE Apart == {i \in Nat : i <= m /\ i <= n /\ h[i] # f[i]}
<1>1. SUFFICES ASSUME Apart # {}
               PROVE  FALSE
  OBVIOUS
<1>2. PICK i \in Apart : \A y \in Apart : i <= y
  BY <1>1, LeastNumber
<1>3. i \in 0..m /\ i \in 0..n /\ i \in Nat
  BY <1>2
<1>4. i # 0 => h[i - 1] = f[i - 1]
  BY <1>2, <1>3
<1>5. h[i] = IF i = 0 THEN 0 ELSE h[i - 1] + g[i]
  BY <1>3 DEF SumsUpTo
<1>6. f[i] = IF i = 0 THEN 0 ELSE f[i - 1] + g[i]
  BY <1>3 DEF SumsUpTo
<1>. QED BY <1>2, <1>4, <1>5, <1>6

LEMMA SumExists ==
    ASSUME NEW g
    PROVE  \E f : f = [n \in Nat |-> IF n = 0 THEN 0 ELSE f[n - 1] + g[n]]
<1> DEFINE H(n) == CHOOSE h : SumsUpTo(h, g, n)
           f == [n \in Nat |-> H(n)[n]]
<1>1. \A n \in Nat : SumsUpTo(H(n), g, n)
  BY PartialSums
<1>2. \A n \in Nat : f[n] = IF n = 0 THEN 0 ELSE f[n - 1] + g[n]
  <2> SUFFICES ASSUME NEW n \in Nat
               PROVE  f[n] = IF n = 0 THEN 0 ELSE f[n - 1] + g[n]
    OBVIOUS
  <2>1. SumsUpTo(H(n), g, n) /\ f[n] = H(n)[n]
    BY <1>1
  <2>2. n \in 0..n
    OBVIOUS
  <2>3. f[n] = IF n = 0 THEN 0 ELSE H(n)[n - 1] + g[n]
    BY <2>1, <2>2 DEF SumsUpTo
  <2>4. CASE n # 0
    <3>1. n - 1 \in Nat /\ n - 1 <= n - 1 /\ n - 1 <= n
      BY <2>4
    <3>2. SumsUpTo(H(n - 1), g, n - 1) /\ f[n - 1] = H(n - 1)[n - 1]
      BY <1>1, <3>1
    <3> HIDE DEF H
    <3>3. H(n)[n - 1] = H(n - 1)[n - 1]
      BY <2>1, <3>1, <3>2, SumsAgree
    <3>. QED BY <2>3, <3>2, <3>3
  <2>5. CASE n = 0
    BY <2>3, <2>5
  <2>. QED BY <2>4, <2>5
<1>3. f = [n \in Nat |-> f[n]]
  OBVIOUS
<1> HIDE DEF f
<1>4. f = [n \in Nat |-> IF n = 0 THEN 0 ELSE f[n - 1] + g[n]]
  BY <1>2, <1>3
<1>. QED BY <1>4

\* The hours a ledger r tells of, by its first n records.
Spent(r) ==
    CHOOSE f : f = [n \in Nat |->
        IF n = 0 THEN 0
        ELSE f[n - 1] + (IF r[n].kind = "EPOCH_SEALED" THEN r[n].elapsed ELSE 0)]

LEMMA SpentStep ==
    ASSUME NEW r, NEW n \in Nat
    PROVE  Spent(r)[n] =
             IF n = 0 THEN 0
             ELSE Spent(r)[n - 1] + (IF r[n].kind = "EPOCH_SEALED" THEN r[n].elapsed ELSE 0)
<1> DEFINE g == [k \in Nat |-> IF r[k].kind = "EPOCH_SEALED" THEN r[k].elapsed ELSE 0]
           Body(f) == [k \in Nat |->
                        IF k = 0 THEN 0
                        ELSE f[k - 1] + (IF r[k].kind = "EPOCH_SEALED" THEN r[k].elapsed ELSE 0)]
<1>1. PICK f : f = [k \in Nat |-> IF k = 0 THEN 0 ELSE f[k - 1] + g[k]]
  BY SumExists
<1>2. f = Body(f)
  BY <1>1
<1>3. Spent(r) = Body(Spent(r))
  BY <1>2 DEF Spent
<1>. QED BY <1>3

LEMMA SpentNat ==
    ASSUME NEW r \in Seq(Records), NEW n \in 0..Len(r)
    PROVE  Spent(r)[n] \in Nat
<1> DEFINE Bad == {k \in Nat : k <= Len(r) /\ Spent(r)[k] \notin Nat}
<1>1. SUFFICES ASSUME Bad # {}
               PROVE  FALSE
  OBVIOUS
<1>2. PICK k \in Bad : \A y \in Bad : k <= y
  BY <1>1, LeastNumber
<1>3. k \in Nat /\ k # 0 /\ Spent(r)[k] =
        Spent(r)[k - 1] + (IF r[k].kind = "EPOCH_SEALED" THEN r[k].elapsed ELSE 0)
  BY <1>2, SpentStep
<1>4. Spent(r)[k - 1] \in Nat
  BY <1>2, <1>3
<1>5. r[k] \in Records
  BY <1>2, <1>3
<1>6. r[k].kind = "EPOCH_SEALED" => r[k].elapsed \in Nat
  BY <1>5 DEF Records
<1>. QED BY <1>2, <1>3, <1>4, <1>6

\* Two ledgers that begin alike tell of the same hours.
LEMMA SpentPrefix ==
    ASSUME NEW r, NEW s, NEW n \in Nat, \A k \in 1..n : r[k] = s[k]
    PROVE  Spent(r)[n] = Spent(s)[n]
<1> DEFINE Bad == {k \in Nat : k <= n /\ Spent(r)[k] # Spent(s)[k]}
<1>1. SUFFICES ASSUME Bad # {}
               PROVE  FALSE
  OBVIOUS
<1>2. PICK k \in Bad : \A y \in Bad : k <= y
  BY <1>1, LeastNumber
<1>3. k # 0
  BY <1>2, SpentStep
<1>4. k - 1 \in Nat /\ Spent(r)[k - 1] = Spent(s)[k - 1]
  BY <1>2, <1>3
<1>5. r[k] = s[k]
  BY <1>2, <1>3
<1>. QED BY <1>2, <1>3, <1>4, <1>5, SpentStep

LEMMA SpentAppend ==
    ASSUME NEW r \in Seq(Records), NEW x \in Records
    PROVE  Spent(Append(r, x))[Len(r) + 1] =
             Spent(r)[Len(r)] + (IF x.kind = "EPOCH_SEALED" THEN x.elapsed ELSE 0)
<1> DEFINE s == Append(r, x)
<1>1. \A k \in 1..Len(r) : s[k] = r[k]
  OBVIOUS
<1>2. s[Len(r) + 1] = x /\ Len(r) + 1 \in Nat /\ Len(r) \in Nat
  OBVIOUS
<1> HIDE DEF s
<1>3. Spent(s)[Len(r)] = Spent(r)[Len(r)]
  BY <1>1, <1>2, SpentPrefix
<1>4. Spent(s)[Len(r) + 1] =
        Spent(s)[Len(r)] + (IF s[Len(r) + 1].kind = "EPOCH_SEALED"
                            THEN s[Len(r) + 1].elapsed ELSE 0)
  BY <1>2, SpentStep
<1>5. Spent(s)[Len(r) + 1] = Spent(r)[Len(r)] + (IF x.kind = "EPOCH_SEALED" THEN x.elapsed ELSE 0)
  BY <1>2, <1>3, <1>4
<1>. QED BY <1>5 DEF s

LEMMA SpentIs ==
    SpentBy = Spent(records) /\ SpentBy' = Spent(records')
BY DEF SpentBy, Spent

(***************************************************************************)
(* The operators of the model.                                             *)
(***************************************************************************)
LEMMA MinOfTwo ==
    ASSUME NEW a \in Nat, NEW b \in Nat
    PROVE  Min({a, b}) \in Nat /\ Min({a, b}) <= a /\ Min({a, b}) <= b
<1>1. \E x \in {a, b} : \A y \in {a, b} : x <= y
  BY a <= b \/ b <= a
<1>. QED
  BY <1>1 DEF Min

LEMMA RecordFields ==
    ASSUME NEW x \in Records
    PROVE  /\ x.epoch \in Nat
           /\ x.kind = "EPOCH_STARTED" \/ x.kind = "EPOCH_SEALED"
           /\ x.kind = "EPOCH_SEALED" =>
                /\ x.elapsed \in Nat /\ x.status \in Statuses
                /\ x.begun \in BOOLEAN /\ x.usable \in BOOLEAN
BY DEF Records

LEMMA StartFields ==
    ASSUME NEW e \in Nat, NEW p \in Nat
    PROVE  /\ StartRecord(e, p) \in Records
           /\ StartRecord(e, p).kind = "EPOCH_STARTED" /\ StartRecord(e, p).epoch = e
BY DEF StartRecord, Records

LEMMA SealFields ==
    ASSUME NEW e \in Nat, NEW h \in Nat, NEW s \in Statuses, NEW r, NEW u \in BOOLEAN
    PROVE  /\ SealRecord(e, h, s, r, u) \in Records
           /\ SealRecord(e, h, s, r, u).kind = "EPOCH_SEALED"
           /\ SealRecord(e, h, s, r, u).epoch = e /\ SealRecord(e, h, s, r, u).elapsed = h
           /\ SealRecord(e, h, s, r, u).status = s /\ SealRecord(e, h, s, r, u).usable = u
BY DEF SealRecord, Records

LEMMA ElapsedNat ==
    ASSUME TypeOK
    PROVE  Elapsed \in Nat
<1>1. records \in Seq(Records) /\ Len(records) \in 0..Len(records)
  BY DEF TypeOK
<1>. QED BY <1>1, SpentNat, SpentIs DEF Elapsed

LEMMA ContinuableSealed ==
    Continuable \subseteq Sealed
BY DEF Continuable, Sealed

\* The epochs of the ledger are numbers, so that the newest one that may be
\* continued is one that may be continued.
LEMMA LatestIsContinuable ==
    ASSUME TypeOK, LedgerAlternates, Continuable # {}
    PROVE  LatestContinuable \in Continuable
<1>0. Len(runs) \in Nat /\ DOMAIN runs = 1..Len(runs)
  BY DEF TypeOK
<1>1. Continuable \subseteq 1..Len(runs) /\ Len(runs) \in Nat
  BY <1>0, ContinuableSealed DEF LedgerAlternates
<1> DEFINE Distance == {n \in Nat : \E e \in Continuable : e + n = Len(runs)}
<1>2. Distance # {}
  <2>1. PICK e \in Continuable : TRUE
    OBVIOUS
  <2>2. Len(runs) - e \in Distance
    BY <1>1, <2>1
  <2>. QED BY <2>2
<1>3. PICK n \in Distance : \A y \in Distance : n <= y
  BY <1>2, LeastNumber
<1>4. PICK e \in Continuable : e + n = Len(runs)
  BY <1>3
<1>5. \A d \in Continuable : e >= d
  <2> SUFFICES ASSUME NEW d \in Continuable
               PROVE  e >= d
    OBVIOUS
  <2>1. d \in Nat /\ e \in Nat /\ n \in Nat /\ d <= Len(runs)
    BY <1>1, <1>3, <1>4
  <2>2. Len(runs) - d \in Distance
    BY <1>1, <2>1
  <2>3. n <= Len(runs) - d
    BY <1>3, <2>2
  <2>. QED BY <1>1, <1>4, <2>1, <2>3
<1>6. \E x \in Continuable : \A d \in Continuable : x >= d
  BY <1>4, <1>5
<1>. QED
  BY <1>6 DEF LatestContinuable, Max

\* What stays when no record is written.
LEMMA LedgerSame ==
    ASSUME UNCHANGED records
    PROVE  /\ Seals' = Seals /\ Started' = Started /\ Sealed' = Sealed /\ Open' = Open
           /\ Elapsed' = Elapsed /\ Continuable' = Continuable
           /\ OneOpenEpoch' <=> OneOpenEpoch
           /\ \A e, s : SealedAs(e, s)' <=> SealedAs(e, s)
<1>1. Seals' = Seals
  BY DEF Seals
<1>2. Started' = Started /\ Sealed' = Sealed
  BY <1>1 DEF Started, Sealed
<1>3. Open' = Open
  BY <1>2 DEF Open
<1>4. Elapsed' = Elapsed
  BY SpentIs DEF Elapsed
<1>5. Continuable' = Continuable
  BY <1>1 DEF Continuable
<1>6. OneOpenEpoch' <=> OneOpenEpoch
  BY DEF OneOpenEpoch
<1>7. \A e, s : SealedAs(e, s)' <=> SealedAs(e, s)
  BY <1>1 DEF SealedAs
<1>. QED BY <1>1, <1>2, <1>3, <1>4, <1>5, <1>6, <1>7

\* What a new record adds.
LEMMA RecordAdded ==
    ASSUME TypeOK, NEW x \in Records, records' = Append(records, x)
    PROVE  /\ records' \in Seq(Records) /\ Len(records') = Len(records) + 1
           /\ Len(records) \in Nat
           /\ records'[Len(records) + 1] = x
           /\ \A i \in 1..Len(records) : records'[i] = records[i]
           /\ DOMAIN records = 1..Len(records) /\ DOMAIN records' = 1..(Len(records) + 1)
           /\ Seals' = IF x.kind = "EPOCH_SEALED" THEN Seals \cup {Len(records) + 1} ELSE Seals
           /\ Elapsed' = Elapsed + (IF x.kind = "EPOCH_SEALED" THEN x.elapsed ELSE 0)
<1>1. records \in Seq(Records)
  BY DEF TypeOK
<1>2. /\ records' \in Seq(Records) /\ Len(records') = Len(records) + 1 /\ Len(records) \in Nat
      /\ records'[Len(records) + 1] = x
      /\ \A i \in 1..Len(records) : records'[i] = records[i]
      /\ DOMAIN records = 1..Len(records) /\ DOMAIN records' = 1..(Len(records) + 1)
  BY <1>1
<1>3. Seals' = IF x.kind = "EPOCH_SEALED" THEN Seals \cup {Len(records) + 1} ELSE Seals
  <2>1. Seals' = {i \in 1..(Len(records) + 1) : records'[i].kind = "EPOCH_SEALED"}
    BY <1>2 DEF Seals
  <2>2. \A i \in 1..Len(records) : i \in Seals' <=> i \in Seals
    BY <1>2, <2>1 DEF Seals
  <2>3. Len(records) + 1 \in Seals' <=> x.kind = "EPOCH_SEALED"
    BY <1>2, <2>1
  <2>4. Seals \subseteq 1..Len(records) /\ Seals' \subseteq 1..(Len(records) + 1)
    BY <1>2, <2>1 DEF Seals
  <2>5. \A i \in 1..(Len(records) + 1) : i \in 1..Len(records) \/ i = Len(records) + 1
    BY <1>2
  <2>6. \A i : i \in Seals' <=> i \in Seals \/ (i = Len(records) + 1 /\ x.kind = "EPOCH_SEALED")
    BY <2>2, <2>3, <2>4, <2>5
  <2>. QED BY <2>6
<1>4. Elapsed' = Elapsed + (IF x.kind = "EPOCH_SEALED" THEN x.elapsed ELSE 0)
  BY <1>1, <1>2, SpentAppend, SpentIs DEF Elapsed
<1>. QED BY <1>2, <1>3, <1>4

LEMMA StartAdded ==
    ASSUME TypeOK, NEW e \in Nat, NEW p \in Nat,
           records' = Append(records, StartRecord(e, p))
    PROVE  /\ Started' = Started \cup {e} /\ Sealed' = Sealed
           /\ Elapsed' = Elapsed /\ Continuable' = Continuable
           /\ \A d, s : SealedAs(d, s) => SealedAs(d, s)'
<1> DEFINE x == StartRecord(e, p)
           n == Len(records) + 1
<1>1. x \in Records /\ x.kind = "EPOCH_STARTED" /\ x.epoch = e
  BY StartFields
<1> HIDE DEF x
<1>2. records' = Append(records, x)
  BY DEF x
<1>3. /\ records'[n] = x /\ \A i \in 1..(n - 1) : records'[i] = records[i]
      /\ DOMAIN records = 1..(n - 1) /\ DOMAIN records' = 1..n /\ n - 1 \in Nat /\ n \in Nat
      /\ Seals' = Seals /\ Elapsed' = Elapsed
  BY <1>1, <1>2, RecordAdded, ElapsedNat
<1> HIDE DEF n
<1>4. Seals \subseteq 1..(n - 1)
  BY <1>3 DEF Seals
<1>5. \A i \in Seals : records'[i] = records[i]
  BY <1>3, <1>4
<1>6. Sealed' = Sealed
  BY <1>3, <1>5 DEF Sealed
<1>7. Continuable' = Continuable
  BY <1>3, <1>5 DEF Continuable
<1>8. \A d, s : SealedAs(d, s) => SealedAs(d, s)'
  BY <1>3, <1>5 DEF SealedAs
<1>9. DOMAIN records' \ Seals' = (DOMAIN records \ Seals) \cup {n}
  <2>1. 1..n = 1..(n - 1) \cup {n} /\ n \notin 1..(n - 1)
    BY <1>3
  <2>. QED BY <1>3, <1>4, <2>1
<1>10. Started' = Started \cup {e}
  <2>1. Started' = {records'[i].epoch : i \in (DOMAIN records \ Seals) \cup {n}}
    BY <1>9 DEF Started
  <2>2. \A i \in DOMAIN records \ Seals : records'[i].epoch = records[i].epoch
    BY <1>3
  <2>3. records'[n].epoch = e
    BY <1>1, <1>3
  <2>4. Started' = {records'[i].epoch : i \in DOMAIN records \ Seals} \cup {e}
    BY <2>1, <2>3
  <2>5. {records'[i].epoch : i \in DOMAIN records \ Seals} = Started
    BY <2>2 DEF Started
  <2>. QED BY <2>4, <2>5
<1>. QED BY <1>3, <1>6, <1>7, <1>8, <1>10

LEMMA SealAdded ==
    ASSUME TypeOK, NEW e \in Nat, NEW h \in Nat, NEW s \in Statuses, NEW r, NEW u \in BOOLEAN,
           records' = Append(records, SealRecord(e, h, s, r, u))
    PROVE  /\ Started' = Started /\ Sealed' = Sealed \cup {e}
           /\ Elapsed' = Elapsed + h
           /\ Continuable' \subseteq Continuable \cup {e}
           /\ ~u => Continuable' \subseteq Continuable
           /\ \A d, t : SealedAs(d, t) => SealedAs(d, t)'
           /\ SealedAs(e, s)'
<1> DEFINE x == SealRecord(e, h, s, r, u)
           n == Len(records) + 1
<1>1. /\ x \in Records /\ x.kind = "EPOCH_SEALED" /\ x.epoch = e /\ x.elapsed = h
      /\ x.status = s /\ x.usable = u
  BY SealFields
<1> HIDE DEF x
<1>2. records' = Append(records, x)
  BY DEF x
<1>3. /\ records'[n] = x /\ \A i \in 1..(n - 1) : records'[i] = records[i]
      /\ DOMAIN records = 1..(n - 1) /\ DOMAIN records' = 1..n /\ n - 1 \in Nat /\ n \in Nat
      /\ Seals' = Seals \cup {n} /\ Elapsed' = Elapsed + h
  BY <1>1, <1>2, RecordAdded
<1> HIDE DEF n
<1>4. Seals \subseteq 1..(n - 1)
  BY <1>3 DEF Seals
<1>5. \A i \in Seals : records'[i] = records[i]
  BY <1>3, <1>4
<1>6. Sealed' = Sealed \cup {e}
  <2>1. Sealed' = {records'[i].epoch : i \in Seals} \cup {e}
    BY <1>1, <1>3 DEF Sealed
  <2>2. {records'[i].epoch : i \in Seals} = Sealed
    BY <1>5 DEF Sealed
  <2>. QED BY <2>1, <2>2
<1>7. Continuable' \subseteq Continuable \cup {e} /\ (~u => Continuable' \subseteq Continuable)
  <2> SUFFICES ASSUME NEW c \in Continuable'
               PROVE  c \in Continuable \/ (c = e /\ u)
    OBVIOUS
  <2>1. PICK i \in Seals' : records'[i].usable /\ records'[i].begun /\ c = records'[i].epoch
    BY DEF Continuable
  <2>2. CASE i = n
    BY <1>1, <1>3, <2>1, <2>2
  <2>3. CASE i \in Seals
    BY <1>5, <2>1, <2>3 DEF Continuable
  <2>. QED BY <1>3, <2>2, <2>3
<1>8. \A d, t : SealedAs(d, t) => SealedAs(d, t)'
  BY <1>3, <1>5 DEF SealedAs
<1>9. SealedAs(e, s)'
  BY <1>1, <1>3 DEF SealedAs
<1>10. DOMAIN records' \ Seals' = DOMAIN records \ Seals
  <2>1. 1..n = 1..(n - 1) \cup {n} /\ n \notin 1..(n - 1)
    BY <1>3
  <2>. QED BY <1>3, <2>1
<1>11. \A i \in DOMAIN records \ Seals : records'[i] = records[i]
  BY <1>3
<1>12. Started' = Started
  BY <1>10, <1>11 DEF Started
<1>. QED BY <1>3, <1>6, <1>7, <1>8, <1>9, <1>12

(***************************************************************************)
(* Steps that write neither the ledger nor a run directory.                *)
(***************************************************************************)
LEMMA JobFields ==
    ASSUME TypeOK
    PROVE  /\ job \in Jobs /\ job.epoch \in Nat /\ job.elapsed \in Nat
           /\ job.status \in Statuses /\ job.held \subseteq Nat
           /\ job.failed \in BOOLEAN /\ job.recovered \in BOOLEAN /\ job.imported \in BOOLEAN
           /\ job.booted \in BOOLEAN /\ job.resume \in BOOLEAN
BY DEF TypeOK, Jobs

LEMMA RunFields ==
    ASSUME TypeOK
    PROVE  /\ DOMAIN runs = 1..Len(runs) /\ Len(runs) \in Nat
           /\ \A e \in DOMAIN runs :
                /\ runs[e] \in Runs /\ runs[e].prev \in Nat /\ runs[e].hours \in Nat
                /\ runs[e].known \subseteq Nat /\ runs[e].saved \subseteq Nat
                /\ runs[e].imported \in BOOLEAN /\ runs[e].discarded \in BOOLEAN
<1>1. runs \in Seq(Runs)
  BY DEF TypeOK
<1>2. DOMAIN runs = 1..Len(runs) /\ Len(runs) \in Nat /\ \A e \in DOMAIN runs : runs[e] \in Runs
  BY <1>1
<1>. QED BY <1>2 DEF Runs

LEMMA FilesKept ==
    ASSUME IInv, UNCHANGED <<records, runs>>,
           TypeOK', StatusFromLedger', AttemptKnows', FrontierKnown'
    PROVE  IInv'
<1> USE DEF IInv, CampaignSound
<1>1. /\ Started' = Started /\ Sealed' = Sealed /\ Open' = Open
      /\ Elapsed' = Elapsed /\ Continuable' = Continuable /\ OneOpenEpoch'
      /\ \A e, s : SealedAs(e, s)' <=> SealedAs(e, s)
  BY LedgerSame
<1>2. LedgerAlternates' /\ BudgetKept'
  BY <1>1 DEF LedgerAlternates, BudgetKept
<1>3. ToldFromLedger'
  BY <1>1 DEF ToldFromLedger
<1>4. NothingForgotten'
  BY <1>1 DEF NothingForgotten
<1>. QED BY <1>1, <1>2, <1>3, <1>4

LEMMA DurableKept ==
    ASSUME IInv, UNCHANGED durable, TypeOK', AttemptKnows', FrontierKnown'
    PROVE  IInv'
<1>1. UNCHANGED <<status, records, runs>> /\ Open' = Open
  BY LedgerSame DEF durable
<1>2. StatusFromLedger'
  BY <1>1 DEF IInv, CampaignSound, StatusFromLedger
<1>. QED BY <1>1, <1>2, FilesKept

\* What is known of the run directories does not depend on the attempt.
LEMMA RunsKnown ==
    ASSUME IInv, UNCHANGED <<records, runs>>,
           at' # "none" =>
             /\ job'.recovered => job'.held = runs[job'.epoch].known
             /\ job'.imported => Covers(job.epoch, job.held)'
             /\ runs[job'.epoch].prev = 0 => job'.imported,
           at' = "import" => ~job'.imported,
           at' = "seal" /\ job'.booted => runs[job'.epoch].saved = job'.held
    PROVE  FrontierKnown'
<1>1. UNCHANGED <<records, runs>> /\ Sealed' = Sealed
  BY LedgerSame
<1>2. \A e \in DOMAIN runs :
        /\ runs[e].prev # 0 => runs[e].prev \in Sealed
        /\ runs[e].imported => Covers(e, runs[e].known)
        /\ runs[e].prev = 0 => runs[e].imported
  BY DEF IInv, FrontierKnown
<1>. QED
  BY <1>1, <1>2 DEF FrontierKnown, Covers, This

\* The job of a new attempt.
LEMMA JobOf ==
    ASSUME NEW e \in Nat, NEW b \in BOOLEAN
    PROVE  LET k == [NoJob EXCEPT !.epoch = e, !.resume = TRUE, !.imported = b]
           IN  k \in Jobs /\ k.epoch = e /\ k.resume /\ ~k.recovered /\ k.imported = b
BY DEF NoJob, Jobs, Reasons, Statuses

LEMMA FirstJobOf ==
    ASSUME NEW e \in Nat, NEW b \in BOOLEAN
    PROVE  LET k == [NoJob EXCEPT !.epoch = e, !.recovered = TRUE, !.imported = b]
           IN  /\ k \in Jobs /\ k.epoch = e /\ ~k.resume /\ k.recovered /\ k.imported = b
               /\ k.held = {}
BY DEF NoJob, Jobs, Reasons, Statuses

LEMMA Ends ==
    ASSUME IInv, EndAttempt, UNCHANGED durable, faults' \in Nat
    PROVE  IInv'
<1>1. at' = "none" /\ job' = NoJob
  BY DEF EndAttempt
<1>2. NoJob \in Jobs
  BY DEF NoJob, Jobs, Reasons, Statuses
<1>3. TypeOK'
  BY <1>1, <1>2 DEF IInv, CampaignSound, TypeOK, durable
<1>4. AttemptKnows'
  BY <1>1 DEF AttemptKnows, Working, Closing
<1>5. FrontierKnown'
  BY <1>1, RunsKnown DEF durable
<1>. QED BY <1>3, <1>4, <1>5, DurableKept

\* The attempt goes on with what it knows.
LEMMA GoesOn ==
    ASSUME IInv, UNCHANGED <<durable, job, faults>>,
           \/ at = "preflight" /\ (at' = "snapshot" \/ (at' = "import" /\ ~job.imported))
           \/ at = "backend" /\ at' = "work"
           \/ at = "record" /\ at' = "artifacts"
    PROVE  IInv'
<1> USE DEF IInv, CampaignSound
<1>1. UNCHANGED <<status, records, runs, job, faults>>
  BY DEF durable
<1>2. /\ Started' = Started /\ Open' = Open /\ Elapsed' = Elapsed
      /\ \A e, s : SealedAs(e, s)' <=> SealedAs(e, s)
  BY <1>1, LedgerSame
<1>3. TypeOK'
  BY <1>1 DEF TypeOK
<1>4. AttemptKnows'
  BY <1>1, <1>2 DEF AttemptKnows, Working, Closing, This
<1>5. FrontierKnown'
  BY <1>1, RunsKnown DEF FrontierKnown, Covers, This
<1>. QED BY <1>3, <1>4, <1>5, DurableKept

\* An attempt that is closing may only fail on top.
LEMMA Closes ==
    ASSUME IInv, UNCHANGED durable, faults' \in Nat, job' \in Jobs,
           at \in Closing, at' \in {"artifacts", "stop"},
           job'.epoch = job.epoch, job'.status = job.status, job'.held = job.held,
           job'.recovered = job.recovered, job'.imported = job.imported,
           job.failed => job'.failed
    PROVE  IInv'
<1> USE DEF IInv, CampaignSound
<1>1. UNCHANGED <<status, records, runs>>
  BY DEF durable
<1>2. \A e, s : SealedAs(e, s)' <=> SealedAs(e, s)
  BY <1>1, LedgerSame
<1>3. TypeOK'
  BY <1>1 DEF TypeOK
<1>4. AttemptKnows'
  BY <1>1, <1>2 DEF AttemptKnows, Working, Closing
<1>5. FrontierKnown'
  BY <1>1, RunsKnown DEF FrontierKnown, Covers, This, Closing
<1>. QED BY <1>3, <1>4, <1>5, DurableKept

LEMMA ResumePreserves ==
    ASSUME IInv, NEW e \in DOMAIN runs, ResumeEpoch(e)
    PROVE  IInv'
<1> USE DEF IInv, CampaignSound
<1>1. /\ UNCHANGED <<status, records, runs, faults>> /\ UNCHANGED durable
      /\ at' = "claim"
      /\ job' = [NoJob EXCEPT !.epoch = e, !.resume = TRUE, !.imported = runs[e].prev = 0]
  BY DEF ResumeEpoch, durable
<1> DEFINE b == runs[e].prev = 0
<1>2. /\ job' \in Jobs /\ job'.epoch = e /\ job'.resume /\ ~job'.recovered
      /\ job'.imported = b
  <2>1. e \in Nat /\ b \in BOOLEAN
    BY RunFields
  <2>2. job' = [NoJob EXCEPT !.epoch = e, !.resume = TRUE, !.imported = b]
    BY <1>1
  <2> HIDE DEF b
  <2>. QED BY <2>1, <2>2, JobOf
<1>3. TypeOK'
  BY <1>1, <1>2 DEF TypeOK
<1>4. AttemptKnows'
  BY <1>1, <1>2 DEF AttemptKnows, Working, Closing
<1>5. FrontierKnown'
  BY <1>1, <1>2, RunsKnown DEF Covers
<1>. QED BY <1>1, <1>3, <1>4, <1>5, DurableKept

LEMMA RecoverPreserves ==
    ASSUME IInv, RecoverEpoch
    PROVE  IInv'
<1> USE DEF IInv, CampaignSound
<1>1. /\ UNCHANGED <<status, records, runs, faults>> /\ UNCHANGED durable
      /\ at = "claim" /\ at' = "preflight" /\ Open = {job.epoch}
      /\ job' = [job EXCEPT !.held = This.known, !.imported = This.imported,
                            !.recovered = TRUE]
  BY DEF RecoverEpoch, Claimable, durable
<1>2. job.epoch \in DOMAIN runs
  BY <1>1 DEF AttemptKnows
<1>3. /\ job' \in Jobs /\ job'.epoch = job.epoch /\ job'.recovered
      /\ job'.held = runs[job.epoch].known /\ job'.imported = runs[job.epoch].imported
  BY <1>1, <1>2, JobFields, RunFields DEF Jobs, This
<1>4. Open' = Open /\ TypeOK'
  BY <1>1, <1>3, LedgerSame DEF TypeOK
<1>5. AttemptKnows'
  BY <1>1, <1>2, <1>3, <1>4 DEF AttemptKnows, Working, Closing
<1>6. /\ runs[job.epoch].imported => Covers(job.epoch, runs[job.epoch].known)
      /\ runs[job.epoch].prev = 0 => runs[job.epoch].imported
  BY <1>2 DEF FrontierKnown
<1>7. FrontierKnown'
  BY <1>1, <1>3, <1>6, RunsKnown DEF Covers
<1>. QED BY <1>1, <1>4, <1>5, <1>7, DurableKept

\* The end of the work, for whatever reason.
LEMMA FinishPreserves ==
    ASSUME IInv, NEW reason \in Reasons, NEW s \in Statuses, NEW h \in Nat,
           Finish(reason, s, h), at \in Working, h <= This.hours, faults' \in Nat
    PROVE  IInv'
<1> USE DEF IInv, CampaignSound
<1>1. /\ UNCHANGED <<status, records, runs>> /\ UNCHANGED durable /\ at' = "finish"
      /\ job' = [job EXCEPT !.reason = reason, !.status = s, !.elapsed = h,
                            !.failed = reason \in {"bootstrap failed", "failed"}]
  BY DEF Finish, durable
<1>2. /\ job' \in Jobs /\ job'.epoch = job.epoch /\ job'.held = job.held
      /\ job'.recovered = job.recovered /\ job'.imported = job.imported /\ job'.elapsed = h
  BY <1>1, JobFields, (reason \in {"bootstrap failed", "failed"}) \in BOOLEAN DEF Jobs
<1>3. TypeOK' /\ Open' = Open
  BY <1>1, <1>2, LedgerSame DEF TypeOK
<1>4. job.epoch \in DOMAIN runs /\ job.epoch \in Open /\ job.recovered
  BY DEF AttemptKnows, Working
<1>5. AttemptKnows'
  BY <1>1, <1>2, <1>3, <1>4 DEF AttemptKnows, Working, Closing, This
<1>6. FrontierKnown'
  BY <1>1, <1>2, RunsKnown DEF FrontierKnown, Covers, This, Working
<1>. QED BY <1>1, <1>3, <1>5, <1>6, DurableKept

LEMMA SealFailsPreserves ==
    ASSUME IInv, SealFails
    PROVE  IInv'
<1> USE DEF IInv, CampaignSound
<1>1. /\ UNCHANGED <<status, records, runs>> /\ UNCHANGED durable /\ at' = "record"
      /\ at \in {"finish", "seal", "manifest"} /\ faults' = faults + 1
      /\ job' = [[job EXCEPT !.failed = TRUE, !.reason = "failed"] EXCEPT !.status = "PAUSED"]
  BY DEF SealFails, Fault, Failed, durable
<1>2. /\ job' \in Jobs /\ job'.epoch = job.epoch /\ job'.held = job.held
      /\ job'.recovered = job.recovered /\ job'.imported = job.imported
      /\ job'.failed /\ job'.status = "PAUSED"
  BY <1>1, JobFields DEF Jobs, Reasons, Statuses
<1>3. TypeOK'
  BY <1>1, <1>2 DEF TypeOK
<1>4. AttemptKnows'
  BY <1>1, <1>2 DEF AttemptKnows, Working, Closing
<1>5. FrontierKnown'
  BY <1>1, <1>2, RunsKnown DEF FrontierKnown, Covers, This
<1>. QED BY <1>1, <1>3, <1>4, <1>5, DurableKept

(***************************************************************************)
(* Steps that write the manifest or the ledger.                            *)
(***************************************************************************)
LEMMA CreatePreserves ==
    ASSUME IInv, CreateCampaign
    PROVE  IInv'
<1> USE DEF IInv, CampaignSound
<1>1. /\ UNCHANGED <<records, runs, job, faults>> /\ at = "create" /\ at' = "claim"
      /\ status' = "ACTIVE" \/ status' = status
  BY DEF CreateCampaign
<1>2. Started' = Started /\ Open' = Open /\ Elapsed' = Elapsed
  BY <1>1, LedgerSame
<1>3. TypeOK'
  BY <1>1 DEF TypeOK, Statuses
<1>4. StatusFromLedger'
  BY <1>1, <1>2 DEF StatusFromLedger
<1>5. AttemptKnows'
  BY <1>1, <1>2 DEF AttemptKnows, Working, Closing, This
<1>6. FrontierKnown'
  BY <1>1, RunsKnown DEF FrontierKnown, Covers, This
<1>. QED BY <1>1, <1>3, <1>4, <1>5, <1>6, FilesKept

LEMMA ActivatePreserves ==
    ASSUME IInv, Activate
    PROVE  IInv'
<1> USE DEF IInv, CampaignSound
<1>1. /\ UNCHANGED <<records, runs, job, faults>> /\ at = "activate" /\ at' = "preflight"
      /\ status' = "ACTIVE"
  BY DEF Activate
<1>2. Open' = Open
  BY <1>1, LedgerSame
<1>3. TypeOK'
  BY <1>1 DEF TypeOK, Statuses
<1>4. StatusFromLedger'
  BY <1>1 DEF StatusFromLedger
<1>5. AttemptKnows'
  BY <1>1, <1>2 DEF AttemptKnows, Working, Closing
<1>6. FrontierKnown'
  BY <1>1, RunsKnown DEF FrontierKnown, Covers, This
<1>. QED BY <1>1, <1>3, <1>4, <1>5, <1>6, FilesKept

\* The last record of a ledger in which no epoch is open is a seal.
LEMMA LastSeal ==
    ASSUME TypeOK, LedgerAlternates, Open = {}, records # <<>>
    PROVE  Len(records) \in Seals
<1>1. records \in Seq(Records) /\ Len(records) \in Nat /\ Len(records) # 0
  BY DEF TypeOK
<1>2. Len(records) \in DOMAIN records
  BY <1>1
<1>3. Len(records) % 2 # 1
  BY DEF LedgerAlternates
<1>. QED BY <1>3, <1>2 DEF LedgerAlternates, OneOpenEpoch, Seals

LEMMA SealCampaignPreserves ==
    ASSUME IInv, SealCampaign
    PROVE  IInv'
<1> USE DEF IInv, CampaignSound
<1>1. /\ UNCHANGED <<records, runs, job, faults>> /\ at = "manifest" /\ at' = "record"
      /\ status' = job.status
  BY DEF SealCampaign
<1>2. Open' = Open /\ \A e, s : SealedAs(e, s)' <=> SealedAs(e, s)
  BY <1>1, LedgerSame
<1>3. TypeOK'
  BY <1>1, JobFields DEF TypeOK
<1>4. /\ Open = {} /\ records # <<>> /\ records[Len(records)].epoch = job.epoch
      /\ records[Len(records)].status = job.status
  BY <1>1 DEF AttemptKnows
<1>5. StatusFromLedger'
  BY <1>1, <1>2, <1>4 DEF StatusFromLedger
<1>6. SealedAs(job.epoch, job.status)
  BY <1>4, LastSeal DEF SealedAs
<1>7. AttemptKnows'
  BY <1>1, <1>2, <1>6 DEF AttemptKnows, Working, Closing
<1>8. FrontierKnown'
  BY <1>1, RunsKnown DEF FrontierKnown, Covers, This
<1>. QED BY <1>1, <1>3, <1>5, <1>7, <1>8, FilesKept

LEMMA StartPreserves ==
    ASSUME IInv, StartEpoch
    PROVE  IInv'
<1> USE DEF IInv, CampaignSound
<1> DEFINE e == job.epoch
           n == Len(records) + 1
<1>1. /\ at = "claim" /\ ~job.resume /\ UNCHANGED <<status, runs, job, faults>>
      /\ at' \in {"activate", "preflight"} /\ status \in {"ACTIVE", "PAUSED"}
      /\ Open = {} \/ e \in Started
      /\ records' = IF e \in Started THEN records
                    ELSE Append(records, StartRecord(e, This.prev))
  BY DEF StartEpoch, Claimable
<1>2. /\ e \in DOMAIN runs /\ e \notin Started /\ job.recovered
      /\ Elapsed + runs[e].hours <= CampaignHours
  BY <1>1 DEF AttemptKnows, This
<1>3. /\ e \in Nat /\ This.prev \in Nat /\ Open = {}
      /\ records' = Append(records, StartRecord(e, This.prev))
  BY <1>1, <1>2, RunFields DEF This
<1>4. /\ Started' = Started \cup {e} /\ Sealed' = Sealed /\ Elapsed' = Elapsed
      /\ Continuable' = Continuable /\ \A d, s : SealedAs(d, s) => SealedAs(d, s)'
  BY <1>3, StartAdded
<1>5. StartRecord(e, This.prev) \in Records
      /\ StartRecord(e, This.prev).kind = "EPOCH_STARTED"
      /\ StartRecord(e, This.prev).epoch = e
  BY <1>3, StartFields
<1>6. /\ records' \in Seq(Records) /\ Len(records') = n /\ n \in Nat /\ n - 1 \in Nat
      /\ Len(records) = n - 1
      /\ records'[n].kind = "EPOCH_STARTED" /\ records'[n].epoch = e
      /\ \A i \in 1..(n - 1) : records'[i] = records[i]
      /\ DOMAIN records = 1..(n - 1) /\ DOMAIN records' = 1..n
  BY <1>3, <1>5, RecordAdded
<1>7. e \notin Sealed /\ Open' = {e}
  BY <1>2, <1>3, <1>4 DEF LedgerAlternates, Open
<1> HIDE DEF n, e
<1>8. (n - 1) % 2 # 1
  BY <1>3, <1>6 DEF LedgerAlternates
<1>9. n % 2 = 1
  BY <1>6, <1>8
<1>10. TypeOK'
  BY <1>1, <1>6 DEF TypeOK
<1>11. OneOpenEpoch'
  <2> SUFFICES ASSUME NEW i \in 1..n
               PROVE  IF i % 2 = 1 THEN records'[i].kind = "EPOCH_STARTED"
                      ELSE /\ records'[i].kind = "EPOCH_SEALED"
                           /\ records'[i].epoch = records'[i - 1].epoch
    BY <1>6 DEF OneOpenEpoch
  <2>1. CASE i = n
    BY <1>6, <1>9, <2>1
  <2>2. CASE i # n
    <3>1. i \in 1..(n - 1) /\ i \in DOMAIN records /\ records'[i] = records[i]
      BY <1>6, <2>2
    <3>2. i % 2 # 1 => i - 1 \in 1..(n - 1) /\ records'[i - 1] = records[i - 1]
      BY <1>6, <3>1
    <3>. QED BY <3>1, <3>2 DEF OneOpenEpoch
  <2>. QED BY <2>1, <2>2
<1>12. LedgerAlternates'
  BY <1>1, <1>2, <1>4, <1>6, <1>7, <1>9, <1>11 DEF LedgerAlternates
<1>13. BudgetKept'
  BY <1>1, <1>2, <1>4, <1>7 DEF BudgetKept
<1>14. StatusFromLedger' /\ ToldFromLedger' /\ NothingForgotten'
  BY <1>1, <1>4 DEF StatusFromLedger, ToldFromLedger, NothingForgotten
<1>15. AttemptKnows'
  BY <1>1, <1>2, <1>7 DEF AttemptKnows, Working, Closing, e
<1>16. FrontierKnown'
  BY <1>1, <1>4 DEF FrontierKnown, Covers, This
<1>. QED BY <1>10, <1>11, <1>12, <1>13, <1>14, <1>15, <1>16

LEMMA SealPreserves ==
    ASSUME IInv, AppendSealed
    PROVE  IInv'
<1> USE DEF IInv, CampaignSound
<1> DEFINE n == Len(records) + 1
<1>0. PICK e \in Nat, h \in Nat, s \in Statuses, u \in BOOLEAN :
        /\ e = job.epoch /\ h = job.elapsed /\ s = job.status
        /\ u <=> job.booted /\ job.recovered /\ job.imported
  <2>1. (job.booted /\ job.recovered /\ job.imported) \in BOOLEAN
    OBVIOUS
  <2>. QED BY <2>1, JobFields
<1> DEFINE x == SealRecord(e, h, s, job.reason, u)
<1>1. at = "seal" /\ UNCHANGED <<status, runs, job, faults>>
  BY DEF AppendSealed
<1>2. /\ e \in DOMAIN runs /\ e \in Open /\ job.recovered
      /\ h <= runs[e].hours
  BY <1>0, <1>1 DEF AttemptKnows, This, Working
<1>3. e \notin Sealed /\ e \in Started
  BY <1>2 DEF Open
<1>4. records' = Append(records, x) /\ at' = "manifest"
  <2>1. /\ at' = "manifest"
        /\ records' = Append(records, SealRecord(job.epoch, job.elapsed, job.status, job.reason,
                                   job.booted /\ job.recovered /\ job.imported))
    BY <1>0, <1>3 DEF AppendSealed
  <2>2. (job.booted /\ job.recovered /\ job.imported) = u
    BY <1>0
  <2>. QED BY <1>0, <2>1, <2>2, Zenon
<1>6. /\ Started' = Started /\ Sealed' = Sealed \cup {e} /\ Elapsed' = Elapsed + h
      /\ Continuable' \subseteq Continuable \cup {e} /\ (~u => Continuable' \subseteq Continuable)
      /\ (\A d, t : SealedAs(d, t) => SealedAs(d, t)') /\ SealedAs(e, s)'
  BY <1>4, SealAdded
<1>7. x \in Records /\ x.kind = "EPOCH_SEALED" /\ x.epoch = e /\ x.status = s
  BY SealFields
<1> HIDE DEF x
<1>8. /\ records' \in Seq(Records) /\ Len(records') = n /\ n \in Nat /\ n - 1 \in Nat
      /\ Len(records) = n - 1 /\ records'[n] = x
      /\ \A i \in 1..(n - 1) : records'[i] = records[i]
      /\ DOMAIN records = 1..(n - 1) /\ DOMAIN records' = 1..n
  BY <1>4, <1>7, RecordAdded
<1> HIDE DEF n
<1>9. (n - 1) % 2 = 1 /\ records[n - 1].epoch = e /\ Open = {e}
  BY <1>2, <1>8 DEF LedgerAlternates
<1>10. n % 2 # 1 /\ n - 1 \in 1..(n - 1)
  BY <1>8, <1>9
<1>11. Open' = {}
  BY <1>6, <1>9 DEF Open
<1>12. TypeOK'
  BY <1>1, <1>4, <1>8 DEF TypeOK
<1>13. OneOpenEpoch'
  <2> SUFFICES ASSUME NEW i \in 1..n
               PROVE  IF i % 2 = 1 THEN records'[i].kind = "EPOCH_STARTED"
                      ELSE /\ records'[i].kind = "EPOCH_SEALED"
                           /\ records'[i].epoch = records'[i - 1].epoch
    BY <1>8 DEF OneOpenEpoch
  <2>1. CASE i = n
    BY <1>7, <1>8, <1>9, <1>10, <2>1
  <2>2. CASE i # n
    <3>1. i \in 1..(n - 1) /\ i \in DOMAIN records /\ records'[i] = records[i]
      BY <1>8, <2>2
    <3>2. i % 2 # 1 => i - 1 \in 1..(n - 1) /\ records'[i - 1] = records[i - 1]
      BY <1>8, <3>1
    <3>. QED BY <3>1, <3>2 DEF OneOpenEpoch
  <2>. QED BY <2>1, <2>2
<1>14. LedgerAlternates'
  BY <1>1, <1>3, <1>6, <1>8, <1>10, <1>11, <1>13 DEF LedgerAlternates
<1>15. BudgetKept'
  <2>1. Elapsed + runs[e].hours <= CampaignHours /\ runs[e].hours \in Nat /\ Elapsed \in Nat
    BY <1>2, RunFields, ElapsedNat DEF BudgetKept
  <2>2. CampaignHours \in Nat
    BY HoursAssumption
  <2>. QED BY <1>2, <1>6, <1>11, <2>1, <2>2 DEF BudgetKept
<1>16. StatusFromLedger'
  BY <1>1, <1>2 DEF StatusFromLedger
<1>17. ToldFromLedger'
  BY <1>1, <1>6 DEF ToldFromLedger
<1>18. NothingForgotten'
  <2> SUFFICES ASSUME NEW d \in Continuable'
               PROVE  /\ runs[d].known \subseteq runs[d].saved
                      /\ Covers(d, runs[d].saved)
    BY <1>1 DEF NothingForgotten, Covers
  <2>1. CASE d \in Continuable
    BY <2>1 DEF NothingForgotten, Covers
  <2>2. CASE d \notin Continuable
    <3>1. d = e /\ job.booted /\ job.imported
      BY <1>0, <1>6, <2>2
    <3>2. /\ runs[e].saved = job.held /\ runs[e].known = job.held
          /\ Covers(e, job.held)
      BY <1>0, <1>1, <1>2, <3>1 DEF FrontierKnown, This
    <3>. QED BY <3>1, <3>2
  <2>. QED BY <2>1, <2>2
<1>19. AttemptKnows'
  <2>1. records' # <<>> /\ records'[Len(records')].epoch = job.epoch
        /\ records'[Len(records')].status = job.status
    BY <1>0, <1>1, <1>7, <1>8
  <2>. QED BY <1>1, <1>2, <1>4, <1>11, <2>1 DEF AttemptKnows, Working, Closing
<1>20. FrontierKnown'
  BY <1>1, <1>4, <1>6 DEF FrontierKnown, Covers, This
<1>. QED BY <1>12, <1>13, <1>14, <1>15, <1>16, <1>17, <1>18, <1>19, <1>20

(***************************************************************************)
(* Steps that write a run directory.                                       *)
(***************************************************************************)
\* The run directory of an open epoch changes, but for what its manifest
\* pins and what it tells of a closed attempt.
OpenRunWritten ==
    /\ UNCHANGED <<status, records>>
    /\ job.epoch \in Open
    /\ runs' \in Seq(Runs) /\ DOMAIN runs' = DOMAIN runs
    /\ \A d \in DOMAIN runs : d # job.epoch => runs'[d] = runs[d]
    /\ runs'[job.epoch].prev = runs[job.epoch].prev
    /\ runs'[job.epoch].hours = runs[job.epoch].hours
    /\ runs'[job.epoch].told = runs[job.epoch].told

LEMMA OthersKeepRuns ==
    ASSUME IInv, OpenRunWritten
    PROVE  /\ Sealed' = Sealed /\ Started' = Started /\ Open' = Open /\ Elapsed' = Elapsed
           /\ OneOpenEpoch' /\ LedgerAlternates' /\ BudgetKept' /\ StatusFromLedger'
           /\ ToldFromLedger' /\ NothingForgotten'
           /\ job.epoch \notin Sealed /\ job.epoch \in DOMAIN runs
           /\ \A d \in DOMAIN runs : runs'[d].prev = runs[d].prev
                                  /\ runs'[d].hours = runs[d].hours
           /\ \A d \in Sealed : runs'[d] = runs[d]
<1> USE DEF IInv, CampaignSound, OpenRunWritten
<1>1. /\ Sealed' = Sealed /\ Started' = Started /\ Open' = Open /\ Elapsed' = Elapsed
      /\ Continuable' = Continuable /\ OneOpenEpoch'
      /\ \A e, s : SealedAs(e, s)' <=> SealedAs(e, s)
  BY LedgerSame
<1>2. /\ job.epoch \notin Sealed /\ job.epoch \in DOMAIN runs
      /\ Started \subseteq DOMAIN runs /\ Sealed \subseteq Started /\ Open \subseteq Started
  BY DEF Open, LedgerAlternates
<1>3. \A d \in DOMAIN runs : /\ runs'[d].prev = runs[d].prev
                             /\ runs'[d].hours = runs[d].hours
                             /\ runs'[d].told = runs[d].told
  OBVIOUS
<1>4. \A d \in Sealed : runs'[d] = runs[d]
  BY <1>2
<1>5. LedgerAlternates'
  BY <1>1 DEF LedgerAlternates
<1>6. BudgetKept'
  BY <1>1, <1>2, <1>3 DEF BudgetKept
<1>7. StatusFromLedger'
  BY <1>1 DEF StatusFromLedger
<1>8. ToldFromLedger'
  BY <1>1, <1>3 DEF ToldFromLedger
<1>9. NothingForgotten'
  <2> SUFFICES ASSUME NEW e \in Continuable
               PROVE  /\ runs'[e].known \subseteq runs'[e].saved
                      /\ runs'[e].prev # 0 /\ ~runs'[e].discarded =>
                           runs'[runs'[e].prev].saved \subseteq runs'[e].saved
    BY <1>1 DEF NothingForgotten
  <2>1. e \in Sealed /\ e \in DOMAIN runs
    BY <1>2, ContinuableSealed
  <2>2. runs'[e] = runs[e] /\ (runs[e].prev # 0 => runs'[runs[e].prev] = runs[runs[e].prev])
    BY <1>4, <2>1 DEF FrontierKnown
  <2>. QED BY <2>2 DEF NothingForgotten
<1>. QED BY <1>1, <1>2, <1>3, <1>4, <1>5, <1>6, <1>7, <1>8, <1>9

\* What is known of the frontiers, when an open epoch writes its own.
LEMMA FrontierWritten ==
    ASSUME IInv, OpenRunWritten, UNCHANGED faults, at \in Working, at' \in Working,
           at' # "import" \/ (at = "import" /\ ~job'.imported), at' # "finish",
           job' \in Jobs, job'.epoch = job.epoch, job'.recovered = job.recovered,
           at' # "seal" \/ (job'.elapsed <= runs[job.epoch].hours),
           job.imported => job'.imported,
           job'.held = runs'[job.epoch].known, runs[job.epoch].known \subseteq runs'[job.epoch].known,
           runs[job.epoch].imported => runs'[job.epoch].imported,
           runs[job.epoch].discarded => runs'[job.epoch].discarded,
           runs'[job.epoch].imported \/ job'.imported =>
             \/ runs[job.epoch].imported \/ job.imported
             \/ runs'[job.epoch].discarded
             \/ runs[runs[job.epoch].prev].saved \subseteq job'.held,
           at' = "seal" /\ job'.booted => runs'[job.epoch].saved = job'.held
    PROVE  IInv'
<1> USE DEF IInv, CampaignSound
<1>1. /\ Sealed' = Sealed /\ Started' = Started /\ Open' = Open /\ Elapsed' = Elapsed
      /\ job.epoch \notin Sealed /\ job.epoch \in DOMAIN runs
      /\ \A d \in DOMAIN runs : runs'[d].prev = runs[d].prev /\ runs'[d].hours = runs[d].hours
      /\ \A d \in Sealed : runs'[d] = runs[d]
      /\ OneOpenEpoch' /\ LedgerAlternates' /\ BudgetKept' /\ StatusFromLedger'
      /\ ToldFromLedger' /\ NothingForgotten'
  BY OthersKeepRuns
<1>2. UNCHANGED <<status, records>> /\ DOMAIN runs' = DOMAIN runs /\ runs' \in Seq(Runs)
      /\ \A d \in DOMAIN runs : d # job.epoch => runs'[d] = runs[d]
  BY DEF OpenRunWritten
<1>3. TypeOK'
  BY <1>2 DEF TypeOK, Working
<1>4. job.recovered /\ job.epoch \in Open
  BY DEF AttemptKnows
<1>5. AttemptKnows'
  BY <1>1, <1>2, <1>4 DEF AttemptKnows, Working, Closing, This
<1>6. /\ job.held = runs[job.epoch].known
      /\ job.imported => Covers(job.epoch, job.held)
      /\ runs[job.epoch].imported => Covers(job.epoch, runs[job.epoch].known)
      /\ runs[job.epoch].prev = 0 => job.imported /\ runs[job.epoch].imported
      /\ runs[job.epoch].prev # 0 => runs[job.epoch].prev \in Sealed
  BY <1>1, <1>4 DEF FrontierKnown, This, Working
<1>7. runs'[job.epoch].imported \/ job'.imported =>
        (runs'[job.epoch].prev # 0 /\ ~runs'[job.epoch].discarded =>
           runs'[runs'[job.epoch].prev].saved \subseteq job'.held)
  <2> SUFFICES ASSUME runs'[job.epoch].imported \/ job'.imported,
                      runs[job.epoch].prev # 0, ~runs'[job.epoch].discarded
               PROVE  runs[runs[job.epoch].prev].saved \subseteq job'.held
    BY <1>1, <1>6
  <2>1. CASE runs[job.epoch].imported \/ job.imported
    BY <1>6, <2>1 DEF Covers
  <2>2. CASE runs[runs[job.epoch].prev].saved \subseteq job'.held
    BY <2>2
  <2>. QED BY <2>1, <2>2
<1>8. \A d \in DOMAIN runs :
        /\ runs'[d].prev # 0 => runs'[d].prev \in Sealed
        /\ runs'[d].imported => (runs'[d].prev # 0 /\ ~runs'[d].discarded =>
             runs'[runs'[d].prev].saved \subseteq runs'[d].known)
        /\ runs'[d].prev = 0 => runs'[d].imported
  <2> SUFFICES ASSUME NEW d \in DOMAIN runs
               PROVE  /\ runs'[d].prev # 0 => runs'[d].prev \in Sealed
                      /\ runs'[d].imported => (runs'[d].prev # 0 /\ ~runs'[d].discarded =>
                           runs'[runs'[d].prev].saved \subseteq runs'[d].known)
                      /\ runs'[d].prev = 0 => runs'[d].imported
    OBVIOUS
  <2>1. CASE d = job.epoch
    BY <1>1, <1>6, <1>7, <2>1
  <2>2. CASE d # job.epoch
    <3>1. runs'[d] = runs[d] /\ (runs[d].prev # 0 => runs[d].prev \in Sealed)
      BY <1>2, <2>2 DEF FrontierKnown
    <3>2. runs[d].prev # 0 => runs'[runs[d].prev] = runs[runs[d].prev]
      BY <1>1, <3>1
    <3>. QED BY <3>1, <3>2 DEF FrontierKnown, Covers
  <2>. QED BY <2>1, <2>2
<1>9. FrontierKnown'
  BY <1>1, <1>2, <1>6, <1>7, <1>8 DEF FrontierKnown, Covers, This
<1>. QED BY <1>1, <1>3, <1>5, <1>9

LEMMA LearnPreserves ==
    ASSUME IInv, NEW S \in SUBSET Nat, Learn(S), at \in {"import", "work"},
           UNCHANGED <<status, records, at, faults>>
    PROVE  IInv'
<1>1. /\ runs' = [runs EXCEPT ![job.epoch].known = @ \cup S]
      /\ job' = [job EXCEPT !.held = @ \cup S]
  BY DEF Learn
<1>2. /\ job.epoch \in DOMAIN runs /\ job.epoch \in Open /\ at \in Working
      /\ job.held = runs[job.epoch].known
      /\ at = "import" => ~job.imported
  BY DEF IInv, AttemptKnows, FrontierKnown, Working, This
<1>3. TypeOK /\ runs \in Seq(Runs)
  BY DEF IInv, CampaignSound, TypeOK
<1>4. /\ job' \in Jobs /\ job'.epoch = job.epoch /\ job'.recovered = job.recovered
      /\ job'.held = job.held \cup S /\ job'.imported = job.imported
  BY <1>1, <1>3, JobFields DEF Jobs
<1>5. runs[job.epoch] \in Runs /\ [runs[job.epoch] EXCEPT !.known = @ \cup S] \in Runs
  BY <1>2, <1>3, RunFields DEF Runs
<1>6. runs' \in Seq(Runs) /\ DOMAIN runs' = DOMAIN runs
      /\ runs'[job.epoch] = [runs[job.epoch] EXCEPT !.known = @ \cup S]
      /\ \A d \in DOMAIN runs : d # job.epoch => runs'[d] = runs[d]
  BY <1>1, <1>2, <1>3, <1>5
<1>7. /\ runs'[job.epoch].prev = runs[job.epoch].prev
      /\ runs'[job.epoch].hours = runs[job.epoch].hours
      /\ runs'[job.epoch].told = runs[job.epoch].told
      /\ runs'[job.epoch].imported = runs[job.epoch].imported
      /\ runs'[job.epoch].discarded = runs[job.epoch].discarded
      /\ runs'[job.epoch].known = runs[job.epoch].known \cup S
  BY <1>5, <1>6 DEF Runs
<1>8. OpenRunWritten
  BY <1>2, <1>6, <1>7 DEF OpenRunWritten
<1>9. at' \in Working /\ (at' # "import" \/ (at = "import" /\ ~job'.imported))
      /\ at' # "finish" /\ at' # "seal"
  BY <1>2, <1>4 DEF Working
<1>10. /\ job'.held = runs'[job.epoch].known
       /\ runs[job.epoch].known \subseteq runs'[job.epoch].known
  BY <1>2, <1>4, <1>7
<1>. QED
  BY <1>2, <1>4, <1>7, <1>8, <1>9, <1>10, FrontierWritten

LEMMA ImportPreserves ==
    ASSUME IInv, Import
    PROVE  IInv'
<1>1. PICK S \in SUBSET runs[This.prev].saved : ImportSome(S)
  BY DEF Import
<1>2. at = "import" /\ Learn(S) /\ UNCHANGED <<status, records, at, faults>>
  BY <1>1 DEF ImportSome
<1>3. /\ job.epoch \in DOMAIN runs
      /\ This.prev # 0
  BY <1>2 DEF IInv, AttemptKnows, FrontierKnown
<1>4. This.prev \in Sealed
  BY <1>3 DEF IInv, FrontierKnown, This
<1>5. This.prev \in DOMAIN runs
  BY <1>4 DEF IInv, LedgerAlternates
<1>6. S \in SUBSET Nat
  BY <1>5, RunFields DEF IInv, CampaignSound
<1>. QED BY <1>2, <1>6, LearnPreserves

LEMMA WorkPreserves ==
    ASSUME IInv, Work
    PROVE  IInv'
<1>1. at = "work" /\ Learn({job.epoch}) /\ UNCHANGED <<status, records, at, faults>>
  BY DEF Work
<1>2. {job.epoch} \in SUBSET Nat
  BY JobFields DEF IInv, CampaignSound
<1>. QED BY <1>1, <1>2, LearnPreserves

LEMMA ImportDonePreserves ==
    ASSUME IInv, ImportDone
    PROVE  IInv'
<1>1. /\ runs' = [runs EXCEPT ![job.epoch].imported = TRUE]
      /\ job' = [job EXCEPT !.imported = TRUE]
      /\ at = "import" /\ at' = "snapshot" /\ runs[This.prev].saved \subseteq job.held
      /\ UNCHANGED <<status, records, faults>>
  BY DEF ImportDone
<1>2. /\ job.epoch \in DOMAIN runs /\ job.epoch \in Open /\ at \in Working
      /\ job.held = runs[job.epoch].known
  BY <1>1 DEF IInv, AttemptKnows, FrontierKnown, Working, This
<1>3. TypeOK /\ runs \in Seq(Runs)
  BY DEF IInv, CampaignSound, TypeOK
<1>4. /\ job' \in Jobs /\ job'.epoch = job.epoch /\ job'.recovered = job.recovered
      /\ job'.held = job.held /\ job'.imported
  BY <1>1, <1>3, JobFields DEF Jobs
<1>5. runs[job.epoch] \in Runs /\ [runs[job.epoch] EXCEPT !.imported = TRUE] \in Runs
  BY <1>2, <1>3, RunFields DEF Runs
<1>6. runs' \in Seq(Runs) /\ DOMAIN runs' = DOMAIN runs
      /\ runs'[job.epoch] = [runs[job.epoch] EXCEPT !.imported = TRUE]
      /\ \A d \in DOMAIN runs : d # job.epoch => runs'[d] = runs[d]
  BY <1>1, <1>2, <1>3, <1>5
<1>7. /\ runs'[job.epoch].prev = runs[job.epoch].prev
      /\ runs'[job.epoch].hours = runs[job.epoch].hours
      /\ runs'[job.epoch].told = runs[job.epoch].told
      /\ runs'[job.epoch].imported
      /\ runs'[job.epoch].discarded = runs[job.epoch].discarded
      /\ runs'[job.epoch].known = runs[job.epoch].known
  BY <1>5, <1>6 DEF Runs
<1>8. OpenRunWritten
  BY <1>1, <1>2, <1>6, <1>7 DEF OpenRunWritten
<1>9. at' \in Working /\ at' # "import" /\ at' # "finish" /\ at' # "seal"
  BY <1>1 DEF Working
<1>10. runs[runs[job.epoch].prev].saved \subseteq job'.held
  BY <1>1, <1>4 DEF This
<1>. QED
  BY <1>1, <1>2, <1>4, <1>7, <1>8, <1>9, <1>10, FrontierWritten

LEMMA DiscardPreserves ==
    ASSUME IInv, DiscardFrontier
    PROVE  IInv'
<1>1. /\ runs' = [runs EXCEPT ![job.epoch].discarded = TRUE]
      /\ job' = [job EXCEPT !.imported = TRUE]
      /\ at = "import" /\ at' = "snapshot"
      /\ UNCHANGED <<status, records, faults>>
  BY DEF DiscardFrontier
<1>2. /\ job.epoch \in DOMAIN runs /\ job.epoch \in Open /\ at \in Working
      /\ job.held = runs[job.epoch].known
  BY <1>1 DEF IInv, AttemptKnows, FrontierKnown, Working, This
<1>3. TypeOK /\ runs \in Seq(Runs)
  BY DEF IInv, CampaignSound, TypeOK
<1>4. /\ job' \in Jobs /\ job'.epoch = job.epoch /\ job'.recovered = job.recovered
      /\ job'.held = job.held /\ job'.imported
  BY <1>1, <1>3, JobFields DEF Jobs
<1>5. runs[job.epoch] \in Runs /\ [runs[job.epoch] EXCEPT !.discarded = TRUE] \in Runs
  BY <1>2, <1>3, RunFields DEF Runs
<1>6. runs' \in Seq(Runs) /\ DOMAIN runs' = DOMAIN runs
      /\ runs'[job.epoch] = [runs[job.epoch] EXCEPT !.discarded = TRUE]
      /\ \A d \in DOMAIN runs : d # job.epoch => runs'[d] = runs[d]
  BY <1>1, <1>2, <1>3, <1>5
<1>7. /\ runs'[job.epoch].prev = runs[job.epoch].prev
      /\ runs'[job.epoch].hours = runs[job.epoch].hours
      /\ runs'[job.epoch].told = runs[job.epoch].told
      /\ runs'[job.epoch].imported = runs[job.epoch].imported
      /\ runs'[job.epoch].discarded
      /\ runs'[job.epoch].known = runs[job.epoch].known
  BY <1>5, <1>6 DEF Runs
<1>8. OpenRunWritten
  BY <1>1, <1>2, <1>6, <1>7 DEF OpenRunWritten
<1>9. at' \in Working /\ at' # "import" /\ at' # "finish" /\ at' # "seal"
  BY <1>1 DEF Working
<1>. QED
  BY <1>1, <1>2, <1>4, <1>7, <1>8, <1>9, FrontierWritten

\* The checkpoint is written from the frontier in memory.
LEMMA SavePreserves ==
    ASSUME IInv, UNCHANGED <<status, records, faults>>,
           runs' = [runs EXCEPT ![job.epoch].saved = job.held] \/ UNCHANGED runs,
           UNCHANGED runs => ~job.booted \/ runs[job.epoch].saved = job.held,
           \/ at = "snapshot" /\ at' = "backend" /\ job' = [job EXCEPT !.booted = TRUE]
           \/ at = "finish" /\ at' = "seal" /\ UNCHANGED job
    PROVE  IInv'
<1>1. TypeOK /\ runs \in Seq(Runs) /\ job.held \subseteq Nat
  BY JobFields DEF IInv, CampaignSound, TypeOK
<1>2. /\ job.epoch \in DOMAIN runs /\ job.epoch \in Open /\ at \in Working
      /\ job.held = runs[job.epoch].known
      /\ at = "finish" => job.elapsed <= runs[job.epoch].hours
  BY DEF IInv, AttemptKnows, FrontierKnown, Working, This
<1>3. /\ job' \in Jobs /\ job'.epoch = job.epoch /\ job'.recovered = job.recovered
      /\ job'.held = job.held /\ job'.imported = job.imported
      /\ at' = "seal" => job'.elapsed = job.elapsed /\ job'.booted = job.booted
  BY <1>1, JobFields DEF Jobs
<1>4. runs[job.epoch] \in Runs /\ [runs[job.epoch] EXCEPT !.saved = job.held] \in Runs
  BY <1>1, <1>2, RunFields DEF Runs
<1>5. /\ runs' \in Seq(Runs) /\ DOMAIN runs' = DOMAIN runs
      /\ \/ runs'[job.epoch] = [runs[job.epoch] EXCEPT !.saved = job.held]
         \/ UNCHANGED runs
      /\ \A d \in DOMAIN runs : d # job.epoch => runs'[d] = runs[d]
  BY <1>1, <1>2, <1>4
<1>6. /\ runs'[job.epoch].prev = runs[job.epoch].prev
      /\ runs'[job.epoch].hours = runs[job.epoch].hours
      /\ runs'[job.epoch].told = runs[job.epoch].told
      /\ runs'[job.epoch].imported = runs[job.epoch].imported
      /\ runs'[job.epoch].discarded = runs[job.epoch].discarded
      /\ runs'[job.epoch].known = runs[job.epoch].known
      /\ runs'[job.epoch].saved = job.held \/ UNCHANGED runs
  BY <1>4, <1>5 DEF Runs
<1>7. OpenRunWritten
  BY <1>2, <1>5, <1>6 DEF OpenRunWritten
<1>8. /\ at' \in Working /\ at' # "import" /\ at' # "finish"
      /\ at' = "seal" => job'.elapsed <= runs[job.epoch].hours
  BY <1>2, <1>3 DEF Working
<1>9. at' = "seal" /\ job'.booted => runs'[job.epoch].saved = job'.held
  BY <1>3, <1>6
<1>. QED
  BY <1>2, <1>3, <1>6, <1>7, <1>8, <1>9, FrontierWritten

LEMMA SnapshotPreserves ==
    ASSUME IInv, Snapshot
    PROVE  IInv'
<1>1. /\ runs' = [runs EXCEPT ![job.epoch].saved = job.held]
      /\ at = "snapshot" /\ at' = "backend" /\ job' = [job EXCEPT !.booted = TRUE]
      /\ UNCHANGED <<status, records, faults>>
  BY DEF Snapshot
<1>2. job.epoch \in DOMAIN runs /\ runs[job.epoch] \in Runs
  BY <1>1, RunFields DEF IInv, CampaignSound, AttemptKnows
<1>3. UNCHANGED runs => runs[job.epoch].saved = job.held
  <2>1. runs'[job.epoch].saved = job.held
    BY <1>1, <1>2 DEF Runs
  <2>. QED BY <2>1
<1>. QED BY <1>1, <1>3, SavePreserves

LEMMA WriteCheckpointPreserves ==
    ASSUME IInv, WriteCheckpoint
    PROVE  IInv'
<1>1. /\ runs' = IF job.booted THEN [runs EXCEPT ![job.epoch].saved = job.held] ELSE runs
      /\ at = "finish" /\ at' = "seal" /\ UNCHANGED <<status, records, job, faults>>
  BY DEF WriteCheckpoint
<1>2. job.epoch \in DOMAIN runs /\ runs[job.epoch] \in Runs
  BY <1>1, RunFields DEF IInv, CampaignSound, AttemptKnows
<1>3. job.booted => runs'[job.epoch].saved = job.held
  BY <1>1, <1>2 DEF Runs
<1>. QED BY <1>1, <1>3, SavePreserves

\* A new run directory, for an epoch that fits into the budget.
LEMMA LaunchPreserves ==
    ASSUME IInv, NEW p \in Nat, NEW h \in Nat, Launch(p, h),
           p # 0 => p \in Sealed, Elapsed + h <= CampaignHours
    PROVE  IInv'
<1> USE DEF IInv, CampaignSound
<1> DEFINE b == p = 0
           x == [prev |-> p, hours |-> h, imported |-> b, discarded |-> FALSE, known |-> {},
                 saved |-> {}, told |-> NotTold]
           n == Len(runs) + 1
<1>1. /\ runs' = Append(runs, x) /\ at' = "create" /\ UNCHANGED <<status, records, faults>>
      /\ job' = [NoJob EXCEPT !.epoch = n, !.recovered = TRUE, !.imported = b]
  BY DEF Launch
<1>2. b \in BOOLEAN /\ (b <=> p = 0)
  OBVIOUS
<1> HIDE DEF b
<1>3. /\ x \in Runs /\ x.prev = p /\ x.hours = h /\ x.imported = b /\ x.known = {}
      /\ x.told = NotTold
  BY <1>2 DEF Runs, NotTold, Statuses
<1> HIDE DEF x
<1>4. runs \in Seq(Runs)
  BY DEF TypeOK
<1>5. /\ runs' \in Seq(Runs) /\ n \in Nat /\ DOMAIN runs' = 1..n /\ DOMAIN runs = 1..(n - 1)
      /\ runs'[n] = x /\ \A d \in 1..(n - 1) : runs'[d] = runs[d]
  BY <1>1, <1>3, <1>4
<1> HIDE DEF n
<1>6. /\ job' \in Jobs /\ job'.epoch = n /\ ~job'.resume /\ job'.recovered
      /\ job'.imported = b /\ job'.held = {}
  <2>1. job' = [NoJob EXCEPT !.epoch = n, !.recovered = TRUE, !.imported = b]
    BY <1>1
  <2>2. n \in Nat /\ b \in BOOLEAN
    BY <1>2, <1>5
  <2>3. LET k == [NoJob EXCEPT !.epoch = n, !.recovered = TRUE, !.imported = b]
        IN  /\ k \in Jobs /\ k.epoch = n /\ ~k.resume /\ k.recovered /\ k.imported = b
            /\ k.held = {}
    BY <2>2, FirstJobOf
  <2>. QED BY <2>1, <2>3
<1>7. /\ Started' = Started /\ Sealed' = Sealed /\ Open' = Open /\ Elapsed' = Elapsed
      /\ Continuable' = Continuable /\ OneOpenEpoch'
      /\ \A e, s : SealedAs(e, s)' <=> SealedAs(e, s)
  BY <1>1, LedgerSame
<1>8. /\ Started \subseteq 1..(n - 1) /\ Sealed \subseteq 1..(n - 1) /\ Open \subseteq 1..(n - 1)
      /\ n \notin Started /\ n \in 1..n
  <2>1. Sealed \subseteq Started /\ Started \subseteq 1..(n - 1)
    BY <1>5 DEF LedgerAlternates
  <2>2. n \notin 1..(n - 1) /\ n \in 1..n
    <3>1. n \in Nat /\ n # 0
      BY <1>4 DEF n
    <3>. QED BY <3>1
  <2>. QED BY <2>1, <2>2 DEF Open
<1>9. TypeOK'
  BY <1>1, <1>5, <1>6 DEF TypeOK
<1>10. LedgerAlternates'
  BY <1>1, <1>5, <1>7, <1>8 DEF LedgerAlternates
<1>11. BudgetKept'
  BY <1>5, <1>7, <1>8 DEF BudgetKept
<1>12. StatusFromLedger'
  BY <1>1, <1>7 DEF StatusFromLedger
<1>13. \A d \in 1..n : d = n \/ d \in 1..(n - 1)
  BY <1>5
<1>14. ToldFromLedger'
  BY <1>3, <1>5, <1>7, <1>13 DEF ToldFromLedger, NotTold
<1>15. \A d \in 1..(n - 1) : /\ runs[d].prev # 0 => runs[d].prev \in Sealed
                             /\ runs[d].prev # 0 => runs[d].prev \in 1..(n - 1)
  BY <1>5, <1>8 DEF FrontierKnown
<1>16. NothingForgotten'
  BY <1>5, <1>7, <1>8, <1>15, ContinuableSealed DEF NothingForgotten
<1>17. AttemptKnows'
  BY <1>1, <1>3, <1>5, <1>6, <1>7, <1>8 DEF AttemptKnows, Working, Closing, This
<1>18. FrontierKnown'
  <2>1. \A d \in 1..n :
          /\ runs'[d].prev # 0 => runs'[d].prev \in Sealed
          /\ runs'[d].imported => (runs'[d].prev # 0 /\ ~runs'[d].discarded =>
               runs'[runs'[d].prev].saved \subseteq runs'[d].known)
          /\ runs'[d].prev = 0 => runs'[d].imported
    <3> SUFFICES ASSUME NEW d \in 1..n
                 PROVE  /\ runs'[d].prev # 0 => runs'[d].prev \in Sealed
                        /\ runs'[d].imported => (runs'[d].prev # 0 /\ ~runs'[d].discarded =>
                             runs'[runs'[d].prev].saved \subseteq runs'[d].known)
                        /\ runs'[d].prev = 0 => runs'[d].imported
      OBVIOUS
    <3>1. CASE d = n
      BY <1>2, <1>3, <1>5, <3>1
    <3>2. CASE d \in 1..(n - 1)
      BY <1>5, <1>15, <3>2 DEF FrontierKnown, Covers
    <3>. QED BY <1>13, <3>1, <3>2
  <2>2. /\ runs'[job'.epoch] = x /\ x.known = {} /\ x.imported = b /\ x.prev = p
        /\ at' = "create" /\ DOMAIN runs' = 1..n /\ job'.held = {} /\ job'.imported = b
    BY <1>1, <1>3, <1>5, <1>6
  <2>3. /\ job'.held = runs'[job'.epoch].known
        /\ job'.imported => runs'[job'.epoch].prev = 0
        /\ runs'[job'.epoch].prev = 0 => job'.imported
        /\ at' # "import" /\ at' # "seal"
    BY <1>2, <2>2
  <2>4. /\ job'.recovered => job'.held = runs'[job'.epoch].known
        /\ job'.imported => (runs'[job'.epoch].prev # 0 /\ ~runs'[job'.epoch].discarded =>
             runs'[runs'[job'.epoch].prev].saved \subseteq job'.held)
        /\ runs'[job'.epoch].prev = 0 => job'.imported
        /\ at' # "import" /\ at' # "seal" /\ DOMAIN runs' = 1..n /\ Sealed' = Sealed
    BY <1>7, <2>2, <2>3
  <2>5. (\A d \in DOMAIN runs :
           /\ runs[d].prev # 0 => runs[d].prev \in Sealed
           /\ runs[d].imported => Covers(d, runs[d].known)
           /\ runs[d].prev = 0 => runs[d].imported)'
    BY <2>1, <2>4 DEF Covers
  <2>6. (/\ job.recovered => job.held = This.known
         /\ job.imported => Covers(job.epoch, job.held)
         /\ This.prev = 0 => job.imported)'
    BY <2>4 DEF Covers, This
  <2>. QED BY <2>4, <2>5, <2>6 DEF FrontierKnown
<1>. QED BY <1>7, <1>9, <1>10, <1>11, <1>12, <1>14, <1>16, <1>17, <1>18

LEMMA RunCampaignPreserves ==
    ASSUME IInv, RunCampaign
    PROVE  IInv'
<1> USE DEF IInv, CampaignSound
<1> DEFINE h == Min({EpochHours, CampaignHours})
<1>1. runs = <<>> /\ Launch(0, h)
  BY DEF RunCampaign
<1>2. h \in Nat /\ h <= CampaignHours /\ CampaignHours \in Nat
  BY MinOfTwo, HoursAssumption
<1> HIDE DEF h
<1>3. records = <<>>
  <2>1. Started = {} /\ Sealed = {}
    BY <1>1 DEF LedgerAlternates
  <2>2. DOMAIN records = {}
    BY <2>1 DEF Started, Sealed
  <2>3. records \in Seq(Records)
    BY DEF TypeOK
  <2>. QED BY <2>2, <2>3
<1>4. Elapsed = 0
  BY <1>3, SpentIs, SpentStep DEF Elapsed
<1>. QED BY <1>1, <1>2, <1>4, LaunchPreserves

LEMMA HoursFit ==
    ASSUME IInv, Remaining > 0
    PROVE  LET h == Min({EpochHours, Remaining})
           IN  h \in Nat /\ Elapsed + h <= CampaignHours
<1> USE DEF IInv, CampaignSound
<1>1. Elapsed \in Nat /\ CampaignHours \in Nat /\ EpochHours \in Nat
  BY ElapsedNat, HoursAssumption
<1>2. Remaining \in Nat /\ Remaining = CampaignHours - Elapsed
  BY <1>1 DEF Remaining
<1>3. LET h == Min({EpochHours, Remaining}) IN h \in Nat /\ h <= Remaining
  BY <1>1, <1>2, MinOfTwo
<1>. QED BY <1>1, <1>2, <1>3

\* An epoch is launched from a sealed one, or from none.
LEMMA LatestIsSealed ==
    ASSUME IInv, LatestContinuable # 0
    PROVE  LatestContinuable \in Sealed
<1>1. Continuable # {}
  BY DEF LatestContinuable
<1>. QED BY <1>1, LatestIsContinuable, ContinuableSealed DEF IInv, CampaignSound

LEMMA ContinuePreserves ==
    ASSUME IInv, ContinueCampaign
    PROVE  IInv'
<1> DEFINE h == Min({EpochHours, Remaining})
           p == LatestContinuable
<1>1. Remaining > 0 /\ Launch(p, h)
  BY DEF ContinueCampaign
<1>2. h \in Nat /\ Elapsed + h <= CampaignHours
  BY <1>1, HoursFit
<1>3. p # 0 => p \in Sealed
  BY LatestIsSealed
<1>4. p \in Nat
  BY <1>3, RunFields DEF IInv, CampaignSound, LedgerAlternates
<1> HIDE DEF h, p
<1>. QED BY <1>1, <1>2, <1>3, <1>4, LaunchPreserves

LEMMA AutoPreserves ==
    ASSUME IInv, AutoContinue
    PROVE  IInv'
<1> DEFINE h == Min({EpochHours, Remaining})
<1>1. Remaining > 0 /\ Launch(job.epoch, h) /\ LatestContinuable = job.epoch
  BY DEF AutoContinue, AutoAllowed
<1>2. h \in Nat /\ Elapsed + h <= CampaignHours
  BY <1>1, HoursFit
<1>3. job.epoch # 0 => job.epoch \in Sealed
  BY <1>1, LatestIsSealed
<1>4. job.epoch \in Nat
  BY JobFields DEF IInv, CampaignSound
<1> HIDE DEF h
<1>. QED BY <1>1, <1>2, <1>3, <1>4, LaunchPreserves

LEMMA StopPreserves ==
    ASSUME IInv, StopRun
    PROVE  IInv'
<1> USE DEF IInv, CampaignSound
<1> DEFINE t == [status |-> job.status, failed |-> job.failed]
<1>1. /\ at = "stop" /\ UNCHANGED <<status, records, faults>>
      /\ runs' = [runs EXCEPT ![job.epoch].told = t]
      /\ \/ at' = "none" /\ job' = NoJob
         \/ at' = "returned" /\ UNCHANGED job
  BY DEF StopRun, EndAttempt
<1>2. job.epoch \in DOMAIN runs /\ runs \in Seq(Runs)
      /\ (job.status # "PAUSED" \/ ~job.failed => SealedAs(job.epoch, job.status))
  BY <1>1 DEF AttemptKnows, TypeOK, Closing
<1>3. t \in [status : Statuses, failed : BOOLEAN] /\ t.status = job.status /\ t.failed = job.failed
  BY JobFields
<1>4. NoJob \in Jobs
  BY DEF NoJob, Jobs, Reasons, Statuses
<1> HIDE DEF t
<1>5. runs[job.epoch] \in Runs /\ [runs[job.epoch] EXCEPT !.told = t] \in Runs
  BY <1>2, <1>3, RunFields DEF Runs
<1>6. runs' \in Seq(Runs) /\ DOMAIN runs' = DOMAIN runs
      /\ runs'[job.epoch] = [runs[job.epoch] EXCEPT !.told = t]
      /\ \A d \in DOMAIN runs : d # job.epoch => runs'[d] = runs[d]
  BY <1>1, <1>2, <1>5
<1>7. \A d \in DOMAIN runs :
        /\ runs'[d].prev = runs[d].prev /\ runs'[d].hours = runs[d].hours
        /\ runs'[d].imported = runs[d].imported /\ runs'[d].discarded = runs[d].discarded
        /\ runs'[d].known = runs[d].known /\ runs'[d].saved = runs[d].saved
        /\ d # job.epoch => runs'[d].told = runs[d].told
  BY <1>5, <1>6 DEF Runs
<1>8. runs'[job.epoch].told = t
  BY <1>5, <1>6 DEF Runs
<1>9. /\ Started' = Started /\ Sealed' = Sealed /\ Open' = Open /\ Elapsed' = Elapsed
      /\ Continuable' = Continuable /\ OneOpenEpoch'
      /\ \A e, s : SealedAs(e, s)' <=> SealedAs(e, s)
  BY <1>1, LedgerSame
<1>10. /\ Started \subseteq DOMAIN runs /\ Sealed \subseteq DOMAIN runs /\ Open \subseteq DOMAIN runs
       /\ \A d \in DOMAIN runs : runs[d].prev # 0 => runs[d].prev \in DOMAIN runs
  BY DEF LedgerAlternates, Open, FrontierKnown
<1>11. TypeOK'
  BY <1>1, <1>4, <1>6 DEF TypeOK
<1>12. LedgerAlternates'
  BY <1>1, <1>6, <1>9 DEF LedgerAlternates
<1>13. BudgetKept'
  BY <1>7, <1>9, <1>10 DEF BudgetKept
<1>14. StatusFromLedger'
  BY <1>1, <1>9 DEF StatusFromLedger
<1>15. ToldFromLedger'
  <2> SUFFICES ASSUME NEW d \in DOMAIN runs, runs'[d].told # NotTold,
                      runs'[d].told.status # "PAUSED" \/ ~runs'[d].told.failed
               PROVE  SealedAs(d, runs'[d].told.status)
    BY <1>6, <1>9 DEF ToldFromLedger
  <2>1. CASE d = job.epoch
    BY <1>2, <1>3, <1>8, <2>1
  <2>2. CASE d # job.epoch
    BY <1>7, <2>2 DEF ToldFromLedger
  <2>. QED BY <2>1, <2>2
<1>16. NothingForgotten'
  BY <1>7, <1>9, <1>10, ContinuableSealed DEF NothingForgotten
<1>17. AttemptKnows'
  BY <1>1, <1>6, <1>9 DEF AttemptKnows, Working, Closing
<1>18. FrontierKnown'
  <2>1. \A d \in DOMAIN runs :
          /\ runs'[d].prev # 0 => runs'[d].prev \in Sealed
          /\ runs'[d].imported => (runs'[d].prev # 0 /\ ~runs'[d].discarded =>
               runs'[runs'[d].prev].saved \subseteq runs'[d].known)
          /\ runs'[d].prev = 0 => runs'[d].imported
    BY <1>7, <1>10 DEF FrontierKnown, Covers
  <2>2. at' # "none" =>
          /\ job'.recovered => job'.held = runs'[job'.epoch].known
          /\ job'.imported => (runs'[job'.epoch].prev # 0 /\ ~runs'[job'.epoch].discarded =>
               runs'[runs'[job'.epoch].prev].saved \subseteq job'.held)
          /\ runs'[job'.epoch].prev = 0 => job'.imported
    BY <1>1, <1>2, <1>7, <1>10 DEF FrontierKnown, Covers, This
  <2>3. at' # "import" /\ at' # "seal" /\ DOMAIN runs' = DOMAIN runs /\ Sealed' = Sealed
    BY <1>1, <1>6, <1>9
  <2>. QED BY <2>1, <2>2, <2>3 DEF FrontierKnown, Covers, This
<1>. QED BY <1>9, <1>11, <1>12, <1>13, <1>14, <1>15, <1>16, <1>17, <1>18

(***************************************************************************)
(* The theorems.                                                           *)
(***************************************************************************)
LEMMA InitSound == Init => IInv
<1> SUFFICES ASSUME Init
             PROVE  IInv
  OBVIOUS
<1> USE DEF Init
<1>1. /\ DOMAIN records = {} /\ DOMAIN runs = {} /\ Len(records) = 0
      /\ records \in Seq(Records) /\ runs \in Seq(Runs)
  OBVIOUS
<1>2. Seals = {} /\ Started = {} /\ Sealed = {} /\ Open = {} /\ Continuable = {}
  BY <1>1 DEF Seals, Started, Sealed, Open, Continuable
<1>3. Elapsed = 0
  BY <1>1, SpentIs, SpentStep DEF Elapsed
<1>4. TypeOK
  BY <1>1 DEF TypeOK, NoJob, Jobs, Reasons, Statuses
<1>5. OneOpenEpoch /\ LedgerAlternates
  BY <1>1, <1>2 DEF OneOpenEpoch, LedgerAlternates
<1>6. BudgetKept
  BY <1>2, <1>3, HoursAssumption DEF BudgetKept
<1>7. StatusFromLedger /\ ToldFromLedger /\ NothingForgotten
  BY <1>1, <1>2 DEF StatusFromLedger, ToldFromLedger, NothingForgotten
<1>8. AttemptKnows /\ FrontierKnown
  BY <1>1 DEF AttemptKnows, FrontierKnown, Working, Closing
<1>. QED BY <1>4, <1>5, <1>6, <1>7, <1>8 DEF IInv, CampaignSound

LEMMA HoursAreNat ==
    ASSUME IInv, at # "none", NEW h \in Hours
    PROVE  h \in Nat /\ h <= This.hours
<1>1. job.epoch \in DOMAIN runs /\ job.epoch # 0 /\ This.hours \in Nat
  BY RunFields DEF IInv, CampaignSound, AttemptKnows, This
<1>. QED BY <1>1 DEF Hours

LEMMA StepSound == IInv /\ [Next]_vars => IInv'
<1> SUFFICES ASSUME IInv, [Next]_vars
             PROVE  IInv'
  OBVIOUS
<1>0. faults \in Nat /\ job \in Jobs /\ TypeOK
  BY DEF IInv, CampaignSound, TypeOK
<1>1. CASE UNCHANGED vars
  <2>1. /\ UNCHANGED <<status, records, runs, at, job, faults>> /\ UNCHANGED durable
        /\ Started' = Started /\ Open' = Open /\ Elapsed' = Elapsed
        /\ \A e, s : SealedAs(e, s)' <=> SealedAs(e, s)
    BY <1>1, LedgerSame DEF vars, durable
  <2>2. TypeOK' /\ AttemptKnows'
    BY <2>1 DEF IInv, CampaignSound, TypeOK, AttemptKnows, This
  <2>3. FrontierKnown'
    BY <2>1, RunsKnown DEF IInv, FrontierKnown, Covers, This
  <2>. QED BY <2>1, <2>2, <2>3, DurableKept
<1>2. CASE RunCampaign \/ ContinueCampaign \/ AutoContinue
  BY <1>2, RunCampaignPreserves, ContinuePreserves, AutoPreserves
<1>3. CASE \E e \in DOMAIN runs : ResumeEpoch(e)
  BY <1>3, ResumePreserves
<1>4. CASE Proceed
  <2>1. CASE Refuse \/ EndCommand
    BY <1>0, <2>1, Ends DEF Refuse, EndCommand
  <2>2. CASE Preflight
    BY <2>2, GoesOn DEF Preflight
  <2>3. CASE StartBackend
    BY <2>3, GoesOn DEF StartBackend
  <2>4. CASE FinalizeRecord
    BY <2>4, GoesOn DEF FinalizeRecord
  <2>5. CASE TimeIsUp
    <3>1. PICK reason \in Reasons, s \in Statuses : Finish(reason, s, This.hours)
      BY <2>5 DEF TimeIsUp, Reasons, Statuses
    <3>2. at = "work" /\ UNCHANGED faults
      BY <2>5 DEF TimeIsUp
    <3>3. This.hours \in Nat /\ This.hours <= This.hours
      BY <1>0, <3>2, RunFields DEF IInv, AttemptKnows, This
    <3>. QED BY <1>0, <3>1, <3>2, <3>3, FinishPreserves DEF Working
  <2>6. CASE FinalizeArtifacts
    <3>1. /\ UNCHANGED <<durable, faults>> /\ at = "artifacts" /\ at' = "stop"
          /\ job' = [job EXCEPT !.final = TRUE]
      BY <2>6 DEF FinalizeArtifacts
    <3>2. /\ job' \in Jobs /\ job'.epoch = job.epoch /\ job'.status = job.status
          /\ job'.held = job.held /\ job'.recovered = job.recovered
          /\ job'.imported = job.imported /\ job'.failed = job.failed
      BY <1>0, <3>1 DEF Jobs
    <3>. QED BY <1>0, <3>1, <3>2, Closes DEF Closing
  <2>. QED
    BY <1>4, <2>1, <2>2, <2>3, <2>4, <2>5, <2>6, CreatePreserves, StartPreserves,
       ActivatePreserves, RecoverPreserves, ImportDonePreserves, DiscardPreserves,
       SnapshotPreserves, WriteCheckpointPreserves, SealPreserves, SealCampaignPreserves,
       StopPreserves
    DEF Proceed
<1>5. CASE Import \/ Work
  BY <1>5, ImportPreserves, WorkPreserves
<1>6. CASE \E h \in Hours : BootstrapFails(h)
  <2>1. PICK h \in Hours : BootstrapFails(h)
    BY <1>6
  <2>2. PICK s \in Statuses : Finish("bootstrap failed", s, h)
    BY <2>1 DEF BootstrapFails, Statuses
  <2>3. at \in Working /\ at # "none" /\ faults' \in Nat
    <3>1. at \in {"preflight", "import", "snapshot", "backend"}
      BY <2>1 DEF BootstrapFails
    <3>2. faults' = faults + 1
      BY <2>1 DEF BootstrapFails, Fault
    <3>. QED BY <1>0, <3>1, <3>2 DEF Working
  <2>4. h \in Nat /\ h <= This.hours
    BY <2>3, HoursAreNat
  <2>5. "bootstrap failed" \in Reasons
    BY DEF Reasons
  <2>. QED BY <2>2, <2>3, <2>4, <2>5, FinishPreserves
<1>7. CASE \E s \in {"PAUSED", "STOPPED", "COMPLETED"}, h \in Hours,
              why \in {"stopped", "next epoch frontier ready", "failed"} : StopEarly(s, why, h)
  <2>1. PICK s \in {"PAUSED", "STOPPED", "COMPLETED"}, h \in Hours,
             why \in {"stopped", "next epoch frontier ready", "failed"} : StopEarly(s, why, h)
    BY <1>7
  <2>2. at = "work" /\ Finish(why, s, h) /\ UNCHANGED faults
    BY <2>1 DEF StopEarly
  <2>3. at \in Working /\ at # "none" /\ faults' \in Nat
    BY <1>0, <2>2 DEF Working
  <2>4. h \in Nat /\ h <= This.hours
    BY <2>3, HoursAreNat
  <2>5. why \in Reasons /\ s \in Statuses
    BY <2>1 DEF Reasons, Statuses
  <2>. QED BY <2>2, <2>3, <2>4, <2>5, FinishPreserves
<1>8. CASE CloseBadly
  <2>1. CASE RecordFails \/ ArtifactsFail
    <3>1. /\ UNCHANGED durable /\ at \in {"record", "artifacts"} /\ at' \in {"artifacts", "stop"}
          /\ job' = [job EXCEPT !.failed = TRUE, !.reason = "failed"] /\ faults' = faults + 1
      BY <2>1 DEF RecordFails, ArtifactsFail, Fault, Failed
    <3>2. /\ job' \in Jobs /\ job'.epoch = job.epoch /\ job'.status = job.status
          /\ job'.held = job.held /\ job'.recovered = job.recovered
          /\ job'.imported = job.imported /\ job'.failed
      BY <1>0, <3>1 DEF Jobs, Reasons
    <3>. QED BY <1>0, <3>1, <3>2, Closes DEF Closing
  <2>2. CASE ArtifactsInterrupted
    <3>1. /\ UNCHANGED durable /\ at = "artifacts" /\ at' = "stop" /\ faults' = faults + 1
          /\ job' = [job EXCEPT !.interrupted = TRUE, !.reason = "interrupted"]
      BY <2>2 DEF ArtifactsInterrupted, Fault
    <3>2. /\ job' \in Jobs /\ job'.epoch = job.epoch /\ job'.status = job.status
          /\ job'.held = job.held /\ job'.recovered = job.recovered
          /\ job'.imported = job.imported /\ job'.failed = job.failed
      BY <1>0, <3>1 DEF Jobs, Reasons
    <3>. QED BY <1>0, <3>1, <3>2, Closes DEF Closing
  <2>. QED BY <1>8, <2>1, <2>2, SealFailsPreserves DEF CloseBadly
<1>9. CASE Crash
  BY <1>0, <1>9, Ends DEF Crash, Fault
<1>. QED
  BY <1>1, <1>2, <1>3, <1>4, <1>5, <1>6, <1>7, <1>8, <1>9 DEF Next

\* The inductive invariant holds in every reachable state.
THEOREM Invariance == Spec => []IInv
<1>. QED BY InitSound, StepSound, PTL DEF Spec

\* The two files of a campaign tell one story: epochs that start and seal one
\* after the other within the time budget, and a status and a closing report
\* that the ledger backs, whatever crashed or failed between the writes.
THEOREM LedgerTellsAll == Spec => []CampaignSound
<1>1. IInv => CampaignSound
  BY DEF IInv
<1>. QED BY <1>1, Invariance, PTL

\* No checkpoint that may seed the next epoch forgets a part of the frontier.
THEOREM FrontierHandedOn == Spec => []NothingForgotten
<1>1. IInv => NothingForgotten
  BY DEF IInv
<1>. QED BY <1>1, Invariance, PTL

\* The run directory of a sealed epoch is left alone, by any step.
LEMMA SealedLeftAlone == IInv /\ [Next]_vars => LeavesSealed
<1> SUFFICES ASSUME IInv, [Next]_vars, NEW e \in Sealed
             PROVE  \/ runs'[e] = runs[e]
                    \/ at = "stop" /\ e = job.epoch
                       /\ runs'[e] = [runs[e] EXCEPT !.told = runs'[e].told]
  BY DEF LeavesSealed
<1>1. e \in DOMAIN runs /\ runs \in Seq(Runs) /\ runs[e] \in Runs
  BY RunFields DEF IInv, CampaignSound, LedgerAlternates, TypeOK
<1>2. CASE UNCHANGED runs
  BY <1>2
<1>3. CASE \E p, h : Launch(p, h)
  <2>1. PICK x : runs' = Append(runs, x)
    BY <1>3 DEF Launch
  <2>. QED BY <1>1, <2>1
<1>4. CASE /\ at \in Working
           /\ \E v : \/ runs' = [runs EXCEPT ![job.epoch].known = v]
                     \/ runs' = [runs EXCEPT ![job.epoch].imported = v]
                     \/ runs' = [runs EXCEPT ![job.epoch].discarded = v]
                     \/ runs' = [runs EXCEPT ![job.epoch].saved = v]
  <2>1. e # job.epoch
    BY <1>4 DEF IInv, AttemptKnows, Open
  <2>. QED BY <1>1, <1>4, <2>1
<1>5. CASE StopRun
  <2>1. at = "stop" /\ runs' = [runs EXCEPT ![job.epoch].told =
                                  [status |-> job.status, failed |-> job.failed]]
    BY <1>5 DEF StopRun
  <2>2. CASE e = job.epoch
    BY <1>1, <2>1, <2>2 DEF Runs
  <2>3. CASE e # job.epoch
    BY <1>1, <2>1, <2>3
  <2>. QED BY <2>2, <2>3
<1>6. CASE UNCHANGED vars
  BY <1>6 DEF vars, durable
<1>7. CASE RunCampaign \/ ContinueCampaign \/ AutoContinue
  BY <1>3, <1>7 DEF RunCampaign, ContinueCampaign, AutoContinue
<1>8. CASE Proceed
  BY <1>2, <1>4, <1>5, <1>8
  DEF Proceed, CreateCampaign, Refuse, StartEpoch, Activate, RecoverEpoch, Preflight,
      ImportDone, DiscardFrontier, Snapshot, StartBackend, TimeIsUp, Finish, WriteCheckpoint,
      AppendSealed, SealCampaign, FinalizeRecord, FinalizeArtifacts, EndCommand, durable, Working
<1>9. CASE Import \/ Work
  BY <1>4, <1>9 DEF Import, ImportSome, Work, Learn, Working
<1>10. CASE \/ \E d \in DOMAIN runs : ResumeEpoch(d)
            \/ \E h \in Hours : BootstrapFails(h)
            \/ \E s \in {"PAUSED", "STOPPED", "COMPLETED"}, h \in Hours,
                  why \in {"stopped", "next epoch frontier ready", "failed"} : StopEarly(s, why, h)
            \/ CloseBadly \/ Crash
  <2>1. UNCHANGED durable
    BY <1>10 DEF ResumeEpoch, BootstrapFails, StopEarly, Finish, CloseBadly, SealFails,
                 RecordFails, ArtifactsInterrupted, ArtifactsFail, Crash
  <2>. QED BY <1>2, <2>1 DEF durable
<1>. QED BY <1>6, <1>7, <1>8, <1>9, <1>10 DEF Next

\* From a returned attempt, only the --auto-epochs loop starts another epoch.
LEMMA LoopFollowsSeal == IInv /\ [Next]_vars => GoesOnFromSeal
<1> SUFFICES ASSUME IInv, [Next]_vars, at = "returned", at' = "create"
             PROVE  status = "PAUSED" /\ SealedAs(job.epoch, "PAUSED")
  BY DEF GoesOnFromSeal
<1>1. AutoContinue
  <2>1. at' # at
    OBVIOUS
  <2>. QED
    BY <2>1
    DEF Next, vars, Idle, RunCampaign, ContinueCampaign, ResumeEpoch, Proceed, CreateCampaign,
        Refuse, StartEpoch, Activate, RecoverEpoch, Preflight, ImportDone, DiscardFrontier,
        Snapshot, StartBackend, TimeIsUp, WriteCheckpoint, AppendSealed, SealCampaign,
        FinalizeRecord, FinalizeArtifacts, StopRun, EndCommand, EndAttempt, Import, Work,
        BootstrapFails, StopEarly, CloseBadly, SealFails, RecordFails, ArtifactsInterrupted,
        ArtifactsFail, Crash
<1>2. ~job.failed /\ job.status = "PAUSED"
  BY <1>1 DEF AutoContinue, AutoAllowed
<1>. QED BY <1>2 DEF IInv, AttemptKnows, Closing

\* A seal is final: nothing changes in the run directory of a sealed epoch but
\* the closing record of the attempt that sealed it, and the loop that starts
\* the next epoch goes on only from a seal that says that it may.
THEOREM SealsAreFinal == Spec => SealsRespected
<1>1. Spec => SealedStaySealed
  BY SealedLeftAlone, Invariance, PTL DEF Spec, SealedStaySealed
<1>2. Spec => AutoFollowsSeal
  BY LoopFollowsSeal, Invariance, PTL DEF Spec, AutoFollowsSeal
<1>. QED BY <1>1, <1>2 DEF SealsRespected

=============================================================================
