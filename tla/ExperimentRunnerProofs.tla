------------------------- MODULE ExperimentRunnerProofs -------------------------
(***************************************************************************)
(* Proofs about ExperimentRunner, for any set of processes and any number  *)
(* of cases, crashes and edits: the ledger of a run is sound, and its      *)
(* evidence is what one run of each case produced.                         *)
(*                                                                         *)
(* The inductive invariant says of every process what it may rely on where *)
(* it stands (Stands).  A process that works on a case is the only one     *)
(* that does, the case has no result yet and its command was not started;  *)
(* a process that has read the ledger knows no more lines than there are,  *)
(* and all of them, in order, as long as no other process worked on the    *)
(* run at the same time.                                                   *)
(*                                                                         *)
(* The second part is about TurnOwnership, for any set of threads and any  *)
(* number of turns: the turns of a thread are kept apart, and a turn that  *)
(* a call gave up on is contained.                                         *)
(***************************************************************************)
EXTENDS ExperimentRunner, TurnOwnership, TLAPS

InCase == {"inputs", "command", "record"}
HasRead == {"repair", "case", "inputs", "command", "record", "append", "close", "returned"}

OwnsCase(p) ==
  /\ Now(p) \in dir /\ result[Now(p)] = NoResult
  /\ \A q \in Runners \ {p} : run[q].pc \in InCase => Now(q) # Now(p)

InOrder == \A i \in DOMAIN ledger : ledger[i] = i

Stands(p) ==
  /\ run[p].pc \in InCase => OwnsCase(p)
  /\ run[p].pc \in {"inputs", "command"} => runs[Now(p)] = 0
  /\ run[p].pc \in InCase \cup {"case", "append"} => run[p].known < Cases
  /\ run[p].pc = "record" => run[p].outcome.end \in Reported
  /\ run[p].pc = "append" => Verified(Now(p))
  /\ run[p].pc \in HasRead =>
       /\ run[p].known <= Len(ledger)
       /\ ~overlap => run[p].known = Len(ledger) /\ InOrder
  /\ adapter = "subprocess" =>
       /\ run[p].pc = "command" => run[p].outcome.on = "frozen"
       /\ run[p].pc = "record" /\ run[p].outcome.end = "EXITED" => run[p].outcome.on = "frozen"

Alone == ~overlap => \A p, q \in Runners : ~At(p, "off") /\ ~At(q, "off") => p = q

\* A case without a directory was not touched.
Untouched == \A c \in Case : c \notin dir => runs[c] = 0 /\ result[c] = NoResult

Durably ==
  LedgerBacked /\ LedgerOrdered /\ CheckpointDerived /\ EvidenceStands /\ Untouched

IInv == TypeOK /\ Durably /\ Alone /\ \A p \in Runners : Stands(p)

(***************************************************************************)
(* Facts that the steps share.                                             *)
(***************************************************************************)
LEMMA Types ==
  ASSUME TypeOK, NEW p \in Runners
  PROVE  /\ run[p] \in Processes /\ run[p].known \in 0..Cases /\ Cases \in Nat
         /\ run[p].outcome \in Results /\ Now(p) \in Nat /\ Now(p) # 0
         /\ run[p].known < Cases => Now(p) \in Case
         /\ Len(ledger) \in Nat /\ DOMAIN ledger = 1..Len(ledger)
<1>1. run[p] \in Processes /\ Cases \in Nat
  BY ExperimentAssumption DEF TypeOK
<1>2. run[p].known \in 0..Cases /\ run[p].outcome \in Results
  BY <1>1 DEF Processes
<1>3. Now(p) \in Nat /\ Now(p) # 0 /\ (run[p].known < Cases => Now(p) \in Case)
  BY <1>1, <1>2 DEF Now, Case
<1>4. Len(ledger) \in Nat /\ DOMAIN ledger = 1..Len(ledger)
  BY DEF TypeOK
<1>. QED BY <1>1, <1>2, <1>3, <1>4

LEMMA ReadFacts ==
  ASSUME TypeOK
  PROVE  /\ LedgerRead.count = Len(ledger)
         /\ LedgerRead.ok <=> \A i \in DOMAIN ledger : i <= Cases /\ ledger[i] = i /\ Verified(i)
         /\ LedgerRead.ok => Len(ledger) \in 0..Cases /\ InOrder
<1>1. /\ LedgerRead.count = Len(ledger)
      /\ LedgerRead.ok <=> \A i \in DOMAIN ledger : i <= Cases /\ ledger[i] = i /\ Verified(i)
  BY DEF LedgerRead
<1>2. Len(ledger) \in Nat /\ DOMAIN ledger = 1..Len(ledger) /\ Cases \in Nat
  BY ExperimentAssumption DEF TypeOK
<1>3. ASSUME LedgerRead.ok
      PROVE  Len(ledger) \in 0..Cases /\ InOrder
  <2>1. Len(ledger) # 0 => Len(ledger) \in DOMAIN ledger
    BY <1>2
  <2>2. Len(ledger) <= Cases
    BY <1>1, <1>2, <1>3, <2>1
  <2>3. InOrder
    BY <1>1, <1>3 DEF InOrder
  <2>. QED BY <1>2, <2>2, <2>3
<1>. QED BY <1>1, <1>3

\* Changing the record of one process.
LEMMA Moved ==
  ASSUME TypeOK, NEW p \in Runners, NEW r \in Processes, run' = [run EXCEPT ![p] = r]
  PROVE  /\ run' \in [Runners -> Processes] /\ run'[p] = r
         /\ \A q \in Runners : q # p => run'[q] = run[q]
BY DEF TypeOK

\* A step of p leaves all others where they stand.
LEMMA OthersStand ==
  ASSUME IInv, NEW p \in Runners, TypeOK', Alone', Stands(p)', UNCHANGED adapter,
         \A q \in Runners : q # p => run'[q] = run[q],
         dir \subseteq dir', overlap => overlap',
         \A c \in Case : \/ result'[c] = result[c] /\ runs'[c] = runs[c]
                         \/ /\ run[p].pc \in InCase /\ c = Now(p)
                            /\ result[c] # NoResult => result'[c] # NoResult,
         \/ UNCHANGED ledger
         \/ Len(ledger') >= Len(ledger) /\ ~At(p, "off")
  PROVE  \A q \in Runners : Stands(q)'
<1> USE DEF IInv
<1> SUFFICES ASSUME NEW q \in Runners, q # p
             PROVE  Stands(q)'
  OBVIOUS
<1>1. run'[q] = run[q] /\ Stands(q)
  OBVIOUS
<1>2. /\ Now(q)' = Now(q) /\ Now(q) \in Nat
      /\ run[q].known < Cases => Now(q) \in Case
  BY <1>1, Types DEF Now
<1>3. Now(p) \in Nat /\ Now(p)' \in Nat
  <2>1. run'[p] \in Processes /\ Cases \in Nat
    BY ExperimentAssumption DEF TypeOK
  <2>2. run'[p].known \in Nat
    BY <2>1 DEF Processes
  <2>. QED BY <2>2, Types DEF Now
<1>4. ASSUME run[q].pc \in InCase
      PROVE  /\ result'[Now(q)] = result[Now(q)] /\ runs'[Now(q)] = runs[Now(q)]
             /\ OwnsCase(q)'
  <2>1. run[q].known < Cases /\ Now(q) \in Case /\ OwnsCase(q)
    BY <1>1, <1>2, <1>4 DEF Stands
  <2>2. run[p].pc \in InCase => Now(p) # Now(q)
    BY <2>1 DEF OwnsCase
  <2>3. result'[Now(q)] = result[Now(q)] /\ runs'[Now(q)] = runs[Now(q)]
    BY <2>1, <2>2
  <2>4. run'[p].pc \in InCase => Now(p)' # Now(q)
    <3> SUFFICES ASSUME run'[p].pc \in InCase
                 PROVE  Now(p)' # Now(q)
      OBVIOUS
    <3>1. OwnsCase(p)'
      BY DEF Stands
    <3>2. run'[q].pc \in InCase
      BY <1>1, <1>4
    <3>. QED BY <1>2, <3>1, <3>2 DEF OwnsCase
  <2>5. \A d \in Runners \ {q} : run'[d].pc \in InCase => Now(d)' # Now(q)
    <3> SUFFICES ASSUME NEW d \in Runners \ {q}, run'[d].pc \in InCase
                 PROVE  Now(d)' # Now(q)
      OBVIOUS
    <3>1. CASE d = p
      BY <2>4, <3>1
    <3>2. CASE d # p
      <4>1. run'[d] = run[d] /\ Now(d)' = Now(d)
        BY <3>2 DEF Now
      <4>. QED BY <2>1, <4>1 DEF OwnsCase
    <3>. QED BY <3>1, <3>2
  <2>6. Now(q)' \in dir' /\ result'[Now(q)'] = NoResult
    BY <1>2, <2>1, <2>3 DEF OwnsCase
  <2>7. OwnsCase(q)'
    BY <1>2, <2>5, <2>6 DEF OwnsCase
  <2>. QED BY <2>3, <2>7
<1>5. run[q].pc \in {"inputs", "command"} => runs'[Now(q)'] = 0
  BY <1>1, <1>2, <1>4 DEF Stands, InCase
<1>6. ASSUME run[q].pc = "append"
      PROVE  Verified(Now(q))'
  <2>1. result[Now(q)] # NoResult /\ Now(q) \in Case
    BY <1>1, <1>2, <1>6 DEF Stands, Verified
  <2>2. result'[Now(q)] # NoResult
    BY <2>1
  <2>. QED BY <1>2, <2>2 DEF Verified
<1>7. ASSUME run[q].pc \in HasRead
      PROVE  /\ run[q].known <= Len(ledger')
             /\ ~overlap' => run[q].known = Len(ledger') /\ InOrder'
  <2>1. CASE UNCHANGED ledger
    BY <1>1, <1>7, <2>1 DEF Stands, InOrder
  <2>2. CASE Len(ledger') >= Len(ledger) /\ ~At(p, "off")
    <3>1. ~At(q, "off")
      BY <1>7 DEF HasRead, At
    <3>2. overlap
      BY <2>2, <3>1 DEF Alone
    <3>3. run[q].known <= Len(ledger) /\ Len(ledger) \in Nat /\ Len(ledger') \in Nat
          /\ run[q].known \in Nat
      BY <1>1, <1>7, Types DEF Stands, TypeOK
    <3>. QED BY <2>2, <3>2, <3>3
  <2>. QED BY <2>1, <2>2
<1>. QED BY <1>1, <1>4, <1>5, <1>6, <1>7 DEF Stands

\* The durable state is as sound as it was when no file is written.
LEMMA FilesSame ==
  ASSUME IInv, UNCHANGED files, UNCHANGED <<receipt, runs>>, overlap => overlap'
  PROVE  Durably'
<1>1. UNCHANGED <<adapter, root, dir, result, ledger, checkpoint, receipt, runs>>
  BY DEF files
<1>2. LedgerBacked' /\ LedgerOrdered' /\ CheckpointDerived' /\ Untouched'
  BY <1>1 DEF IInv, Durably, LedgerBacked, LedgerOrdered, CheckpointDerived, Untouched, Verified
<1>3. EvidenceStands'
  BY <1>1 DEF IInv, Durably, EvidenceStands, CasesOnce, RanOnFrozen, ReceiptStays, Complete,
              LedgerRead, Verified
<1>. QED BY <1>2, <1>3 DEF Durably

\* A step of p that changes nothing but what p knows.
LEMMA Steps ==
  ASSUME IInv, NEW p \in Runners, NEW r \in Processes, run' = [run EXCEPT ![p] = r],
         UNCHANGED files, UNCHANGED <<input, adapter, receipt, runs, overlap, spent>>,
         ~At(p, "off") \/ r.pc = "off", Stands(p)'
  PROVE  IInv'
<1>1. /\ run' \in [Runners -> Processes] /\ run'[p] = r
      /\ \A q \in Runners : q # p => run'[q] = run[q]
  BY Moved DEF IInv
<1>2. UNCHANGED <<adapter, root, dir, result, ledger, checkpoint>>
  BY DEF files
<1>3. TypeOK'
  BY <1>1, <1>2 DEF IInv, TypeOK
<1>4. Alone'
  BY <1>1 DEF IInv, Alone, At
<1>5. \A q \in Runners : Stands(q)'
  BY <1>1, <1>2, <1>3, <1>4, OthersStand
<1>6. Durably'
  BY FilesSame
<1>. QED BY <1>3, <1>4, <1>5, <1>6 DEF IInv

LEMMA OffStands ==
  ASSUME NEW p \in Runners, run'[p].pc = "off"
  PROVE  Stands(p)'
BY DEF Stands, InCase, HasRead

LEMMA OffIs == Off \in Processes /\ Off.pc = "off"
<1>1. Cases \in Nat
  BY ExperimentAssumption
<1>. QED BY <1>1 DEF Off, Processes, NoResult, Results, Terminations, Reported

LEMMA Raises ==
  ASSUME IInv, NEW p \in Runners, Raise(p), UNCHANGED files,
         UNCHANGED <<input, adapter, receipt, runs, overlap, spent>>
  PROVE  IInv'
<1>1. run' = [run EXCEPT ![p] = Off]
  BY DEF Raise
<1>2. run'[p].pc = "off"
  BY <1>1, Moved, OffIs DEF IInv
<1>. QED BY <1>1, <1>2, OffIs, OffStands, Steps

Points ==
  {"off", "open", "freeze", "ledger", "repair", "case", "inputs", "command", "record",
   "append", "close", "returned"}

LEMMA Goes ==
  ASSUME TypeOK, NEW p \in Runners, NEW x \in Points, Goto(p, x)
  PROVE  /\ [run[p] EXCEPT !.pc = x] \in Processes
         /\ run' = [run EXCEPT ![p] = [run[p] EXCEPT !.pc = x]]
         /\ run'[p].pc = x /\ run'[p].known = run[p].known /\ run'[p].outcome = run[p].outcome
         /\ Now(p)' = Now(p)
         /\ \A q \in Runners : q # p => run'[q] = run[q]
<1>1. run[p] \in Processes /\ run \in [Runners -> Processes]
  BY DEF TypeOK
<1>2. [run[p] EXCEPT !.pc = x] \in Processes /\ run' = [run EXCEPT ![p] = [run[p] EXCEPT !.pc = x]]
  BY <1>1 DEF Goto, Processes, Points
<1>3. /\ run'[p].pc = x /\ run'[p].known = run[p].known /\ run'[p].outcome = run[p].outcome
      /\ \A q \in Runners : q # p => run'[q] = run[q]
  BY <1>1, <1>2 DEF Processes
<1>. QED BY <1>2, <1>3 DEF Now

(***************************************************************************)
(* Opening a run.                                                          *)
(***************************************************************************)
LEMMA StartSound ==
  ASSUME IInv, NEW p \in Runners, NEW resume \in BOOLEAN, Start(p, resume)
  PROVE  IInv'
<1> DEFINE r == [Off EXCEPT !.pc = "open", !.resume = resume]
<1>1. /\ At(p, "off") /\ run' = [run EXCEPT ![p] = r]
      /\ overlap' = (overlap \/ \E q \in Runners \ {p} : ~At(q, "off"))
      /\ UNCHANGED <<adapter, root, dir, result, ledger, checkpoint, input, receipt, runs, spent>>
      /\ UNCHANGED files
  BY DEF Start, files
<1>2. r \in Processes /\ r.pc = "open"
  BY OffIs DEF Processes
<1> HIDE DEF r
<1>3. /\ run' \in [Runners -> Processes] /\ run'[p].pc = "open"
      /\ \A q \in Runners : q # p => run'[q] = run[q]
  BY <1>1, <1>2, Moved DEF IInv
<1>4. overlap' \in BOOLEAN
  BY <1>1 DEF IInv, TypeOK
<1>5. TypeOK'
  BY <1>1, <1>3, <1>4 DEF IInv, TypeOK
<1>6. Alone'
  BY <1>1, <1>3 DEF IInv, Alone, At
<1>7. Stands(p)'
  BY <1>3 DEF Stands, InCase, HasRead
<1>8. \A q \in Runners : Stands(q)'
  BY <1>1, <1>3, <1>5, <1>6, <1>7, OthersStand
<1>9. Durably'
  BY <1>1, FilesSame
<1>. QED BY <1>5, <1>6, <1>8, <1>9 DEF IInv

\* The root directory and its manifest come to be.
LEMMA RootSound ==
  ASSUME IInv, NEW p \in Runners, NEW x \in {"freeze", "ledger"}, Goto(p, x),
         ~At(p, "off"), root' \in {"dir", "frozen"}, root = "frozen" => root' = "frozen",
         UNCHANGED <<dir, result, ledger, checkpoint, input, adapter, receipt, runs, overlap, spent>>
  PROVE  IInv'
<1>1. x \in Points
  BY DEF Points
<1>2. /\ run'[p].pc = x /\ \A q \in Runners : q # p => run'[q] = run[q]
      /\ run' \in [Runners -> Processes]
  BY <1>1, Goes, Moved DEF IInv
<1>3. TypeOK'
  BY <1>2 DEF IInv, TypeOK
<1>4. Alone'
  BY <1>2 DEF IInv, Alone, At
<1>5. Stands(p)'
  BY <1>2 DEF Stands, InCase, HasRead
<1>6. \A q \in Runners : Stands(q)'
  BY <1>2, <1>3, <1>4, <1>5, OthersStand
<1>7. LedgerBacked' /\ LedgerOrdered' /\ CheckpointDerived' /\ Untouched'
  BY DEF IInv, Durably, LedgerBacked, LedgerOrdered, CheckpointDerived, Untouched, Verified
<1>8. EvidenceStands'
  BY DEF IInv, Durably, EvidenceStands, CasesOnce, RanOnFrozen, ReceiptStays, Complete,
         LedgerRead, Verified
<1>. QED BY <1>3, <1>4, <1>6, <1>7, <1>8 DEF IInv, Durably

LEMMA MakeRootSound ==
  ASSUME IInv, NEW p \in Runners, MakeRoot(p)
  PROVE  IInv'
BY RootSound DEF MakeRoot, History, At

LEMMA FreezeSound ==
  ASSUME IInv, NEW p \in Runners, FreezeManifest(p)
  PROVE  IInv'
BY RootSound DEF FreezeManifest, History, At

LEMMA ReopenSound ==
  ASSUME IInv, NEW p \in Runners, Reopen(p)
  PROVE  IInv'
<1>1. At(p, "open") /\ UNCHANGED files /\ UNCHANGED <<input, adapter, receipt, runs, overlap, spent>>
  BY DEF Reopen, History
<1>2. CASE Raise(p)
  BY <1>1, <1>2, Raises
<1>3. CASE Goto(p, "ledger")
  <2>1. "ledger" \in Points /\ TypeOK
    BY DEF Points, IInv
  <2>2. Stands(p)'
    BY <1>3, <2>1, Goes DEF Stands, InCase, HasRead
  <2>. QED BY <1>1, <1>3, <2>1, <2>2, Goes, Steps DEF At
<1>. QED BY <1>2, <1>3 DEF Reopen

LEMMA ReadSound ==
  ASSUME IInv, NEW p \in Runners, ReadLedger(p)
  PROVE  IInv'
<1>1. /\ At(p, "ledger") /\ UNCHANGED files
      /\ UNCHANGED <<input, adapter, receipt, runs, overlap, spent>> /\ UNCHANGED ledger
  BY DEF ReadLedger, History, files
<1>2. CASE ~LedgerRead.ok
  BY <1>1, <1>2, Raises DEF ReadLedger
<1>3. CASE LedgerRead.ok
  <2> DEFINE r == [run[p] EXCEPT !.known = Len(ledger), !.pc = "repair"]
  <2>1. TypeOK /\ run[p] \in Processes /\ run \in [Runners -> Processes]
    BY DEF IInv, TypeOK
  <2>2. LedgerRead.count = Len(ledger) /\ Len(ledger) \in 0..Cases /\ InOrder
    BY <1>3, <2>1, ReadFacts
  <2>3. run' = [run EXCEPT ![p] = r]
    BY <1>3, <2>1, <2>2 DEF ReadLedger
  <2>4. r \in Processes /\ r.pc = "repair" /\ r.known = Len(ledger)
    BY <2>1, <2>2 DEF Processes
  <2> HIDE DEF r
  <2>5. run'[p].pc = "repair" /\ run'[p].known = Len(ledger)
    BY <2>1, <2>3, <2>4, Moved
  <2>6. InOrder'
    BY <1>1, <2>2 DEF InOrder
  <2>7. Stands(p)'
    BY <1>1, <2>2, <2>5, <2>6 DEF Stands, InCase, HasRead
  <2>. QED BY <1>1, <2>3, <2>4, <2>7, Steps DEF At
<1>. QED BY <1>2, <1>3

(***************************************************************************)
(* The checkpoint.                                                         *)
(***************************************************************************)
LEMMA CheckpointSound ==
  ASSUME IInv, NEW p \in Runners, NEW r \in Processes, run' = [run EXCEPT ![p] = r],
         ~At(p, "off"), Stands(p)', NEW n \in 0..Len(ledger), n <= Cases,
         checkpoint' = [count |-> n, upto |-> Len(ledger), there |-> TRUE],
         ~overlap => n = Len(ledger),
         UNCHANGED <<root, dir, result, ledger, input, adapter, receipt, runs, overlap, spent>>
  PROVE  IInv'
<1>1. /\ run' \in [Runners -> Processes] /\ run'[p] = r
      /\ \A q \in Runners : q # p => run'[q] = run[q]
  BY Moved DEF IInv
<1>2. Len(ledger) \in Nat /\ n \in 0..Cases
  BY ExperimentAssumption DEF IInv, TypeOK
<1>3. /\ checkpoint' \in [count : 0..Cases, upto : Nat, there : BOOLEAN]
      /\ checkpoint'.count = n /\ checkpoint'.upto = Len(ledger)
  BY <1>2
<1>4. TypeOK'
  BY <1>1, <1>3 DEF IInv, TypeOK
<1>5. Alone'
  BY <1>1 DEF IInv, Alone, At
<1>6. \A q \in Runners : Stands(q)'
  BY <1>1, <1>4, <1>5, OthersStand
<1>7. LedgerBacked' /\ LedgerOrdered' /\ Untouched'
  BY DEF IInv, Durably, LedgerBacked, LedgerOrdered, Untouched, Verified
<1>8. CheckpointDerived'
  BY <1>2, <1>3 DEF CheckpointDerived
<1>9. EvidenceStands'
  BY DEF IInv, Durably, EvidenceStands, CasesOnce, RanOnFrozen, ReceiptStays, Complete,
         LedgerRead, Verified
<1>. QED BY <1>4, <1>5, <1>6, <1>7, <1>8, <1>9 DEF IInv, Durably

LEMMA RepairSound ==
  ASSUME IInv, NEW p \in Runners, Repair(p)
  PROVE  IInv'
<1>1. /\ At(p, "repair") /\ checkpoint' = [count |-> run[p].known, upto |-> Len(ledger), there |-> TRUE]
      /\ UNCHANGED <<root, dir, result, ledger, input, adapter, receipt, runs, overlap, spent>>
  BY DEF Repair, Checkpoint, History
<1>2. TypeOK /\ run[p] \in Processes /\ run \in [Runners -> Processes] /\ Stands(p)
  BY DEF IInv, TypeOK
<1>3. /\ run[p].known \in 0..Cases /\ Len(ledger) \in Nat /\ run[p].known <= Len(ledger)
      /\ ~overlap => run[p].known = Len(ledger) /\ InOrder
  BY <1>1, <1>2, Types DEF Stands, HasRead, At
<1>4. run[p].known \in 0..Len(ledger) /\ run[p].known <= Cases /\ Cases \in Nat
  BY <1>3, ExperimentAssumption
<1>5. CASE Raise(p)
  <2>1. run' = [run EXCEPT ![p] = Off] /\ run'[p].pc = "off"
    BY <1>2, <1>5, Moved, OffIs DEF Raise
  <2>. QED BY <1>1, <1>3, <1>4, <2>1, OffIs, OffStands, CheckpointSound DEF At
<1>6. CASE run' = [run EXCEPT ![p].pc = IF run[p].known < Cases THEN "case" ELSE "close",
                              ![p].outcome = NoResult]
  <2>1. PICK x \in {"case", "close"} : x = IF run[p].known < Cases THEN "case" ELSE "close"
    OBVIOUS
  <2> DEFINE r == [run[p] EXCEPT !.pc = x, !.outcome = NoResult]
  <2>2. run' = [run EXCEPT ![p] = r]
    BY <1>2, <1>6, <2>1
  <2>3. r \in Processes /\ r.pc = x /\ r.known = run[p].known
    BY <1>2 DEF Processes, Results, NoResult
  <2> HIDE DEF r
  <2>4. run'[p].pc = x /\ run'[p].known = run[p].known
    BY <1>2, <2>2, <2>3, Moved
  <2>5. InOrder' <=> InOrder
    BY <1>1 DEF InOrder
  <2>6. Stands(p)'
    BY <1>1, <1>3, <2>1, <2>4, <2>5 DEF Stands, InCase, HasRead
  <2>. QED BY <1>1, <1>3, <1>4, <2>2, <2>3, <2>6, CheckpointSound DEF At
<1>. QED BY <1>5, <1>6 DEF Repair

LEMMA CloseSound ==
  ASSUME IInv, NEW p \in Runners, Close(p)
  PROVE  IInv'
<1>1. At(p, "close") /\ UNCHANGED <<root, dir, result, ledger, input, adapter, receipt, runs, overlap, spent>>
  BY DEF Close, History
<1>2. TypeOK /\ Stands(p) /\ Len(ledger) \in Nat
  BY DEF IInv, TypeOK
<1>3. CASE dir = Case /\ LedgerRead.ok
  <2>1. LedgerRead.count = Len(ledger) /\ Len(ledger) \in 0..Cases /\ InOrder /\ Cases \in Nat
    BY <1>2, <1>3, ReadFacts, ExperimentAssumption
  <2>2. checkpoint' = [count |-> Len(ledger), upto |-> Len(ledger), there |-> TRUE]
        /\ Goto(p, "returned")
    BY <1>3, <2>1 DEF Close, Checkpoint
  <2>3. "returned" \in Points
    BY DEF Points
  <2>4. run'[p].pc = "returned" /\ run'[p].known = run[p].known
    BY <1>2, <2>2, <2>3, Goes
  <2>5. InOrder'
    BY <1>1, <2>1 DEF InOrder
  <2>6. Stands(p)'
    BY <1>1, <1>2, <2>4, <2>5 DEF Stands, InCase, HasRead, At
  <2>7. Len(ledger) \in 0..Len(ledger) /\ Len(ledger) <= Cases
    BY <1>2, <2>1
  <2>. QED BY <1>1, <1>2, <2>2, <2>3, <2>6, <2>7, Goes, CheckpointSound DEF At
<1>4. CASE ~(dir = Case /\ LedgerRead.ok)
  <2>1. Raise(p) /\ UNCHANGED files
    BY <1>1, <1>4 DEF Close, files
  <2>. QED BY <1>1, <2>1, Raises
<1>. QED BY <1>3, <1>4


(***************************************************************************)
(* One case.                                                               *)
(***************************************************************************)
LEMMA InputsChangedSound ==
  ASSUME IInv, NEW p \in Runners, InputsChanged(p)
  PROVE  IInv'
BY Raises DEF InputsChanged, History

LEMMA LeaveSound ==
  ASSUME IInv, NEW p \in Runners, Leave(p)
  PROVE  IInv'
BY Raises DEF Leave, History

\* The case directory is made exclusively: what p has made is p's.
LEMMA NewCaseSound ==
  ASSUME IInv, NEW p \in Runners, NewCase(p)
  PROVE  IInv'
<1>1. /\ At(p, "case") /\ Now(p) \notin dir /\ dir' = dir \cup {Now(p)} /\ Goto(p, "inputs")
      /\ UNCHANGED <<root, result, ledger, checkpoint, input, adapter, receipt, runs, overlap, spent>>
  BY DEF NewCase, History
<1>2. TypeOK /\ Stands(p) /\ "inputs" \in Points
  BY DEF IInv, Points
<1>3. /\ run'[p].pc = "inputs" /\ run'[p].known = run[p].known /\ Now(p)' = Now(p)
      /\ \A q \in Runners : q # p => run'[q] = run[q]
      /\ run' \in [Runners -> Processes]
  BY <1>1, <1>2, Goes, Moved
<1>4. run[p].known < Cases /\ Now(p) \in Case
  BY <1>1, <1>2, Types DEF Stands, At
<1>5. runs[Now(p)] = 0 /\ result[Now(p)] = NoResult
  BY <1>1, <1>4 DEF IInv, Durably, Untouched
<1>6. TypeOK'
  BY <1>1, <1>3, <1>4 DEF IInv, TypeOK
<1>7. Alone'
  BY <1>1, <1>3 DEF IInv, Alone, At
<1>8. OwnsCase(p)'
  <2>1. ASSUME NEW q \in Runners \ {p}, run'[q].pc \in InCase
        PROVE  Now(q)' # Now(p)
    <3>1. run'[q] = run[q] /\ Stands(q)
      BY <1>3 DEF IInv
    <3>2. Now(q) \in dir
      BY <2>1, <3>1 DEF Stands, OwnsCase
    <3>. QED BY <1>1, <3>1, <3>2 DEF Now
  <2>. QED BY <1>1, <1>3, <1>5, <2>1 DEF OwnsCase
<1>9. InOrder' <=> InOrder
  BY <1>1 DEF InOrder
<1>10. Stands(p)'
  BY <1>1, <1>2, <1>3, <1>4, <1>5, <1>8, <1>9 DEF Stands, HasRead, At
<1>11. \A q \in Runners : Stands(q)'
  BY <1>1, <1>3, <1>6, <1>7, <1>10, OthersStand
<1>12. LedgerBacked' /\ LedgerOrdered' /\ CheckpointDerived' /\ Untouched'
  BY <1>1 DEF IInv, Durably, LedgerBacked, LedgerOrdered, CheckpointDerived, Untouched, Verified
<1>13. ~(receipt /\ ~overlap)
  BY <1>1, <1>4 DEF IInv, Durably, EvidenceStands, ReceiptStays, Complete
<1>14. EvidenceStands'
  BY <1>1, <1>13 DEF IInv, Durably, EvidenceStands, CasesOnce, RanOnFrozen, ReceiptStays
<1>. QED BY <1>6, <1>7, <1>11, <1>12, <1>14 DEF IInv, Durably

LEMMA OldCaseSound ==
  ASSUME IInv, NEW p \in Runners, OldCase(p)
  PROVE  IInv'
<1>1. /\ At(p, "case") /\ UNCHANGED files /\ UNCHANGED ledger /\ UNCHANGED result
      /\ UNCHANGED <<input, adapter, receipt, runs, overlap, spent>>
  BY DEF OldCase, History, files
<1>2. TypeOK /\ Stands(p) /\ run[p] \in Processes /\ run \in [Runners -> Processes]
  BY DEF IInv, TypeOK
<1>3. run[p].known < Cases /\ Now(p) \in Case
  BY <1>1, <1>2, Types DEF Stands, At
<1>4. CASE ~Verified(Now(p))
  BY <1>1, <1>4, Raises DEF OldCase
<1>5. CASE Verified(Now(p))
  <2> DEFINE r == [run[p] EXCEPT !.outcome = result[Now(p)], !.pc = "append"]
  <2>1. run' = [run EXCEPT ![p] = r]
    BY <1>2, <1>5 DEF OldCase
  <2>2. result[Now(p)] \in Results
    BY <1>2, <1>3 DEF TypeOK
  <2>3. r \in Processes /\ r.pc = "append" /\ r.known = run[p].known
    BY <1>2, <2>2 DEF Processes
  <2> HIDE DEF r
  <2>4. run'[p].pc = "append" /\ run'[p].known = run[p].known /\ Now(p)' = Now(p)
    BY <1>2, <2>1, <2>3, Moved DEF Now
  <2>5. Verified(Now(p))'
    BY <1>1, <1>5, <2>4 DEF Verified
  <2>6. InOrder' <=> InOrder
    BY <1>1 DEF InOrder
  <2>7. Stands(p)'
    BY <1>1, <1>2, <1>3, <2>4, <2>5, <2>6 DEF Stands, InCase, HasRead, At
  <2>. QED BY <1>1, <2>1, <2>3, <2>7, Steps DEF At
<1>. QED BY <1>4, <1>5

\* Inside a case: p goes on with what it owns.
LEMMA GoesOnInCase ==
  ASSUME IInv, NEW p \in Runners, At(p, "inputs"),
         NEW r \in Processes, run' = [run EXCEPT ![p] = r], r.known = run[p].known,
         \/ r.pc = "command" /\ (adapter = "subprocess" => r.outcome.on = "frozen")
         \/ r.pc = "record" /\ r.outcome.end = "FAILED",
         UNCHANGED files, UNCHANGED <<input, adapter, receipt, runs, overlap, spent>>
  PROVE  IInv'
<1>1. UNCHANGED <<adapter, root, dir, result, ledger, checkpoint>>
  BY DEF files
<1>2. TypeOK /\ Stands(p)
  BY DEF IInv
<1>3. run'[p] = r /\ Now(p)' = Now(p) /\ \A q \in Runners : q # p => run'[q] = run[q]
  BY <1>2, Moved DEF Now
<1>4. OwnsCase(p) /\ runs[Now(p)] = 0 /\ run[p].known < Cases
  BY <1>2 DEF Stands, InCase, At
<1>5. OwnsCase(p)'
  BY <1>1, <1>3, <1>4 DEF OwnsCase, Now
<1>6. InOrder' <=> InOrder
  BY <1>1 DEF InOrder
<1>7. /\ run[p].known <= Len(ledger)
      /\ ~overlap => run[p].known = Len(ledger) /\ InOrder
  BY <1>2 DEF Stands, HasRead, At
<1>8. "FAILED" \in Reported /\ "FAILED" # "EXITED"
  BY DEF Reported
<1>9. Stands(p)'
  BY <1>1, <1>3, <1>4, <1>5, <1>6, <1>7, <1>8 DEF Stands
<1>. QED BY <1>1, <1>9, Steps DEF At

LEMMA MaterializeSound ==
  ASSUME IInv, NEW p \in Runners, Materialize(p)
  PROVE  IInv'
<1>1. /\ At(p, "inputs") /\ adapter = "subprocess" /\ UNCHANGED files
      /\ UNCHANGED <<input, adapter, receipt, runs, overlap, spent>>
  BY DEF Materialize, History
<1>2. run[p] \in Processes /\ run \in [Runners -> Processes]
  BY DEF IInv, TypeOK
<1>3. PICK x \in {"command", "record"}, o \in Results :
        /\ run' = [run EXCEPT ![p].pc = x, ![p].outcome = o]
        /\ \/ x = "command" /\ o.on = "frozen"
           \/ x = "record" /\ o.end = "FAILED"
  <2>1. CASE input = "frozen"
    <3>1. [end |-> "none", on |-> "frozen"] \in Results
      BY DEF Results
    <3>. QED BY <2>1, <3>1 DEF Materialize, Copied
  <2>2. CASE input # "frozen"
    <3>1. [end |-> "FAILED", on |-> "none"] \in Results
      BY DEF Results, Terminations, Reported
    <3>. QED BY <2>2, <3>1 DEF Materialize, Copied
  <2>. QED BY <2>1, <2>2
<1> DEFINE r == [run[p] EXCEPT !.pc = x, !.outcome = o]
<1>4. run' = [run EXCEPT ![p] = r]
  BY <1>2, <1>3
<1>5. r \in Processes /\ r.pc = x /\ r.known = run[p].known /\ r.outcome = o
  BY <1>2 DEF Processes
<1> HIDE DEF r
<1>. QED BY <1>1, <1>3, <1>4, <1>5, GoesOnInCase

LEMMA MountSound ==
  ASSUME IInv, NEW p \in Runners, Mount(p)
  PROVE  IInv'
<1>1. /\ At(p, "inputs") /\ adapter = "docker" /\ UNCHANGED files
      /\ UNCHANGED <<input, adapter, receipt, runs, overlap, spent>>
  BY DEF Mount, History
<1>2. run[p] \in Processes /\ run \in [Runners -> Processes] /\ input \in {"frozen", "edited"}
  BY DEF IInv, TypeOK
<1> DEFINE o == [end |-> "none", on |-> input]
           r == [run[p] EXCEPT !.pc = "command", !.outcome = o]
<1>3. o \in Results
  BY <1>2 DEF Results
<1>4. run' = [run EXCEPT ![p] = r]
  BY <1>2 DEF Mount
<1> HIDE DEF o
<1>5. r \in Processes /\ r.pc = "command" /\ r.known = run[p].known
  BY <1>2, <1>3 DEF Processes
<1> HIDE DEF r
<1>. QED BY <1>1, <1>4, <1>5, GoesOnInCase

\* The command is started where it never was.
LEMMA ExecuteSound ==
  ASSUME IInv, NEW p \in Runners, NEW end \in Reported, NEW dirty \in BOOLEAN,
         Execute(p, end, dirty)
  PROVE  IInv'
<1>1. /\ At(p, "command") /\ runs' = [runs EXCEPT ![Now(p)] = @ + 1]
      /\ UNCHANGED <<adapter, root, dir, result, ledger, checkpoint, input, receipt, overlap, spent>>
  BY DEF Execute, files
<1>2. TypeOK /\ Stands(p) /\ run[p] \in Processes /\ run \in [Runners -> Processes]
  BY DEF IInv, TypeOK
<1> DEFINE r == [run[p] EXCEPT !.pc = "record", !.outcome.end = end, !.dirty = dirty]
<1>3. run' = [run EXCEPT ![p] = r]
  BY <1>2 DEF Execute
<1>4. /\ r \in Processes /\ r.pc = "record" /\ r.known = run[p].known
      /\ r.outcome.end = end /\ r.outcome.on = run[p].outcome.on
  BY <1>2 DEF Processes, Results, Terminations
<1> HIDE DEF r
<1>5. /\ run' \in [Runners -> Processes] /\ run'[p] = r /\ Now(p)' = Now(p)
      /\ \A q \in Runners : q # p => run'[q] = run[q]
  BY <1>2, <1>3, <1>4, Moved DEF Now
<1>6. /\ OwnsCase(p) /\ runs[Now(p)] = 0 /\ run[p].known < Cases
      /\ adapter = "subprocess" => run[p].outcome.on = "frozen"
      /\ run[p].known <= Len(ledger)
      /\ ~overlap => run[p].known = Len(ledger) /\ InOrder
  BY <1>1, <1>2 DEF Stands, InCase, HasRead, At
<1>7. Now(p) \in Case /\ runs \in [Case -> Nat]
  BY <1>2, <1>6, Types DEF TypeOK
<1>8. /\ runs' \in [Case -> Nat] /\ runs'[Now(p)] = 1
      /\ \A c \in Case : c # Now(p) => runs'[c] = runs[c]
  BY <1>1, <1>6, <1>7
<1>9. TypeOK'
  BY <1>1, <1>2, <1>5, <1>8 DEF TypeOK
<1>10. Alone'
  BY <1>1, <1>4, <1>5 DEF IInv, Alone, At
<1>11. OwnsCase(p)'
  BY <1>1, <1>5, <1>6 DEF OwnsCase, Now
<1>12. InOrder' <=> InOrder
  BY <1>1 DEF InOrder
<1>13. Stands(p)'
  BY <1>1, <1>4, <1>5, <1>6, <1>11, <1>12 DEF Stands
<1>14. \A q \in Runners : Stands(q)'
  BY <1>1, <1>5, <1>8, <1>9, <1>10, <1>13, OthersStand DEF InCase, At
<1>15. LedgerBacked' /\ LedgerOrdered' /\ CheckpointDerived'
  BY <1>1 DEF IInv, Durably, LedgerBacked, LedgerOrdered, CheckpointDerived, Verified
<1>16. Untouched'
  BY <1>1, <1>6, <1>8 DEF IInv, Durably, Untouched, OwnsCase
<1>17. CasesOnce'
  BY <1>8 DEF IInv, Durably, EvidenceStands, CasesOnce
<1>18. RanOnFrozen' /\ ReceiptStays'
  BY <1>1 DEF IInv, Durably, EvidenceStands, RanOnFrozen, ReceiptStays, Complete, LedgerRead,
              Verified
<1>. QED BY <1>9, <1>10, <1>14, <1>15, <1>16, <1>17, <1>18 DEF IInv, Durably, EvidenceStands

\* A result is written where there is none.
LEMMA RecordSound ==
  ASSUME IInv, NEW p \in Runners, Record(p)
  PROVE  IInv' /\ KeepsResults
<1>1. /\ At(p, "record") /\ result' = [result EXCEPT ![Now(p)] = Final(p)]
      /\ UNCHANGED <<adapter, root, dir, ledger, checkpoint, input, receipt, runs, overlap, spent>>
  BY DEF Record, History
<1>2. TypeOK /\ Stands(p) /\ run[p] \in Processes /\ run \in [Runners -> Processes]
  BY DEF IInv, TypeOK
<1>3. /\ OwnsCase(p) /\ run[p].known < Cases /\ run[p].outcome.end \in Reported
      /\ adapter = "subprocess" /\ run[p].outcome.end = "EXITED" => run[p].outcome.on = "frozen"
      /\ run[p].known <= Len(ledger)
      /\ ~overlap => run[p].known = Len(ledger) /\ InOrder
  BY <1>1, <1>2 DEF Stands, InCase, HasRead, At
<1>4. Now(p) \in Case /\ Now(p) \in dir /\ result[Now(p)] = NoResult /\ result \in [Case -> Results]
  BY <1>2, <1>3, Types DEF TypeOK, OwnsCase
<1>5. /\ Final(p) \in Results /\ Final(p).end # "none"
      /\ adapter = "subprocess" /\ Final(p).end = "EXITED" => Final(p).on = "frozen"
  <2>1. run[p].outcome \in Results
    BY <1>2, Types
  <2>. QED BY <1>3, <2>1 DEF Final, Results, Terminations, Reported
<1>6. Final(p) # NoResult
  BY <1>5 DEF NoResult
<1>7. PICK f \in Results : f = Final(p)
  BY <1>5
<1>8. /\ result' \in [Case -> Results] /\ result'[Now(p)] = f
      /\ \A c \in Case : c # Now(p) => result'[c] = result[c]
  BY <1>1, <1>4, <1>7
<1> DEFINE r == [run[p] EXCEPT !.outcome = f, !.dirty = FALSE, !.pc = "append"]
<1>9. run' = [run EXCEPT ![p] = r]
  BY <1>2, <1>7 DEF Record
<1>10. r \in Processes /\ r.pc = "append" /\ r.known = run[p].known
  BY <1>2 DEF Processes
<1> HIDE DEF r
<1>11. /\ run' \in [Runners -> Processes] /\ run'[p] = r /\ Now(p)' = Now(p)
       /\ \A q \in Runners : q # p => run'[q] = run[q]
  BY <1>2, <1>9, <1>10, Moved DEF Now
<1>12. TypeOK'
  BY <1>1, <1>2, <1>8, <1>11 DEF TypeOK
<1>13. Alone'
  BY <1>1, <1>10, <1>11 DEF IInv, Alone, At
<1>14. Verified(Now(p))'
  BY <1>6, <1>7, <1>8, <1>11 DEF Verified
<1>15. InOrder' <=> InOrder
  BY <1>1 DEF InOrder
<1>16. Stands(p)'
  BY <1>1, <1>3, <1>10, <1>11, <1>14, <1>15 DEF Stands, InCase
<1>17. \A q \in Runners : Stands(q)'
  BY <1>1, <1>8, <1>6, <1>7, <1>11, <1>12, <1>13, <1>16, OthersStand DEF InCase, At
<1>18. KeepsResults
  BY <1>4, <1>8 DEF KeepsResults
<1>19. LedgerBacked'
  <2>1. ASSUME NEW i \in DOMAIN ledger, ledger[i] # Torn
        PROVE  result'[ledger[i]] # NoResult
    <3>1. Verified(ledger[i]) /\ ledger[i] \in Case
      BY <1>2, <2>1 DEF IInv, Durably, LedgerBacked, TypeOK
    <3>. QED BY <1>18, <3>1 DEF KeepsResults, Verified
  <2>. QED BY <1>1, <2>1 DEF LedgerBacked, Verified
<1>20. LedgerOrdered' /\ CheckpointDerived'
  BY <1>1 DEF IInv, Durably, LedgerOrdered, CheckpointDerived
<1>21. Untouched'
  BY <1>1, <1>4, <1>8 DEF IInv, Durably, Untouched
<1>22. CasesOnce' /\ RanOnFrozen'
  BY <1>1, <1>5, <1>7, <1>8 DEF IInv, Durably, EvidenceStands, CasesOnce, RanOnFrozen
<1>23. ReceiptStays'
  <2>1. ~(receipt /\ ~overlap)
    BY <1>3 DEF IInv, Durably, EvidenceStands, ReceiptStays, Complete
  <2>. QED BY <1>1, <2>1 DEF ReceiptStays
<1>. QED BY <1>12, <1>13, <1>17, <1>18, <1>19, <1>20, <1>21, <1>22, <1>23
         DEF IInv, Durably, EvidenceStands

\* A line is added to the ledger by a process that knew all of them, or that is not alone.
LEMMA Appended ==
  ASSUME IInv, NEW p \in Runners, NEW r \in Processes, run' = [run EXCEPT ![p] = r],
         NEW x \in Case \cup {Torn}, ledger' = Append(ledger, x), x # Torn => Verified(x),
         ~overlap => InOrder /\ Len(ledger) < Cases /\ x \in {Torn, Len(ledger) + 1},
         ~At(p, "off"), Stands(p)', spent' \in Nat,
         UNCHANGED <<adapter, root, dir, result, checkpoint, input, receipt, runs, overlap>>
  PROVE  IInv'
<1>1. /\ run' \in [Runners -> Processes] /\ run'[p] = r
      /\ \A q \in Runners : q # p => run'[q] = run[q]
  BY Moved DEF IInv
<1>2. /\ ledger \in Seq(Case \cup {Torn}) /\ ledger' \in Seq(Case \cup {Torn})
      /\ Len(ledger) \in Nat /\ Len(ledger') = Len(ledger) + 1
      /\ DOMAIN ledger = 1..Len(ledger) /\ DOMAIN ledger' = 1..(Len(ledger) + 1)
      /\ \A i \in DOMAIN ledger : ledger'[i] = ledger[i]
      /\ ledger'[Len(ledger) + 1] = x
  BY DEF IInv, TypeOK
<1>3. \A i \in DOMAIN ledger' : i \in DOMAIN ledger \/ i = Len(ledger')
  BY <1>2
<1>4. TypeOK'
  BY <1>1, <1>2 DEF IInv, TypeOK
<1>5. Alone'
  BY <1>1 DEF IInv, Alone, At
<1>6. Len(ledger') >= Len(ledger)
  BY <1>2
<1>7. \A q \in Runners : Stands(q)'
  BY <1>1, <1>4, <1>5, <1>6, OthersStand
<1>8. LedgerBacked'
  BY <1>2, <1>3 DEF IInv, Durably, LedgerBacked, Verified
<1>9. LedgerOrdered'
  BY <1>2, <1>3 DEF LedgerOrdered, InOrder
<1>10. CheckpointDerived'
  <2>1. checkpoint.upto \in Nat /\ checkpoint.upto <= Len(ledger)
    BY DEF IInv, Durably, TypeOK, CheckpointDerived
  <2>2. checkpoint.upto <= Len(ledger')
    BY <1>2, <2>1
  <2>. QED BY <2>2 DEF IInv, Durably, CheckpointDerived
<1>11. Untouched'
  BY DEF IInv, Durably, Untouched
<1>12. ReceiptStays'
  <2>1. ~(receipt /\ ~overlap)
    BY DEF IInv, Durably, EvidenceStands, ReceiptStays, Complete
  <2>. QED BY <2>1 DEF ReceiptStays
<1>13. CasesOnce' /\ RanOnFrozen'
  BY DEF IInv, Durably, EvidenceStands, CasesOnce, RanOnFrozen
<1>. QED BY <1>4, <1>5, <1>7, <1>8, <1>9, <1>10, <1>11, <1>12, <1>13
         DEF IInv, Durably, EvidenceStands

LEMMA AppendSound ==
  ASSUME IInv, NEW p \in Runners, AppendEntry(p)
  PROVE  IInv'
<1>1. /\ At(p, "append") /\ ledger' = Append(ledger, Now(p))
      /\ UNCHANGED <<adapter, root, dir, result, checkpoint, input, receipt, runs, overlap, spent>>
  BY DEF AppendEntry, History
<1>2. TypeOK /\ Stands(p) /\ run[p] \in Processes /\ run \in [Runners -> Processes]
      /\ run[p].known \in 0..Cases /\ Cases \in Nat /\ Len(ledger) \in Nat /\ spent \in Nat
  BY Types DEF IInv, TypeOK
<1>3. /\ run[p].known < Cases /\ Verified(Now(p)) /\ run[p].known <= Len(ledger)
      /\ ~overlap => run[p].known = Len(ledger) /\ InOrder
  BY <1>1, <1>2 DEF Stands, HasRead, At
<1>4. Now(p) \in Case /\ Now(p) = run[p].known + 1
  BY <1>2, <1>3, Types DEF Now
<1> DEFINE r == [run[p] EXCEPT !.known = Now(p), !.pc = "repair"]
<1>5. run' = [run EXCEPT ![p] = r]
  BY <1>2, <1>4 DEF AppendEntry
<1>6. r \in Processes /\ r.pc = "repair" /\ r.known = Now(p)
  <2>1. Now(p) \in 0..Cases
    BY <1>4, <1>2 DEF Case
  <2>. QED BY <1>2, <2>1 DEF Processes
<1> HIDE DEF r
<1>7. run'[p] = r
  BY <1>2, <1>5, <1>6, Moved
<1>8. /\ Len(ledger') = Len(ledger) + 1
      /\ DOMAIN ledger' = 1..(Len(ledger) + 1) /\ DOMAIN ledger = 1..Len(ledger)
      /\ \A i \in DOMAIN ledger : ledger'[i] = ledger[i]
      /\ ledger'[Len(ledger) + 1] = Now(p)
  BY <1>1, <1>2, <1>4 DEF TypeOK
<1>9. ASSUME ~overlap
      PROVE  Now(p) = Len(ledger') /\ InOrder'
  <2>1. InOrder /\ Now(p) = Len(ledger) + 1
    BY <1>3, <1>4, <1>9
  <2>2. \A i \in DOMAIN ledger' : i \in DOMAIN ledger \/ i = Len(ledger) + 1
    BY <1>2, <1>8
  <2>. QED BY <1>8, <2>1, <2>2 DEF InOrder
<1>10. Now(p) <= Len(ledger')
  BY <1>2, <1>3, <1>4, <1>8
<1>11. Stands(p)'
  BY <1>1, <1>6, <1>7, <1>9, <1>10 DEF Stands, InCase
<1>12. ~overlap => InOrder /\ Len(ledger) < Cases /\ Now(p) \in {Torn, Len(ledger) + 1}
  BY <1>3, <1>4
<1>13. Now(p) \in Case \cup {Torn}
  BY <1>4
<1>. QED BY <1>1, <1>2, <1>3, <1>5, <1>6, <1>11, <1>12, <1>13, Appended DEF At

(***************************************************************************)
(* Receipts, edits and crashes.                                            *)
(***************************************************************************)
LEMMA IssueSound ==
  ASSUME IInv, IssueReceipt
  PROVE  IInv'
<1>1. /\ Complete /\ receipt' = TRUE
      /\ UNCHANGED <<adapter, root, dir, result, ledger, checkpoint, input, run, runs, overlap, spent>>
  BY DEF IssueReceipt, files
<1>2. TypeOK'
  BY <1>1 DEF IInv, TypeOK
<1>3. Alone'
  BY <1>1 DEF IInv, Alone, At
<1>4. \A q \in Runners : Stands(q)'
  BY <1>1 DEF IInv, Stands, OwnsCase, Now, Verified, InOrder
<1>5. LedgerBacked' /\ LedgerOrdered' /\ CheckpointDerived' /\ Untouched'
  BY <1>1 DEF IInv, Durably, LedgerBacked, LedgerOrdered, CheckpointDerived, Untouched, Verified
<1>6. CasesOnce' /\ RanOnFrozen'
  BY <1>1 DEF IInv, Durably, EvidenceStands, CasesOnce, RanOnFrozen
<1>7. ReceiptStays'
  BY <1>1 DEF ReceiptStays, Complete, LedgerRead, Verified
<1>. QED BY <1>2, <1>3, <1>4, <1>5, <1>6, <1>7 DEF IInv, Durably, EvidenceStands

LEMMA EditSound ==
  ASSUME IInv, Edit
  PROVE  IInv'
<1>1. /\ input' \in {"frozen", "edited"} /\ spent' = spent + 1 /\ UNCHANGED files
      /\ UNCHANGED <<adapter, root, dir, result, ledger, checkpoint, run, receipt, runs, overlap>>
  BY DEF Edit, files
<1>2. TypeOK'
  BY <1>1 DEF IInv, TypeOK
<1>3. Alone'
  BY <1>1 DEF IInv, Alone, At
<1>4. \A q \in Runners : Stands(q)'
  BY <1>1 DEF IInv, Stands, OwnsCase, Now, Verified, InOrder
<1>5. Durably'
  BY <1>1, FilesSame
<1>. QED BY <1>2, <1>3, <1>4, <1>5 DEF IInv

LEMMA CrashSound ==
  ASSUME IInv, NEW p \in Runners, Crash(p)
  PROVE  IInv'
<1>1. /\ run' = [run EXCEPT ![p] = Off] /\ spent' = spent + 1 /\ UNCHANGED files
      /\ UNCHANGED <<adapter, root, dir, result, ledger, checkpoint, input, receipt, runs, overlap>>
  BY DEF Crash, Die, Raise, files
<1>2. /\ run' \in [Runners -> Processes] /\ run'[p] = Off
      /\ \A q \in Runners : q # p => run'[q] = run[q]
  BY <1>1, OffIs, Moved DEF IInv
<1>3. TypeOK'
  BY <1>1, <1>2 DEF IInv, TypeOK
<1>4. Alone'
  BY <1>1, <1>2, OffIs DEF IInv, Alone, At
<1>5. Stands(p)'
  BY <1>2, OffIs, OffStands
<1>6. \A q \in Runners : Stands(q)'
  BY <1>1, <1>2, <1>3, <1>4, <1>5, OthersStand
<1>7. Durably'
  BY <1>1, FilesSame
<1>. QED BY <1>3, <1>4, <1>6, <1>7 DEF IInv

LEMMA CrashTornSound ==
  ASSUME IInv, NEW p \in Runners, CrashTorn(p)
  PROVE  IInv'
<1>1. /\ At(p, "append") /\ run' = [run EXCEPT ![p] = Off] /\ spent' = spent + 1
      /\ ledger' = Append(ledger, Torn)
      /\ UNCHANGED <<adapter, root, dir, result, checkpoint, input, receipt, runs, overlap>>
  BY DEF CrashTorn, Die, Raise
<1>2. TypeOK /\ Stands(p) /\ spent' \in Nat
  BY <1>1 DEF IInv, TypeOK
<1>3. run'[p].pc = "off"
  BY <1>1, <1>2, OffIs, Moved
<1>4. ~overlap => InOrder /\ Len(ledger) < Cases
  BY <1>1, <1>2 DEF Stands, HasRead, At
<1>5. Stands(p)'
  BY <1>3, OffStands
<1>. QED BY <1>1, <1>2, <1>4, <1>5, OffIs, Appended DEF At

(***************************************************************************)
(* The invariant.                                                          *)
(***************************************************************************)
LEMMA InitSound == Init => IInv
<1> SUFFICES ASSUME Init
             PROVE  IInv
  OBVIOUS
<1>1. /\ adapter \in {"subprocess", "docker"} /\ root = "none" /\ dir = {} /\ ledger = <<>>
      /\ result = [c \in Case |-> NoResult] /\ checkpoint = NoCheckpoint /\ input = "frozen"
      /\ run = [p \in Runners |-> Off] /\ receipt = FALSE /\ runs = [c \in Case |-> 0]
      /\ overlap = FALSE /\ spent = 0
  BY DEF Init
<1>2. NoResult \in Results /\ NoResult.end = "none" /\ 0 \in 0..Cases
  BY ExperimentAssumption DEF NoResult, Results
<1>3. /\ NoCheckpoint \in [count : 0..Cases, upto : Nat, there : BOOLEAN]
      /\ NoCheckpoint.count = 0 /\ NoCheckpoint.upto = 0
  BY <1>2 DEF NoCheckpoint
<1>4. ledger \in Seq(Case \cup {Torn}) /\ Len(ledger) = 0 /\ DOMAIN ledger = {}
  BY <1>1
<1>5. TypeOK
  BY <1>1, <1>2, <1>3, <1>4, OffIs DEF TypeOK
<1>6. \A p \in Runners : run[p].pc = "off"
  BY <1>1, OffIs
<1>7. Alone /\ \A p \in Runners : Stands(p)
  BY <1>6 DEF Alone, At, Stands, InCase, HasRead
<1>8. LedgerBacked /\ LedgerOrdered /\ CheckpointDerived
  BY <1>1, <1>3, <1>4 DEF LedgerBacked, LedgerOrdered, CheckpointDerived
<1>9. Untouched /\ CasesOnce
  BY <1>1 DEF Untouched, CasesOnce
<1>10. RanOnFrozen /\ ReceiptStays
  BY <1>1, <1>2 DEF RanOnFrozen, ReceiptStays
<1>. QED BY <1>5, <1>7, <1>8, <1>9, <1>10 DEF IInv, Durably, EvidenceStands

LEMMA NextSound ==
  ASSUME IInv, [Next]_vars
  PROVE  IInv' /\ KeepsResults
<1>1. ASSUME NEW p \in Runners, Step(p) \/ Crash(p) \/ CrashTorn(p), ~Record(p)
      PROVE  IInv' /\ UNCHANGED result
  <2>1. CASE MakeRoot(p)
    BY <2>1, MakeRootSound DEF MakeRoot
  <2>2. CASE FreezeManifest(p)
    BY <2>2, FreezeSound DEF FreezeManifest
  <2>3. CASE Reopen(p)
    BY <2>3, ReopenSound DEF Reopen, files
  <2>4. CASE ReadLedger(p)
    BY <2>4, ReadSound DEF ReadLedger, files
  <2>5. CASE Repair(p)
    BY <2>5, RepairSound DEF Repair
  <2>6. CASE InputsChanged(p)
    BY <2>6, InputsChangedSound DEF InputsChanged, files
  <2>7. CASE NewCase(p)
    BY <2>7, NewCaseSound DEF NewCase
  <2>8. CASE OldCase(p)
    BY <2>8, OldCaseSound DEF OldCase, files
  <2>9. CASE Materialize(p)
    BY <2>9, MaterializeSound DEF Materialize, files
  <2>10. CASE Mount(p)
    BY <2>10, MountSound DEF Mount, files
  <2>11. ASSUME NEW end \in Reported, NEW dirty \in BOOLEAN, Execute(p, end, dirty)
         PROVE  IInv' /\ UNCHANGED result
    BY <2>11, ExecuteSound DEF Execute, files
  <2>12. CASE AppendEntry(p)
    BY <2>12, AppendSound DEF AppendEntry
  <2>13. CASE Close(p)
    BY <2>13, CloseSound DEF Close
  <2>14. CASE Leave(p)
    BY <2>14, LeaveSound DEF Leave, files
  <2>15. CASE Crash(p)
    BY <2>15, CrashSound DEF Crash, Die
  <2>16. CASE CrashTorn(p)
    BY <2>16, CrashTornSound DEF CrashTorn, Die
  <2>. QED BY <1>1, <2>1, <2>2, <2>3, <2>4, <2>5, <2>6, <2>7, <2>8, <2>9, <2>10, <2>11, <2>12,
              <2>13, <2>14, <2>15, <2>16 DEF Step
<1>2. ASSUME NEW p \in Runners, NEW resume \in BOOLEAN, Start(p, resume)
      PROVE  IInv' /\ UNCHANGED result
  BY <1>2, StartSound DEF Start, files
<1>3. CASE IssueReceipt
  BY <1>3, IssueSound DEF IssueReceipt, files, KeepsResults
<1>4. CASE Edit
  BY <1>4, EditSound DEF Edit, files, KeepsResults
<1>5. CASE UNCHANGED vars
  <2>1. UNCHANGED result /\ UNCHANGED files /\ UNCHANGED <<adapter, root, dir, result, ledger,
          checkpoint, input, run, receipt, runs, overlap, spent>>
    BY <1>5 DEF vars, files
  <2>2. TypeOK' /\ Alone'
    BY <2>1 DEF IInv, TypeOK, Alone, At
  <2>3. \A q \in Runners : Stands(q)'
    BY <2>1 DEF IInv, Stands, OwnsCase, Now, Verified, InOrder
  <2>4. Durably'
    BY <2>1, FilesSame
  <2>. QED BY <2>1, <2>2, <2>3, <2>4 DEF IInv, KeepsResults
<1>6. ASSUME NEW p \in Runners, Record(p)
      PROVE  IInv' /\ KeepsResults
  BY <1>6, RecordSound
<1>7. UNCHANGED result => KeepsResults
  BY DEF KeepsResults
<1>. QED BY <1>1, <1>2, <1>3, <1>4, <1>5, <1>6, <1>7 DEF Next

\* The inductive invariant holds in every state of every behaviour.
THEOREM Invariance == Spec => []IInv
<1>1. IInv /\ [Next]_vars => IInv'
  BY NextSound
<1>. QED BY InitSound, <1>1, PTL DEF Spec

(***************************************************************************)
(* Results, ledger and checkpoint agree after any crash and with any       *)
(* number of processes: every whole line has its durable result, the lines *)
(* of processes that did not overlap are the cases in order, and the       *)
(* checkpoint counts no case whose line its digest does not cover (run,    *)
(* _read_and_verify_ledger and _repair_checkpoint).                        *)
(***************************************************************************)
THEOREM LedgerAgrees == Spec => []LedgerSound
<1>1. IInv => LedgerSound
  BY DEF IInv, Durably, LedgerSound
<1>. QED BY <1>1, Invariance, PTL

(***************************************************************************)
(* The command of a case is started once and its result never replaced;    *)
(* a subprocess that exited worked on the frozen inputs; and a receipt     *)
(* stays good, whatever is started again (_execute_case, run and           *)
(* verify_receipt).                                                        *)
(***************************************************************************)
THEOREM EvidenceStays == Spec => EvidenceSound
<1>1. IInv => CasesOnce /\ RanOnFrozen /\ ReceiptStays
  BY DEF IInv, Durably, EvidenceStands
<1>2. IInv /\ [Next]_vars => [KeepsResults]_vars
  BY NextSound
<1>. QED BY <1>1, <1>2, Invariance, PTL DEF Spec, EvidenceSound, EvidenceKept

(***************************************************************************)
(* What is on a wire: w is the sequence of messages the client has not     *)
(* read, k and state the number and the state of the turn at the server.   *)
(***************************************************************************)
Notes == {"started", "completed"}
AnswerKinds == {"answered", "answeredEnded", "rejected"}
Messages == [kind : Notes \cup AnswerKinds \cup {"interrupted"}, id : Ids]
OwnIds(k) == {Stream(k), <<k, "answer">>}

\* A message that the server may have sent before this moment.
Sound(m, k, state) ==
  /\ m \in Messages
  /\ m.kind \in Notes => m.id = Foreign \/ \E j \in 1 .. k : m.id = Stream(j)
  /\ m.kind \in {"answered", "answeredEnded"} => m.id \in OwnIds(k)
  /\ m.kind \in {"rejected", "interrupted"} => m.id = None
  /\ m = Message("started", Stream(k)) => state \in {"running", "ended"} \/ k = 0
  /\ m = Message("completed", Stream(k)) => state = "ended" \/ k = 0
  /\ m.kind = "answeredEnded" => state = "ended"
AllSound(w, k, state) == w \in Seq(Messages) /\ \A i \in 1 .. Len(w) : Sound(w[i], k, state)

\* The answer of the turn/start request is on the wire at most once.
NoAnswer(w) == \A i \in 1 .. Len(w) : w[i].kind \notin AnswerKinds
OneAnswer(w) ==
  \A i, j \in 1 .. Len(w) : w[i].kind \in AnswerKinds /\ w[j].kind \in AnswerKinds => i = j

\* The start of turn k, and whatever tells of its end.
HasStart(w, k) == \E i \in 1 .. Len(w) : w[i] = Message("started", Stream(k))
Ends(m, k) == m = Message("completed", Stream(k)) \/ m.kind = "answeredEnded"
Preceded(w, k) ==
  \A i \in 1 .. Len(w) : Ends(w[i], k) => \E j \in 1 .. i - 1 : w[j] = Message("started", Stream(k))

(***************************************************************************)
(* The inductive invariant, thread by thread.                              *)
(***************************************************************************)
Waits == {"waiting", "abandoning", "timed_out", "grace"}
Stops == {"stopping", "refused"}
Stages == Waits \cup Stops \cup {"idle", "starting", "over"}
Calls == [at : Stages, turn : 0 .. MaxTurns, reply : Replies, answer : Ids, key : Ids,
          waiter : {"none", "pending", "done", "closed"}, with : Ids, blind : BOOLEAN]
Servers == [turn : 0 .. MaxTurns, state : {"none", "asked", "running", "ended"},
            answered : BOOLEAN, native : {"no", "running", "ended"}]
Ended == [call : 0 .. MaxTurns, done : Ids, text : Ids, mistaken : BOOLEAN]

Typed ==
  /\ link \in {"up", "stalled", "closed"} /\ failed \in BOOLEAN /\ extras \in 0 .. MaxExtras
  /\ wire \in [Threads -> Seq(Messages)]
  /\ server \in [Threads -> Servers] /\ call \in [Threads -> Calls]
  /\ open \subseteq Threads
  /\ owned \in [Threads -> SUBSET (Ids \ {None})] /\ count \in [Threads -> {0, 1}]
  /\ unmanaged \in [Threads -> SUBSET (Ids \ {None})]
  /\ notified \in [Threads -> Ids] /\ buffered \in [Threads -> Ids] /\ first \in [Threads -> Ids]
  /\ retired \in [Threads -> SUBSET (Ids \ {None})] /\ messages \in [Threads -> SUBSET (Ids \ {None})]
  /\ results \in [Threads -> Seq(Ended)]
  /\ interrupts \subseteq [thread : Threads, turn : Ids, for : Ids \cup {Asked}]

\* The server knows the turn of the call, and a call at work is owned.
Placed(t) ==
  /\ call[t].turn = server[t].turn
  /\ server[t].state # "none" => server[t].turn >= 1
  /\ t \in open => call[t].at # "idle" /\ server[t].turn >= 1
  /\ call[t].at \notin {"idle", "over"} => t \in open
  /\ call[t].at \in Waits <=> call[t].waiter # "none"
  /\ call[t].at \in Stops => ~call[t].blind
  /\ t \in open /\ call[t].at \notin {"starting", "waiting"} => call[t].blind \/ notified[t] # None
  /\ call[t].at \in {"idle", "over"} => call[t].reply = "none"
  /\ call[t].reply = "closed" \/ call[t].waiter = "closed" => link # "up"

\* The answer of a request is consumed before the next request.
AnswerRead(t) ==
  /\ OneAnswer(wire[t])
  /\ server[t].answered \/ NoAnswer(wire[t])
  /\ call[t].at \in Waits \cup {"idle"} => server[t].answered /\ NoAnswer(wire[t])
  /\ call[t].at = "starting" =>
       /\ call[t].reply \in {"pending", "closed"} \cup AnswerKinds
       /\ call[t].reply \in AnswerKinds => server[t].answered /\ NoAnswer(wire[t])
  /\ (call[t].at = "starting" /\ call[t].reply \in {"answered", "answeredEnded"}) \/ call[t].at \in Waits
       => call[t].answer \in OwnIds(server[t].turn)
  /\ call[t].reply = "answeredEnded" => server[t].state = "ended"

\* Ids of turns to come are not known, and what the call waits for is not retired.
Numbered(t) ==
  /\ {call[t].key[1], call[t].with[1], notified[t][1], buffered[t][1]} \subseteq 0 .. server[t].turn
  /\ \A id \in retired[t] : id[1] <= server[t].turn /\ (t \in open => id[1] < server[t].turn)
  /\ t \in open => call[t].with \notin retired[t] /\ buffered[t] \notin retired[t]
  /\ call[t].waiter = "done" <=> call[t].with # None

\* What calls returned is retired, and was theirs.
Returned(t) ==
  \A i \in 1 .. Len(results[t]) :
    /\ results[t][i].done \in retired[t]
    /\ \A j \in 1 .. Len(results[t]) : i # j => results[t][i].done # results[t][j].done
    /\ \/ \E j \in 1 .. i : results[t][j].mistaken
       \/ (results[t][i].done[1] = results[t][i].call /\ results[t][i].text[1] \in {0, results[t][i].call})

\* As long as the client was not misled, every turn before this one is
\* retired, and the only turn it takes for its own is its own.
Deceived(t) == \E i \in 1 .. Len(results[t]) : results[t][i].mistaken
Retires(t) ==
  ~Deceived(t) =>
    /\ t \in open /\ first[t] # Foreign => \A j \in 1 .. server[t].turn - 1 : Stream(j) \in retired[t]
    /\ call[t].at = "idle" => \A j \in 1 .. server[t].turn : Stream(j) \in retired[t]

Keeps(t) ==
  LET k == server[t].turn IN
    t \in open /\ ~Misled(t) =>
      /\ notified[t] \in {None, Stream(k)} /\ first[t] = notified[t]
      /\ (notified[t] = None) = (count[t] = 0)
      /\ notified[t] = Stream(k) => notified[t] \in owned[t] /\ server[t].state \in {"running", "ended"}
      /\ owned[t] \subseteq OwnIds(k)
      /\ buffered[t] \in {None, Stream(k)}
      /\ buffered[t] = Stream(k) \/ call[t].waiter = "done" \/ call[t].reply = "answeredEnded"
           => server[t].state = "ended" /\ notified[t] = Stream(k)
      /\ call[t].waiter # "none" => call[t].key \in OwnIds(k)
      /\ call[t].waiter = "done" => call[t].with \in OwnIds(k) /\ Stream(k) \in {call[t].with, call[t].key}

Streams(t) ==
  LET k == server[t].turn IN
    t \in open /\ ~Misled(t) =>
      /\ notified[t] = Stream(k) \/ Preceded(wire[t], k)
      /\ server[t].state \in {"running", "ended"} /\ link # "closed"
           => notified[t] = Stream(k) \/ HasStart(wire[t], k)

\* The client knows of a turn only what the server has said of it.
Seen(t) ==
  notified[t] = Stream(server[t].turn) /\ server[t].turn >= 1 => server[t].state \in {"running", "ended"}

\* What start_turn interrupts.
Aimed(t) ==
  \A i \in interrupts :
    i.thread = t /\ i.for = None =>
      /\ call[t].at \in Stops \cup (Waits \ {"waiting"}) \cup {"over"}
      /\ call[t].at # "over" => i.turn[1] = server[t].turn \/ Misled(t)

StopsTurn(t) ==
  call[t].at \in Stops \cup (Waits \ {"waiting"}) \cup {"over"} /\ notified[t] = Stream(server[t].turn)
    /\ link = "up" /\ server[t].state = "running" /\ ~Misled(t) /\ ~call[t].blind
    => \E i \in interrupts : i.thread = t /\ i.turn = Stream(server[t].turn)

ThreadInv(t) ==
  /\ AllSound(wire[t], server[t].turn, server[t].state)
  /\ Placed(t) /\ AnswerRead(t) /\ Numbered(t) /\ Returned(t) /\ Retires(t)
  /\ Keeps(t) /\ Streams(t) /\ Seen(t) /\ Aimed(t) /\ StopsTurn(t)

OwnershipInv == Typed /\ \A t \in Threads : ThreadInv(t)

(***************************************************************************)
(* Facts about ids and about messages on a wire.                           *)
(***************************************************************************)
LEMMA IdFacts ==
  /\ None \in Ids /\ Foreign \in Ids /\ None # Foreign /\ None[1] = 0 /\ Foreign[1] = 0
  /\ Asked \notin Ids
  /\ \A id \in Ids : id[1] \in 0 .. MaxTurns
  /\ \A k \in Nat : Stream(k) # None
BY TurnAssumption DEF Ids, None, Foreign, Asked, Stream

LEMMA StreamFacts ==
  ASSUME NEW k \in 1 .. MaxTurns
  PROVE  /\ Stream(k) \in Ids \ {None, Foreign} /\ Stream(k)[1] = k
         /\ \A id \in OwnIds(k) : id \in Ids \ {None, Foreign} /\ id[1] = k
         /\ Stream(k) \in OwnIds(k) /\ <<k, "answer">> \in OwnIds(k)
         /\ \A j \in Nat : Stream(j) = Stream(k) => j = k
BY TurnAssumption DEF Ids, None, Foreign, Stream, OwnIds

LEMMA MessageFacts ==
  ASSUME NEW kind, NEW id
  PROVE  /\ Message(kind, id).kind = kind /\ Message(kind, id).id = id
         /\ \A a, b : Message(kind, id) = Message(a, b) => kind = a /\ id = b
BY DEF Message

\* A message is known by its kind and its id.
LEMMA MessageIs ==
  ASSUME NEW m \in Messages, NEW kind, NEW id
  PROVE  m = Message(kind, id) <=> m.kind = kind /\ m.id = id
BY DEF Messages, Message

LEMMA SoundStarted ==
  ASSUME NEW k \in 1 .. MaxTurns
  PROVE  Sound(Message("started", Stream(k)), k, "running")
<1>1. Message("started", Stream(k)) \in Messages
  BY StreamFacts DEF Message, Messages, Notes
<1> QED
  BY <1>1, MessageFacts DEF Sound, Notes

LEMMA SoundCompleted ==
  ASSUME NEW k \in 1 .. MaxTurns
  PROVE  Sound(Message("completed", Stream(k)), k, "ended")
<1>1. Message("completed", Stream(k)) \in Messages
  BY StreamFacts DEF Message, Messages, Notes
<1> QED
  BY <1>1, MessageFacts DEF Sound, Notes

LEMMA SoundForeign ==
  ASSUME NEW k \in 0 .. MaxTurns, NEW state, NEW kind \in Notes
  PROVE  Sound(Message(kind, Foreign), k, state)
<1>1. Message(kind, Foreign) \in Messages
  BY IdFacts DEF Message, Messages, Notes
<1>2. Foreign = Stream(k) => k = 0
  BY DEF Foreign, Stream
<1> QED
  BY <1>1, <1>2, MessageFacts DEF Sound, Notes

LEMMA SoundAnswer ==
  ASSUME NEW k \in 1 .. MaxTurns, NEW state, NEW id \in OwnIds(k)
  PROVE  /\ Sound(Message("answered", id), k, state)
         /\ state = "ended" => Sound(Message("answeredEnded", id), k, state)
<1>1. Message("answered", id) \in Messages /\ Message("answeredEnded", id) \in Messages
  BY StreamFacts DEF Message, Messages, Notes, AnswerKinds
<1> QED
  BY <1>1, MessageFacts DEF Sound, Notes

LEMMA SoundReply ==
  ASSUME NEW k \in 0 .. MaxTurns, NEW state, NEW kind \in {"rejected", "interrupted"}
  PROVE  Sound(Message(kind, None), k, state)
<1>1. Message(kind, None) \in Messages
  BY IdFacts DEF Message, Messages, Notes, AnswerKinds
<1> QED
  BY <1>1, MessageFacts DEF Sound, Notes

\* What the server sends joins the end of the wire.
LEMMA Sent ==
  ASSUME NEW w \in Seq(Messages), NEW m \in Messages
  PROVE  /\ Append(w, m) \in Seq(Messages) /\ Len(Append(w, m)) = Len(w) + 1 /\ Len(w) \in Nat
         /\ \A i \in 1 .. Len(w) : Append(w, m)[i] = w[i] /\ w[i] \in Messages
         /\ Append(w, m)[Len(w) + 1] = m
         /\ w \o <<m>> = Append(w, m) /\ w \o <<>> = w
OBVIOUS

\* What the client reads leaves its front.
LEMMA Read ==
  ASSUME NEW w \in Seq(Messages), w # <<>>
  PROVE  /\ Tail(w) \in Seq(Messages) /\ Len(Tail(w)) = Len(w) - 1 /\ Len(w) \in Nat \ {0}
         /\ Head(w) = w[1] /\ Head(w) \in Messages
         /\ \A i \in 1 .. Len(w) - 1 : Tail(w)[i] = w[i + 1]
         /\ \A i \in 1 .. Len(w) : w[i] \in Messages
OBVIOUS

(***************************************************************************)
(* A wire that grows, and one that is read.                                *)
(***************************************************************************)
LEMMA SoundGrows ==
  ASSUME NEW k, NEW state, NEW w, AllSound(w, k, state), NEW m, Sound(m, k, state)
  PROVE  AllSound(Append(w, m), k, state)
<1>1. w \in Seq(Messages) /\ m \in Messages
  BY DEF AllSound, Sound
<1>2. ASSUME NEW i \in 1 .. Len(w) + 1
      PROVE  Sound(Append(w, m)[i], k, state)
  BY <1>1, Sent DEF AllSound
<1> QED
  BY <1>1, <1>2, Sent DEF AllSound

LEMMA SoundRead ==
  ASSUME NEW k, NEW state, NEW w, AllSound(w, k, state), w # <<>>
  PROVE  AllSound(Tail(w), k, state) /\ Sound(Head(w), k, state)
<1>1. w \in Seq(Messages)
  BY DEF AllSound
<1>2. ASSUME NEW i \in 1 .. Len(w) - 1
      PROVE  Sound(Tail(w)[i], k, state)
  BY <1>1, <1>2, Read DEF AllSound
<1> QED
  BY <1>1, <1>2, Read DEF AllSound

\* The turn goes on: what was true of it stays true.
LEMMA SoundLater ==
  ASSUME NEW k, NEW state, NEW later, NEW w, AllSound(w, k, state),
         state = "running" => later \in {"running", "ended"},
         state = "ended" => later = "ended"
  PROVE  AllSound(w, k, later)
BY DEF AllSound, Sound

\* The next turn is requested when no answer is on the wire.
LEMMA SoundNext ==
  ASSUME NEW k \in 0 .. MaxTurns - 1, NEW state, NEW later, NEW w, AllSound(w, k, state), NoAnswer(w)
  PROVE  AllSound(w, k + 1, later)
<1>1. w \in Seq(Messages) /\ k \in Nat
  BY TurnAssumption DEF AllSound
<1>2. ASSUME NEW i \in 1 .. Len(w)
      PROVE  Sound(w[i], k + 1, later)
  <2>1. w[i] \in Messages /\ w[i].kind \notin AnswerKinds /\ Sound(w[i], k, state)
    BY <1>1 DEF AllSound, NoAnswer
  <2>2. w[i].kind \in Notes => w[i].id = Foreign \/ \E j \in 1 .. k : w[i].id = Stream(j)
    BY <2>1, Zenon DEF Sound
  <2>3. w[i].kind \in Notes => w[i].id # Stream(k + 1)
    BY <1>1, <2>2, TurnAssumption DEF Foreign, Stream
  <2>4. \A j \in 1 .. k : j \in 1 .. k + 1
    BY <1>1
  <2>5. w[i].kind = "interrupted" => w[i].id = None
    BY <2>1 DEF Sound
  <2>6. w[i] # Message("started", Stream(k + 1)) /\ w[i] # Message("completed", Stream(k + 1))
    BY <2>1, <2>3, MessageIs DEF Notes
  <2> QED
    BY <2>1, <2>2, <2>4, <2>5, <2>6 DEF Sound, AnswerKinds
<1> QED
  BY <1>1, <1>2 DEF AllSound

LEMMA AnswersGrow ==
  ASSUME NEW w \in Seq(Messages), NEW m \in Messages
  PROVE  /\ NoAnswer(w) => OneAnswer(Append(w, m)) /\ OneAnswer(w)
         /\ m.kind \notin AnswerKinds /\ NoAnswer(w) => NoAnswer(Append(w, m))
         /\ m.kind \notin AnswerKinds /\ OneAnswer(w) => OneAnswer(Append(w, m))
<1>1. \A i \in 1 .. Len(w) + 1 : i \in 1 .. Len(w) \/ i = Len(w) + 1
  BY Sent
<1> QED
  BY <1>1, Sent DEF NoAnswer, OneAnswer

LEMMA AnswersRead ==
  ASSUME NEW w \in Seq(Messages), w # <<>>
  PROVE  /\ NoAnswer(w) => NoAnswer(Tail(w)) /\ Head(w).kind \notin AnswerKinds
         /\ OneAnswer(w) => OneAnswer(Tail(w))
         /\ OneAnswer(w) /\ Head(w).kind \in AnswerKinds => NoAnswer(Tail(w))
<1>1. \A i \in 1 .. Len(Tail(w)) : i + 1 \in 1 .. Len(w) /\ i + 1 # 1 /\ Tail(w)[i] = w[i + 1]
  BY Read
<1>2. 1 \in 1 .. Len(w) /\ Head(w) = w[1]
  BY Read
<1>3. \A i, j \in 1 .. Len(Tail(w)) : i + 1 = j + 1 => i = j
  OBVIOUS
<1>4. NoAnswer(w) => NoAnswer(Tail(w)) /\ Head(w).kind \notin AnswerKinds
  BY <1>1, <1>2 DEF NoAnswer
<1>5. OneAnswer(w) => OneAnswer(Tail(w))
  BY <1>1, <1>3 DEF OneAnswer
<1>6. OneAnswer(w) /\ Head(w).kind \in AnswerKinds => NoAnswer(Tail(w))
  BY <1>1, <1>2 DEF OneAnswer, NoAnswer
<1> QED
  BY <1>4, <1>5, <1>6

LEMMA StartGrows ==
  ASSUME NEW w \in Seq(Messages), NEW m \in Messages, NEW k
  PROVE  /\ HasStart(w, k) => HasStart(Append(w, m), k)
         /\ m = Message("started", Stream(k)) => HasStart(Append(w, m), k)
         /\ Preceded(w, k) /\ ~Ends(m, k) => Preceded(Append(w, m), k)
         /\ Preceded(w, k) /\ HasStart(w, k) => Preceded(Append(w, m), k)
<1>1. /\ Len(Append(w, m)) = Len(w) + 1 /\ Len(w) \in Nat
      /\ \A i \in 1 .. Len(w) : Append(w, m)[i] = w[i] /\ i \in 1 .. Len(w) + 1
      /\ Append(w, m)[Len(w) + 1] = m
  BY Sent
<1>2. HasStart(w, k) => HasStart(Append(w, m), k)
  BY <1>1 DEF HasStart
<1>3. m = Message("started", Stream(k)) => HasStart(Append(w, m), k)
  BY <1>1 DEF HasStart
<1>4. ASSUME Preceded(w, k), ~Ends(m, k) \/ HasStart(w, k), NEW i \in 1 .. Len(w) + 1, Ends(Append(w, m)[i], k)
      PROVE  \E j \in 1 .. i - 1 : Append(w, m)[j] = Message("started", Stream(k))
  <2>1. CASE i = Len(w) + 1
    <3>1. PICK j \in 1 .. Len(w) : w[j] = Message("started", Stream(k))
      BY <1>1, <1>4, <2>1 DEF HasStart
    <3> QED
      BY <1>1, <2>1, <3>1
  <2>2. CASE i \in 1 .. Len(w)
    <3>1. PICK j \in 1 .. i - 1 : w[j] = Message("started", Stream(k))
      BY <1>1, <1>4, <2>2 DEF Preceded
    <3> QED
      BY <1>1, <2>2, <3>1
  <2> QED
    BY <1>1, <1>4, <2>1, <2>2
<1> QED
  BY <1>1, <1>2, <1>3, <1>4 DEF Preceded

LEMMA StartRead ==
  ASSUME NEW w \in Seq(Messages), w # <<>>, NEW k
  PROVE  /\ HasStart(w, k) => HasStart(Tail(w), k) \/ Head(w) = Message("started", Stream(k))
         /\ Preceded(w, k) => Preceded(Tail(w), k) \/ Head(w) = Message("started", Stream(k))
         /\ Preceded(w, k) => ~Ends(Head(w), k)
<1>1. /\ Len(Tail(w)) = Len(w) - 1 /\ Len(w) \in Nat \ {0} /\ Head(w) = w[1]
      /\ \A i \in 1 .. Len(w) - 1 : Tail(w)[i] = w[i + 1]
  BY Read
<1>2. ASSUME HasStart(w, k), Head(w) # Message("started", Stream(k))
      PROVE  HasStart(Tail(w), k)
  <2>1. PICK i \in 1 .. Len(w) : w[i] = Message("started", Stream(k))
    BY <1>2 DEF HasStart
  <2>2. i # 1 /\ i - 1 \in 1 .. Len(w) - 1 /\ (i - 1) + 1 = i
    BY <1>1, <1>2, <2>1
  <2> QED
    BY <1>1, <2>1, <2>2 DEF HasStart
<1>3. ASSUME Preceded(w, k), Head(w) # Message("started", Stream(k)),
             NEW i \in 1 .. Len(w) - 1, Ends(Tail(w)[i], k)
      PROVE  \E j \in 1 .. i - 1 : Tail(w)[j] = Message("started", Stream(k))
  <2>1. i + 1 \in 1 .. Len(w) /\ Ends(w[i + 1], k)
    BY <1>1, <1>3
  <2>2. PICK j \in 1 .. i : w[j] = Message("started", Stream(k))
    BY <1>3, <2>1 DEF Preceded
  <2>3. j # 1 /\ j - 1 \in 1 .. i - 1 /\ j - 1 \in 1 .. Len(w) - 1 /\ (j - 1) + 1 = j
    BY <1>1, <1>3, <2>2
  <2> QED
    BY <1>1, <2>2, <2>3
<1>4. Preceded(w, k) => ~Ends(Head(w), k)
  BY <1>1 DEF Preceded
<1> QED
  BY <1>1, <1>2, <1>3, <1>4 DEF Preceded

LEMMA NothingSent ==
  ASSUME NEW k, NEW state
  PROVE  AllSound(<<>>, k, state) /\ NoAnswer(<<>>) /\ OneAnswer(<<>>) /\ Preceded(<<>>, k)
BY DEF AllSound, NoAnswer, OneAnswer, Preceded

LEMMA NotEnded ==
  ASSUME NEW k \in Nat \ {0}, NEW state, state # "ended", NEW w, AllSound(w, k, state)
  PROVE  Preceded(w, k)
BY DEF AllSound, Sound, Ends, Preceded

(***************************************************************************)
(* One thread, and the others.                                             *)
(***************************************************************************)
LEMMA ThreadTypes ==
  ASSUME Typed, NEW t \in Threads
  PROVE  /\ wire[t] \in Seq(Messages)
         /\ server[t] \in Servers /\ server[t].turn \in 0 .. MaxTurns
         /\ server[t].state \in {"none", "asked", "running", "ended"} /\ server[t].answered \in BOOLEAN
         /\ call[t] \in Calls /\ call[t].at \in Stages /\ call[t].turn \in 0 .. MaxTurns
         /\ call[t].reply \in Replies /\ call[t].waiter \in {"none", "pending", "done", "closed"}
         /\ call[t].answer \in Ids /\ call[t].key \in Ids /\ call[t].with \in Ids /\ call[t].blind \in BOOLEAN
         /\ owned[t] \subseteq Ids \ {None} /\ count[t] \in {0, 1} /\ unmanaged[t] \subseteq Ids \ {None}
         /\ notified[t] \in Ids /\ buffered[t] \in Ids /\ first[t] \in Ids
         /\ retired[t] \subseteq Ids \ {None} /\ messages[t] \subseteq Ids \ {None}
         /\ results[t] \in Seq(Ended)
<1>1. server[t] \in Servers /\ call[t] \in Calls
  BY DEF Typed
<1>2. /\ server[t].turn \in 0 .. MaxTurns /\ server[t].answered \in BOOLEAN
      /\ server[t].state \in {"none", "asked", "running", "ended"}
  BY <1>1 DEF Servers
<1>3. /\ call[t].at \in Stages /\ call[t].turn \in 0 .. MaxTurns
      /\ call[t].reply \in Replies /\ call[t].waiter \in {"none", "pending", "done", "closed"}
      /\ call[t].answer \in Ids /\ call[t].key \in Ids /\ call[t].with \in Ids /\ call[t].blind \in BOOLEAN
  BY <1>1 DEF Calls
<1>4. /\ wire[t] \in Seq(Messages) /\ results[t] \in Seq(Ended)
      /\ owned[t] \subseteq Ids \ {None} /\ count[t] \in {0, 1} /\ unmanaged[t] \subseteq Ids \ {None}
      /\ notified[t] \in Ids /\ buffered[t] \in Ids /\ first[t] \in Ids
      /\ retired[t] \subseteq Ids \ {None} /\ messages[t] \subseteq Ids \ {None}
  BY DEF Typed
<1> QED
  BY <1>1, <1>2, <1>3, <1>4

\* A step that does nothing to thread s.
SameThread(s) ==
  /\ link' = link /\ wire'[s] = wire[s] /\ server'[s] = server[s] /\ call'[s] = call[s]
  /\ s \in open' <=> s \in open
  /\ owned'[s] = owned[s] /\ count'[s] = count[s] /\ notified'[s] = notified[s]
  /\ buffered'[s] = buffered[s] /\ retired'[s] = retired[s]
  /\ results'[s] = results[s] /\ first'[s] = first[s]
  /\ \A i : i.thread = s => (i \in interrupts' <=> i \in interrupts)

LEMMA ThreadKept ==
  ASSUME NEW s \in Threads, ThreadInv(s), SameThread(s)
  PROVE  ThreadInv(s)'
<1> USE DEF SameThread
<1>1. AllSound(wire[s], server[s].turn, server[s].state)'
  <2>1. AllSound(wire'[s], server'[s].turn, server'[s].state)
    BY DEF ThreadInv
  <2> QED
    BY <2>1
<1>2. Placed(s)' /\ Numbered(s)' /\ Returned(s)' /\ Seen(s)'
  BY DEF ThreadInv, Placed, Numbered, Returned, Seen
<1>3. AnswerRead(s)'
  BY DEF ThreadInv, AnswerRead
<1>4. (Misled(s)' <=> Misled(s)) /\ (Deceived(s)' <=> Deceived(s))
  BY DEF Misled, Deceived
<1>5. Retires(s)'
  BY <1>4 DEF ThreadInv, Retires
<1>6. Keeps(s)'
  BY <1>4 DEF ThreadInv, Keeps
<1>7. Streams(s)'
  BY <1>4 DEF ThreadInv, Streams
<1>8. Aimed(s)'
  BY <1>4 DEF ThreadInv, Aimed
<1>9. StopsTurn(s)'
  BY <1>4 DEF ThreadInv, StopsTurn
<1> QED
  BY <1>1, <1>2, <1>3, <1>5, <1>6, <1>7, <1>8, <1>9, Zenon DEF ThreadInv

LEMMA ThreadStep ==
  ASSUME OwnershipInv, NEW t \in Threads, Typed', ThreadInv(t)',
         \A s \in Threads \ {t} : SameThread(s)
  PROVE  OwnershipInv'
<1>1. ASSUME NEW s \in Threads
      PROVE  ThreadInv(s)'
  BY ThreadKept DEF OwnershipInv
<1> QED
  BY <1>1 DEF OwnershipInv

(***************************************************************************)
(* The server's steps: u is what is on the wire afterwards, v what the     *)
(* server knows.                                                           *)
(***************************************************************************)
LEMMA ServerMoves ==
  ASSUME OwnershipInv, NEW t \in Threads, NEW v \in Servers, NEW u,
         link # "closed", UNCHANGED <<link, failed, call, registry, buffers, results, first>>,
         server' = [server EXCEPT ![t] = v], wire' = [wire EXCEPT ![t] = u],
         extras' \in 0 .. MaxExtras, interrupts' \subseteq interrupts,
         \A i \in interrupts : i.thread # t => i \in interrupts',
         \A i \in interrupts : i.turn = Stream(v.turn) /\ v.state = "running" => i \in interrupts',
         v.turn = server[t].turn, v.state # "none" => v.turn >= 1,
         server[t].state = "running" => v.state \in {"running", "ended"},
         server[t].state = "ended" => v.state = "ended",
         AllSound(u, v.turn, v.state), OneAnswer(u), v.answered \/ NoAnswer(u),
         server[t].answered => v.answered /\ (NoAnswer(wire[t]) => NoAnswer(u)),
         v.turn >= 1 /\ Preceded(wire[t], v.turn)
           /\ (server[t].state \in {"running", "ended"} => HasStart(wire[t], v.turn))
           => Preceded(u, v.turn) /\ (v.state \in {"running", "ended"} => HasStart(u, v.turn))
  PROVE  OwnershipInv'
<1>1. Typed /\ ThreadInv(t)
  BY DEF OwnershipInv
<1>2. u \in Seq(Messages)
  BY DEF AllSound
<1>3. /\ link' = link /\ failed' = failed /\ call' = call /\ open' = open /\ owned' = owned /\ count' = count
      /\ unmanaged' = unmanaged /\ notified' = notified /\ buffered' = buffered /\ retired' = retired
      /\ messages' = messages /\ results' = results /\ first' = first
  BY DEF registry, buffers
<1>4. /\ server'[t] = v /\ wire'[t] = u
      /\ server' \in [Threads -> Servers] /\ wire' \in [Threads -> Seq(Messages)]
      /\ \A s \in Threads \ {t} : server'[s] = server[s] /\ wire'[s] = wire[s]
  BY <1>1, <1>2 DEF Typed
<1>5. Typed'
  BY <1>1, <1>3, <1>4 DEF Typed
<1>6. ASSUME NEW s \in Threads \ {t}
      PROVE  SameThread(s)
  BY <1>3, <1>4 DEF SameThread
<1>7. Placed(t)' /\ Numbered(t)' /\ Returned(t)' /\ Seen(t)'
  BY <1>1, <1>3, <1>4 DEF ThreadInv, Placed, Numbered, Returned, Seen, Servers
<1>8. AnswerRead(t)'
  BY <1>1, <1>3, <1>4 DEF ThreadInv, AnswerRead, Servers
<1>9. (Misled(t)' <=> Misled(t)) /\ (Deceived(t)' <=> Deceived(t))
  BY <1>3 DEF Misled, Deceived
<1>10. Retires(t)'
  BY <1>1, <1>3, <1>4, <1>9 DEF ThreadInv, Retires
<1>11. Keeps(t)'
  BY <1>1, <1>3, <1>4, <1>9 DEF ThreadInv, Keeps
<1>12. Streams(t)'
  <2>1. SUFFICES ASSUME t \in open, ~Misled(t), notified[t] # Stream(v.turn)
                 PROVE  Preceded(u, v.turn) /\ (v.state \in {"running", "ended"} => HasStart(u, v.turn))
    BY <1>3, <1>4, <1>9 DEF Streams
  <2>2. v.turn >= 1
    BY <1>1, <2>1 DEF ThreadInv, Placed
  <2> QED
    BY <1>1, <2>1, <2>2 DEF ThreadInv, Streams
<1>13. Aimed(t)'
  BY <1>1, <1>3, <1>4, <1>9 DEF ThreadInv, Aimed
<1>14. StopsTurn(t)'
  <2>1. v.state = "running" /\ notified[t] = Stream(v.turn) => server[t].state = "running"
    BY <1>1 DEF ThreadInv, Seen
  <2> QED
    BY <1>1, <1>3, <1>4, <1>9, <2>1 DEF ThreadInv, StopsTurn
<1>15. ThreadInv(t)'
  BY <1>4, <1>7, <1>8, <1>10, <1>11, <1>12, <1>13, <1>14 DEF ThreadInv
<1> QED
  BY <1>5, <1>6, <1>15, ThreadStep

\* What the server's steps start from.
LEMMA ServerFacts ==
  ASSUME OwnershipInv, NEW t \in Threads
  PROVE  /\ server[t] \in Servers /\ wire[t] \in Seq(Messages) /\ MaxTurns \in Nat
         /\ server[t].turn \in 0 .. MaxTurns
         /\ server[t].state # "none" => server[t].turn \in 1 .. MaxTurns
         /\ AllSound(wire[t], server[t].turn, server[t].state) /\ OneAnswer(wire[t])
         /\ ~server[t].answered => NoAnswer(wire[t])
         /\ extras \in 0 .. MaxExtras
<1>1. Typed /\ ThreadInv(t)
  BY DEF OwnershipInv
<1>2. server[t] \in Servers /\ wire[t] \in Seq(Messages) /\ server[t].turn \in 0 .. MaxTurns
  BY <1>1, ThreadTypes
<1>3. server[t].state # "none" => server[t].turn >= 1
  BY <1>1 DEF ThreadInv, Placed
<1>4. AllSound(wire[t], server[t].turn, server[t].state) /\ OneAnswer(wire[t])
      /\ (~server[t].answered => NoAnswer(wire[t]))
  BY <1>1 DEF ThreadInv, AnswerRead
<1> QED
  BY <1>1, <1>2, <1>3, <1>4, TurnAssumption DEF Typed

LEMMA ServerStartsInv ==
  ASSUME OwnershipInv, NEW t \in Threads, ServerStarts(t)
  PROVE  OwnershipInv'
<1> DEFINE k == server[t].turn
           m == Message("started", Stream(k))
           u == Append(wire[t], m)
<1> HIDE DEF k, m, u
<1>1. server[t].state = "asked" /\ k \in 1 .. MaxTurns /\ server[t] \in Servers /\ wire[t] \in Seq(Messages)
      /\ k = server[t].turn
  BY ServerFacts DEF ServerStarts, k
<1>2. PICK v : v = [server[t] EXCEPT !.state = "running"]
  OBVIOUS
<1>3. v \in Servers /\ v.turn = k /\ v.state = "running" /\ (v.answered <=> server[t].answered)
  BY <1>1, <1>2 DEF Servers
<1>4. server' = [server EXCEPT ![t] = v]
  BY <1>2 DEF ServerStarts
<1>5. Sound(m, k, "running") /\ m \in Messages /\ m.kind \notin AnswerKinds /\ ~Ends(m, k)
  <2>1. Sound(m, k, "running")
    BY <1>1, SoundStarted DEF m
  <2> QED
    BY <2>1, MessageFacts DEF m, Ends, Sound, AnswerKinds
<1>6. wire[t] \o <<m>> = u
  BY <1>1, <1>5, Sent DEF u
<1>7. wire' = [wire EXCEPT ![t] = u]
  BY <1>6 DEF ServerStarts, Sends, m, k
<1>8. AllSound(u, k, "running")
  BY <1>1, <1>5, SoundGrows, SoundLater, ServerFacts DEF u
<1>9. OneAnswer(u) /\ (v.answered \/ NoAnswer(u)) /\ (NoAnswer(wire[t]) => NoAnswer(u))
  BY <1>1, <1>3, <1>5, AnswersGrow, ServerFacts DEF u
<1>10. HasStart(u, k) /\ (Preceded(wire[t], k) => Preceded(u, k))
  BY <1>1, <1>5, StartGrows DEF u, m
<1>11. link # "closed" /\ UNCHANGED <<link, failed, call, registry, buffers, results, first, extras, interrupts>>
  BY DEF ServerStarts, Sends, Serving
<1>12. \A i \in interrupts : i \in interrupts'
  BY <1>11
<1>13. extras' \in 0 .. MaxExtras
  BY <1>11, ServerFacts
<1>14. /\ server[t].answered => v.answered /\ (NoAnswer(wire[t]) => NoAnswer(u))
       /\ v.turn = server[t].turn /\ (v.state # "none" => v.turn >= 1) /\ AllSound(u, v.turn, v.state)
       /\ server[t].state = "running" => v.state \in {"running", "ended"}
       /\ server[t].state = "ended" => v.state = "ended"
  BY <1>1, <1>3, <1>8, <1>9
<1>15. v.turn >= 1 /\ Preceded(wire[t], v.turn)
           /\ (server[t].state \in {"running", "ended"} => HasStart(wire[t], v.turn))
           => Preceded(u, v.turn) /\ (v.state \in {"running", "ended"} => HasStart(u, v.turn))
  BY <1>1, <1>3, <1>10
<1>16. \A i \in interrupts : (i.thread # t => i \in interrupts')
         /\ (i.turn = Stream(v.turn) /\ v.state = "running" => i \in interrupts')
  BY <1>11
<1> QED
  BY <1>1, <1>3, <1>4, <1>7, <1>8, <1>9, <1>10, <1>11, <1>12, <1>13, <1>14, <1>15, <1>16, ServerMoves

LEMMA ServerEndsInv ==
  ASSUME OwnershipInv, NEW t \in Threads, ServerEnds(t)
  PROVE  OwnershipInv'
<1> DEFINE k == server[t].turn
           m == Message("completed", Stream(k))
           u == Append(wire[t], m)
<1> HIDE DEF k, m, u
<1>1. server[t].state = "running" /\ k \in 1 .. MaxTurns /\ server[t] \in Servers /\ wire[t] \in Seq(Messages)
      /\ k = server[t].turn
  BY ServerFacts DEF ServerEnds, k
<1>2. PICK v : v = [server[t] EXCEPT !.state = "ended"]
  OBVIOUS
<1>3. v \in Servers /\ v.turn = k /\ v.state = "ended" /\ (v.answered <=> server[t].answered)
  BY <1>1, <1>2 DEF Servers
<1>4. server' = [server EXCEPT ![t] = v]
  BY <1>2 DEF ServerEnds
<1>5. Sound(m, k, "ended") /\ m \in Messages /\ m.kind \notin AnswerKinds
  <2>1. Sound(m, k, "ended")
    BY <1>1, SoundCompleted DEF m
  <2> QED
    BY <2>1, MessageFacts DEF m, Sound, AnswerKinds
<1>6. wire[t] \o <<m>> = u
  BY <1>1, <1>5, Sent DEF u
<1>7. wire' = [wire EXCEPT ![t] = u]
  BY <1>6 DEF ServerEnds, Sends, m, k
<1>8. AllSound(u, k, "ended")
  BY <1>1, <1>5, SoundGrows, SoundLater, ServerFacts DEF u
<1>9. OneAnswer(u) /\ (v.answered \/ NoAnswer(u)) /\ (NoAnswer(wire[t]) => NoAnswer(u))
  BY <1>1, <1>3, <1>5, AnswersGrow, ServerFacts DEF u
<1>10. HasStart(wire[t], k) /\ Preceded(wire[t], k) => HasStart(u, k) /\ Preceded(u, k)
  BY <1>1, <1>5, StartGrows DEF u
<1>11. link # "closed" /\ UNCHANGED <<link, failed, call, registry, buffers, results, first, extras, interrupts>>
  BY DEF ServerEnds, Sends, Serving
<1>12. \A i \in interrupts : i \in interrupts'
  BY <1>11
<1>13. extras' \in 0 .. MaxExtras
  BY <1>11, ServerFacts
<1>14. /\ server[t].answered => v.answered /\ (NoAnswer(wire[t]) => NoAnswer(u))
       /\ v.turn = server[t].turn /\ (v.state # "none" => v.turn >= 1) /\ AllSound(u, v.turn, v.state)
       /\ server[t].state = "running" => v.state \in {"running", "ended"}
       /\ server[t].state = "ended" => v.state = "ended"
  BY <1>1, <1>3, <1>8, <1>9
<1>15. v.turn >= 1 /\ Preceded(wire[t], v.turn)
           /\ (server[t].state \in {"running", "ended"} => HasStart(wire[t], v.turn))
           => Preceded(u, v.turn) /\ (v.state \in {"running", "ended"} => HasStart(u, v.turn))
  BY <1>1, <1>3, <1>10
<1>16. \A i \in interrupts : (i.thread # t => i \in interrupts')
         /\ (i.turn = Stream(v.turn) /\ v.state = "running" => i \in interrupts')
  BY <1>11
<1> QED
  BY <1>1, <1>3, <1>4, <1>7, <1>8, <1>9, <1>10, <1>11, <1>12, <1>13, <1>14, <1>15, <1>16, ServerMoves

LEMMA ServerAnswersInv ==
  ASSUME OwnershipInv, NEW t \in Threads, NEW id \in Ids, ServerAnswers(t, id)
  PROVE  OwnershipInv'
<1> DEFINE k == server[t].turn
           st == server[t].state
           m == Message(IF st = "ended" THEN "answeredEnded" ELSE "answered", id)
           u == Append(wire[t], m)
<1> HIDE DEF k, m, u, st
<1>1. ~server[t].answered /\ k \in 0 .. MaxTurns /\ server[t] \in Servers /\ wire[t] \in Seq(Messages)
      /\ k = server[t].turn /\ NoAnswer(wire[t]) /\ st = server[t].state /\ (st # "none" => k >= 1)
  BY ServerFacts DEF ServerAnswers, k, st
<1>2. PICK v : v = [server[t] EXCEPT !.answered = TRUE]
  OBVIOUS
<1>3. v \in Servers /\ v.turn = k /\ v.state = st /\ v.answered = TRUE
  BY <1>1, <1>2 DEF Servers
<1>4. server' = [server EXCEPT ![t] = v]
  BY <1>2 DEF ServerAnswers
<1>5. Sound(m, k, st) /\ m \in Messages
  <2>1. id \in OwnIds(k)
    BY DEF ServerAnswers, OwnIds, k
  <2>2. Sound(m, k, st)
    BY <1>1, <2>1, MessageFacts DEF m, Sound, Messages, Message, Notes, AnswerKinds
  <2> QED
    BY <2>2 DEF Sound
<1>6. wire[t] \o <<m>> = u
  BY <1>1, <1>5, Sent DEF u
<1>7. wire' = [wire EXCEPT ![t] = u]
  BY <1>6 DEF ServerAnswers, Sends, m, k, st
<1>8. AllSound(u, k, st)
  BY <1>1, <1>5, SoundGrows, ServerFacts DEF u
<1>9. OneAnswer(u)
  BY <1>1, <1>3, <1>5, AnswersGrow DEF u
<1>10. /\ HasStart(wire[t], k) => HasStart(u, k)
       /\ Preceded(wire[t], k) /\ (st = "ended" => HasStart(wire[t], k)) /\ k >= 1 => Preceded(u, k)
  <2>1. st # "ended" => ~Ends(m, k)
    BY MessageFacts DEF m, Ends
  <2> QED
    BY <1>1, <1>5, <2>1, StartGrows DEF u
<1>11. link # "closed" /\ UNCHANGED <<link, failed, call, registry, buffers, results, first, extras, interrupts>>
  BY DEF ServerAnswers, Sends, Serving
<1>12. \A i \in interrupts : i \in interrupts'
  BY <1>11
<1>13. extras' \in 0 .. MaxExtras
  BY <1>11, ServerFacts
<1> QED
  BY <1>1, <1>3, <1>4, <1>7, <1>8, <1>9, <1>10, <1>11, <1>12, <1>13, ServerMoves

LEMMA ServerRejectsInv ==
  ASSUME OwnershipInv, NEW t \in Threads, ServerRejects(t)
  PROVE  OwnershipInv'
<1> DEFINE k == server[t].turn
           m == Message("rejected", None)
           u == Append(wire[t], m)
<1> HIDE DEF k, m, u
<1>1. ~server[t].answered /\ k \in 0 .. MaxTurns /\ server[t] \in Servers /\ wire[t] \in Seq(Messages)
      /\ k = server[t].turn /\ NoAnswer(wire[t]) /\ (server[t].state # "none" => k >= 1)
  BY ServerFacts DEF ServerRejects, k
<1>2. PICK st \in {"none", "running", "ended"} :
        st = (IF server[t].state = "asked" THEN "none" ELSE server[t].state)
  BY <1>1 DEF Servers
<1>3. PICK v : v = [server[t] EXCEPT !.answered = TRUE, !.state = st]
  OBVIOUS
<1>4. v \in Servers /\ v.turn = k /\ v.state = st /\ v.answered = TRUE
  BY <1>1, <1>2, <1>3 DEF Servers
<1>5. server' = [server EXCEPT ![t] = v]
  BY <1>2, <1>3 DEF ServerRejects
<1>6. Sound(m, k, st) /\ m \in Messages /\ ~Ends(m, k)
  <2>1. Sound(m, k, st)
    BY <1>1, SoundReply DEF m
  <2> QED
    BY <2>1, MessageFacts DEF m, Ends, Sound
<1>7. wire[t] \o <<m>> = u
  BY <1>1, <1>6, Sent DEF u
<1>8. wire' = [wire EXCEPT ![t] = u]
  BY <1>7 DEF ServerRejects, Sends, m
<1>9. AllSound(u, k, st)
  BY <1>1, <1>2, <1>6, SoundGrows, SoundLater, ServerFacts DEF u
<1>10. OneAnswer(u)
  BY <1>1, <1>6, AnswersGrow DEF u
<1>11. (HasStart(wire[t], k) => HasStart(u, k)) /\ (Preceded(wire[t], k) => Preceded(u, k))
  BY <1>1, <1>6, StartGrows DEF u
<1>12. link # "closed" /\ UNCHANGED <<link, failed, call, registry, buffers, results, first, extras, interrupts>>
  BY DEF ServerRejects, Sends, Serving
<1>13. \A i \in interrupts : i \in interrupts'
  BY <1>12
<1>14. extras' \in 0 .. MaxExtras
  BY <1>12, ServerFacts
<1> QED
  BY <1>1, <1>2, <1>4, <1>5, <1>8, <1>9, <1>10, <1>11, <1>12, <1>13, <1>14, ServerMoves

\* A note of the native turn, which is not the turn of the request.
LEMMA ForeignSent ==
  ASSUME OwnershipInv, NEW t \in Threads, NEW kind \in Notes, NEW v \in Servers,
         v.turn = server[t].turn, v.state = server[t].state, v.answered <=> server[t].answered,
         server' = [server EXCEPT ![t] = v], Serving, Sends(t, <<Message(kind, Foreign)>>)
  PROVE  OwnershipInv'
<1> DEFINE k == server[t].turn
           m == Message(kind, Foreign)
           u == Append(wire[t], m)
<1> HIDE DEF k, m, u
<1>1. /\ k \in 0 .. MaxTurns /\ server[t] \in Servers /\ wire[t] \in Seq(Messages) /\ k = server[t].turn
      /\ (server[t].state # "none" => k >= 1) /\ (~server[t].answered => NoAnswer(wire[t]))
  BY ServerFacts DEF k
<1>2. Sound(m, k, v.state) /\ m \in Messages /\ m.kind \notin AnswerKinds /\ (k >= 1 => ~Ends(m, k))
  <2>1. Sound(m, k, v.state)
    BY <1>1, SoundForeign DEF m
  <2>2. k >= 1 => Foreign # Stream(k)
    BY <1>1 DEF Foreign, Stream
  <2> QED
    BY <2>1, <2>2, MessageFacts DEF m, Ends, Sound, Notes, AnswerKinds
<1>3. wire[t] \o <<m>> = u
  BY <1>1, <1>2, Sent DEF u
<1>4. wire' = [wire EXCEPT ![t] = u]
  BY <1>3 DEF Sends, m
<1>5. AllSound(u, v.turn, v.state)
  BY <1>1, <1>2, SoundGrows, ServerFacts DEF u
<1>6. OneAnswer(u) /\ (v.answered \/ NoAnswer(u))
      /\ (server[t].answered => v.answered /\ (NoAnswer(wire[t]) => NoAnswer(u)))
  BY <1>1, <1>2, AnswersGrow, ServerFacts DEF u
<1>7. v.turn >= 1 /\ Preceded(wire[t], v.turn)
           /\ (server[t].state \in {"running", "ended"} => HasStart(wire[t], v.turn))
           => Preceded(u, v.turn) /\ (v.state \in {"running", "ended"} => HasStart(u, v.turn))
  BY <1>1, <1>2, StartGrows DEF u
<1>8. link # "closed" /\ UNCHANGED <<link, failed, call, registry, buffers, results, first, extras, interrupts>>
  BY DEF Sends, Serving
<1>9. \A i \in interrupts : (i.thread # t => i \in interrupts')
         /\ (i.turn = Stream(v.turn) /\ v.state = "running" => i \in interrupts')
  BY <1>8
<1>10. extras' \in 0 .. MaxExtras
  BY <1>8, ServerFacts
<1>11. /\ v.turn = server[t].turn /\ (v.state # "none" => v.turn >= 1)
       /\ server[t].state = "running" => v.state \in {"running", "ended"}
       /\ server[t].state = "ended" => v.state = "ended"
  BY <1>1
<1> QED
  BY <1>4, <1>5, <1>6, <1>7, <1>8, <1>9, <1>10, <1>11, ServerMoves

LEMMA ServerContinuesInv ==
  ASSUME OwnershipInv, NEW t \in Threads, ServerContinues(t)
  PROVE  OwnershipInv'
<1>1. PICK v : v = [server[t] EXCEPT !.native = "running"]
  OBVIOUS
<1>2. v \in Servers /\ v.turn = server[t].turn /\ v.state = server[t].state /\ (v.answered <=> server[t].answered)
  BY <1>1, ServerFacts DEF Servers
<1>3. server' = [server EXCEPT ![t] = v]
  BY <1>1 DEF ServerContinues
<1> QED
  BY <1>2, <1>3, ForeignSent DEF ServerContinues, Notes

LEMMA ServerEndsNativeInv ==
  ASSUME OwnershipInv, NEW t \in Threads, ServerEndsNative(t)
  PROVE  OwnershipInv'
<1>1. PICK v : v = [server[t] EXCEPT !.native = "ended"]
  OBVIOUS
<1>2. v \in Servers /\ v.turn = server[t].turn /\ v.state = server[t].state /\ (v.answered <=> server[t].answered)
  BY <1>1, ServerFacts DEF Servers
<1>3. server' = [server EXCEPT ![t] = v]
  BY <1>1 DEF ServerEndsNative
<1> QED
  BY <1>2, <1>3, ForeignSent DEF ServerEndsNative, Notes

\* What was said before is still true.
LEMMA SaidIsSound ==
  ASSUME OwnershipInv, NEW t \in Threads, NEW note \in Said(t)
  PROVE  /\ Sound(note, server[t].turn, server[t].state) /\ note \in Messages /\ note.kind \notin AnswerKinds
         /\ Ends(note, server[t].turn) => server[t].state = "ended"
<1>1. PICK kind \in Notes, j \in 1 .. server[t].turn :
        /\ note = Message(kind, Stream(j))
        /\ note.id = Stream(server[t].turn) =>
             server[t].state \in (IF note.kind = "started" THEN {"running", "ended"} ELSE {"ended"})
  BY DEF Said, Notes
<1>2. server[t].turn \in 0 .. MaxTurns /\ j \in 1 .. MaxTurns
  BY ServerFacts
<1>3. note.kind = kind /\ note.id = Stream(j) /\ kind \in {"started", "completed"}
  BY <1>1, MessageFacts DEF Notes
<1>4. note \in Messages
  BY <1>1, <1>2, StreamFacts DEF Message, Messages
<1>5. note = Message("started", Stream(server[t].turn)) => server[t].state \in {"running", "ended"}
  BY <1>1, <1>3, MessageFacts
<1>6. note = Message("completed", Stream(server[t].turn)) => server[t].state = "ended"
  BY <1>1, <1>3, MessageFacts
<1> QED
  BY <1>3, <1>4, <1>5, <1>6 DEF Sound, Ends, AnswerKinds

LEMMA ServerRepeatsInv ==
  ASSUME OwnershipInv, NEW t \in Threads, NEW note \in Said(t), ServerRepeats(t, note)
  PROVE  OwnershipInv'
<1> DEFINE u == Append(wire[t], note)
           v == server[t]
<1> HIDE DEF u, v
<1>1. /\ v \in Servers /\ wire[t] \in Seq(Messages) /\ v = server[t]
      /\ (v.state # "none" => v.turn >= 1) /\ (~v.answered => NoAnswer(wire[t]))
  BY ServerFacts DEF v
<1>2. server \in [Threads -> Servers]
  BY DEF OwnershipInv, Typed
<1>3. server' = [server EXCEPT ![t] = v] /\ wire' = [wire EXCEPT ![t] = u]
  BY <1>1, <1>2 DEF ServerRepeats, u
<1>4. /\ Sound(note, v.turn, v.state) /\ note \in Messages /\ note.kind \notin AnswerKinds
      /\ Ends(note, v.turn) => v.state = "ended"
  BY SaidIsSound DEF v
<1>5. AllSound(u, v.turn, v.state)
  BY <1>1, <1>4, SoundGrows, ServerFacts DEF u
<1>6. OneAnswer(u) /\ (v.answered \/ NoAnswer(u))
      /\ (server[t].answered => v.answered /\ (NoAnswer(wire[t]) => NoAnswer(u)))
  BY <1>1, <1>4, AnswersGrow, ServerFacts DEF u
<1>7. v.turn >= 1 /\ Preceded(wire[t], v.turn)
           /\ (server[t].state \in {"running", "ended"} => HasStart(wire[t], v.turn))
           => Preceded(u, v.turn) /\ (v.state \in {"running", "ended"} => HasStart(u, v.turn))
  BY <1>1, <1>4, StartGrows DEF u
<1>8. link # "closed" /\ UNCHANGED <<link, failed, call, registry, buffers, results, first, interrupts>>
  BY DEF ServerRepeats, Serving
<1>9. \A i \in interrupts : (i.thread # t => i \in interrupts')
         /\ (i.turn = Stream(v.turn) /\ v.state = "running" => i \in interrupts')
  BY <1>8
<1>10. extras' \in 0 .. MaxExtras
  BY ServerFacts, TurnAssumption DEF ServerRepeats
<1>11. /\ v.turn = server[t].turn /\ (v.state # "none" => v.turn >= 1)
       /\ server[t].state = "running" => v.state \in {"running", "ended"}
       /\ server[t].state = "ended" => v.state = "ended"
  BY <1>1
<1> QED
  BY <1>1, <1>3, <1>5, <1>6, <1>7, <1>8, <1>9, <1>10, <1>11, ServerMoves

\* A wire that an answered interrupt leaves: x is what was on it before.
LEMMA InterruptSent ==
  ASSUME NEW k \in 0 .. MaxTurns, NEW st, NEW x, AllSound(x, k, st), OneAnswer(x),
         NEW u \in {x, Append(x, Message("interrupted", None))}
  PROVE  /\ AllSound(u, k, st) /\ OneAnswer(u) /\ (NoAnswer(x) => NoAnswer(u))
         /\ HasStart(x, k) => HasStart(u, k)
         /\ Preceded(x, k) => Preceded(u, k)
<1> DEFINE m == Message("interrupted", None)
<1> HIDE DEF m
<1>1. x \in Seq(Messages)
  BY DEF AllSound
<1>2. Sound(m, k, st) /\ m \in Messages /\ m.kind \notin AnswerKinds /\ ~Ends(m, k)
  <2>1. Sound(m, k, st)
    BY SoundReply DEF m
  <2> QED
    BY <2>1, MessageFacts DEF m, Sound, Ends, AnswerKinds
<1>3. /\ AllSound(Append(x, m), k, st) /\ OneAnswer(Append(x, m)) /\ (NoAnswer(x) => NoAnswer(Append(x, m)))
      /\ HasStart(x, k) => HasStart(Append(x, m), k)
      /\ Preceded(x, k) => Preceded(Append(x, m), k)
  BY <1>1, <1>2, SoundGrows, AnswersGrow, StartGrows
<1>4. u = x \/ u = Append(x, m)
  BY DEF m
<1>5. CASE u = x
  BY <1>5
<1>6. CASE u = Append(x, m)
  BY <1>3, <1>6
<1> QED
  BY <1>4, <1>5, <1>6

LEMMA ServerInterruptsInv ==
  ASSUME OwnershipInv, NEW t \in Threads, NEW i \in interrupts, ServerInterrupts(t, i)
  PROVE  OwnershipInv'
<1> DEFINE k == server[t].turn
           own == i.turn = Stream(k) /\ server[t].state = "running"
           native == i.turn = Foreign /\ server[t].native = "running"
           m == Message("completed", i.turn)
           back == IF i.for = None THEN <<Message("interrupted", None)>> ELSE <<>>
<1>1. /\ k \in 0 .. MaxTurns /\ server[t] \in Servers /\ wire[t] \in Seq(Messages) /\ OneAnswer(wire[t])
      /\ (server[t].state # "none" => k \in 1 .. MaxTurns) /\ (~server[t].answered => NoAnswer(wire[t]))
      /\ AllSound(wire[t], k, server[t].state)
  BY ServerFacts
<1>2. PICK st \in {"none", "asked", "running", "ended"} : st = (IF own THEN "ended" ELSE server[t].state)
  BY <1>1 DEF Servers
<1>3. PICK nt \in {"no", "running", "ended"} : nt = (IF native THEN "ended" ELSE server[t].native)
  BY <1>1 DEF Servers
<1>4. PICK v : v = [server[t] EXCEPT !.state = st, !.native = nt]
  OBVIOUS
<1>5. v \in Servers /\ v.turn = k /\ v.state = st /\ (v.answered <=> server[t].answered)
  BY <1>1, <1>2, <1>3, <1>4 DEF Servers
<1>6. server' = [server EXCEPT ![t] = v]
  BY <1>2, <1>3, <1>4 DEF ServerInterrupts
<1>7. PICK x : x = IF own \/ native THEN Append(wire[t], m) ELSE wire[t]
  OBVIOUS
<1>8. x = wire[t] \o (IF own \/ native THEN <<m>> ELSE <<>>)
  <2>1. CASE own \/ native
    <3>1. i.turn \in Ids
      BY DEF OwnershipInv, Typed
    <3>2. m \in Messages
      BY <3>1 DEF Message, Messages, Notes
    <3> QED
      BY <1>1, <1>7, <2>1, <3>2, Sent
  <2>2. CASE ~(own \/ native)
    BY <1>1, <1>7, <2>2
  <2> QED
    BY <2>1, <2>2
<1>9. /\ AllSound(x, k, st) /\ OneAnswer(x) /\ (NoAnswer(wire[t]) => NoAnswer(x))
      /\ HasStart(wire[t], k) => HasStart(x, k)
      /\ k >= 1 /\ Preceded(wire[t], k) /\ (server[t].state \in {"running", "ended"} => HasStart(wire[t], k))
           => Preceded(x, k)
  <2>1. CASE own
    <3>1. Sound(m, k, "ended") /\ m \in Messages /\ m.kind \notin AnswerKinds /\ k \in 1 .. MaxTurns
      <4>1. Sound(m, k, "ended")
        BY <1>1, <2>1, SoundCompleted
      <4> QED
        BY <1>1, <2>1, <4>1, MessageFacts DEF Sound, AnswerKinds
    <3>2. x = Append(wire[t], m) /\ st = "ended" /\ server[t].state = "running"
      BY <1>2, <1>7, <2>1
    <3>3. AllSound(x, k, st)
      BY <1>1, <3>1, <3>2, SoundGrows, SoundLater
    <3> QED
      BY <1>1, <3>1, <3>2, <3>3, AnswersGrow, StartGrows
  <2>2. CASE ~own /\ native
    <3>1. Sound(m, k, st) /\ m \in Messages /\ m.kind \notin AnswerKinds /\ (k >= 1 => ~Ends(m, k))
      <4>1. Sound(m, k, st)
        BY <1>1, <2>2, SoundForeign DEF Notes
      <4>2. k >= 1 => Foreign # Stream(k)
        BY <1>1 DEF Foreign, Stream
      <4> QED
        BY <2>2, <4>1, <4>2, MessageFacts DEF Sound, Ends, AnswerKinds
    <3>2. x = Append(wire[t], m) /\ st = server[t].state
      BY <1>2, <1>7, <2>2
    <3> QED
      BY <1>1, <3>1, <3>2, SoundGrows, AnswersGrow, StartGrows
  <2>3. CASE ~own /\ ~native
    <3>1. x = wire[t] /\ st = server[t].state
      BY <1>2, <1>7, <2>3
    <3> QED
      BY <1>1, <3>1
  <2> QED
    BY <2>1, <2>2, <2>3
<1>10. PICK u : u = x \o back
  OBVIOUS
<1>a. u \in {x, Append(x, Message("interrupted", None))}
  <2>1. x \in Seq(Messages)
    BY <1>9 DEF AllSound
  <2> QED
    BY <1>10, <2>1
<1>11. wire' = [wire EXCEPT ![t] = u]
  BY <1>8, <1>10 DEF ServerInterrupts
<1>12. /\ AllSound(u, v.turn, v.state) /\ OneAnswer(u) /\ (NoAnswer(x) => NoAnswer(u))
       /\ (HasStart(x, k) => HasStart(u, k)) /\ (Preceded(x, k) => Preceded(u, k))
  BY <1>1, <1>5, <1>9, <1>a, InterruptSent
<1>13. (v.answered \/ NoAnswer(u))
      /\ (server[t].answered => v.answered /\ (NoAnswer(wire[t]) => NoAnswer(u)))
  BY <1>1, <1>5, <1>9, <1>12
<1>14. /\ v.turn = server[t].turn /\ (v.state # "none" => v.turn >= 1)
       /\ server[t].state = "running" => v.state \in {"running", "ended"}
       /\ server[t].state = "ended" => v.state = "ended"
  BY <1>1, <1>2, <1>5
<1>15. v.turn >= 1 /\ Preceded(wire[t], v.turn)
           /\ (server[t].state \in {"running", "ended"} => HasStart(wire[t], v.turn))
           => Preceded(u, v.turn) /\ (v.state \in {"running", "ended"} => HasStart(u, v.turn))
  BY <1>2, <1>5, <1>9, <1>12
<1>16. link # "closed" /\ UNCHANGED <<link, failed, call, registry, buffers, results, first, extras>>
       /\ interrupts' = interrupts \ {i} /\ i.thread = t
  BY DEF ServerInterrupts, Serving
<1>17. \A j \in interrupts : (j.thread # t => j \in interrupts')
         /\ (j.turn = Stream(v.turn) /\ v.state = "running" => j \in interrupts')
  BY <1>2, <1>5, <1>16
<1>18. extras' \in 0 .. MaxExtras
  BY <1>16, ServerFacts
<1> HIDE DEF k, own, native, m, back
<1> QED
  BY <1>5, <1>6, <1>11, <1>12, <1>13, <1>14, <1>15, <1>16, <1>17, <1>18, ServerMoves

LEMMA ServerStepInv ==
  ASSUME OwnershipInv, NEW t \in Threads, ServerStep(t)
  PROVE  OwnershipInv'
BY ServerStartsInv, ServerRejectsInv, ServerEndsInv, ServerAnswersInv, ServerContinuesInv,
   ServerEndsNativeInv, ServerRepeatsInv, ServerInterruptsInv DEF ServerStep

(***************************************************************************)
(* The steps of a call: c is what the coroutine holds afterwards.          *)
(***************************************************************************)
\* What the steps of a call start from.
LEMMA CallFacts ==
  ASSUME OwnershipInv, NEW t \in Threads
  PROVE  /\ Typed /\ ThreadInv(t) /\ server[t].turn \in 0 .. MaxTurns /\ call[t].turn = server[t].turn
         /\ call[t].at \notin {"idle", "over"} => t \in open
         /\ t \in open => server[t].turn \in 1 .. MaxTurns
         /\ call[t] \in Calls /\ call[t].key \in Ids /\ call[t].with \in Ids /\ call[t].answer \in Ids
         /\ notified[t] \in Ids /\ buffered[t] \in Ids
         /\ retired[t] \subseteq Ids \ {None} /\ messages[t] \subseteq Ids \ {None}
         /\ {call[t].key[1], call[t].with[1], notified[t][1], buffered[t][1]} \subseteq 0 .. server[t].turn
         /\ \A id \in retired[t] : id[1] <= server[t].turn
<1>1. Typed /\ ThreadInv(t)
  BY DEF OwnershipInv
<1>2. /\ server[t].turn \in 0 .. MaxTurns
      /\ call[t] \in Calls /\ call[t].key \in Ids /\ call[t].with \in Ids /\ call[t].answer \in Ids
      /\ notified[t] \in Ids /\ buffered[t] \in Ids
      /\ retired[t] \subseteq Ids \ {None} /\ messages[t] \subseteq Ids \ {None}
  BY <1>1, ThreadTypes
<1>3. /\ call[t].turn = server[t].turn /\ (call[t].at \notin {"idle", "over"} => t \in open)
      /\ (t \in open => server[t].turn >= 1)
  BY <1>1 DEF ThreadInv, Placed
<1>4. /\ {call[t].key[1], call[t].with[1], notified[t][1], buffered[t][1]} \subseteq 0 .. server[t].turn
      /\ \A id \in retired[t] : id[1] <= server[t].turn
  BY <1>1 DEF ThreadInv, Numbered
<1> QED
  BY <1>1, <1>2, <1>3, <1>4, TurnAssumption

\* The call that is over: it owns nothing and waits for nothing.
LEMMA OverFacts ==
  ASSUME OwnershipInv, NEW t \in Threads, NEW next \in {"idle", "over"}, Over(t, next)
  PROVE  /\ call'[t].at = next /\ call'[t].turn = server[t].turn /\ call'[t].reply = "none"
         /\ call'[t].key = call[t].key /\ call'[t].waiter = "none" /\ call'[t].with = None
         /\ (call'[t].blind <=> call[t].blind) /\ call'[t].answer = None
         /\ call' \in [Threads -> Calls] /\ open' = open \ {t}
         /\ owned' \in [Threads -> SUBSET (Ids \ {None})] /\ count' \in [Threads -> {0, 1}]
         /\ \A s \in Threads \ {t} : call'[s] = call[s] /\ owned'[s] = owned[s] /\ count'[s] = count[s]
         /\ UNCHANGED <<link, failed, extras, wire, server, unmanaged, notified, first>>
<1>1. Typed /\ call[t] \in Calls /\ call[t].turn = server[t].turn
  BY CallFacts
<1>2. PICK c : c = [NoCall EXCEPT !.at = next, !.turn = call[t].turn, !.key = call[t].key, !.blind = call[t].blind]
  OBVIOUS
<1>3. /\ c.at = next /\ c.turn = server[t].turn /\ c.reply = "none" /\ c.key = call[t].key
      /\ c.waiter = "none" /\ c.with = None /\ (c.blind <=> call[t].blind) /\ c.answer = None
  BY <1>1, <1>2 DEF NoCall
<1>4. c \in Calls
  BY <1>1, <1>2, IdFacts DEF NoCall, Calls, Stages, Replies
<1>5. call' = [call EXCEPT ![t] = c]
  BY <1>2 DEF Over
<1>6. call'[t] = c /\ call' \in [Threads -> Calls] /\ \A s \in Threads \ {t} : call'[s] = call[s]
  BY <1>1, <1>4, <1>5 DEF Typed
<1>7. /\ owned' \in [Threads -> SUBSET (Ids \ {None})] /\ count' \in [Threads -> {0, 1}]
      /\ \A s \in Threads \ {t} : owned'[s] = owned[s] /\ count'[s] = count[s]
  BY <1>1 DEF Over, Typed
<1>8. open' = open \ {t} /\ UNCHANGED <<link, failed, extras, wire, server, unmanaged, notified, first>>
  BY DEF Over
<1> QED
  BY <1>3, <1>6, <1>7, <1>8

\* A call that gives up.
LEMMA CallGivesUp ==
  ASSUME OwnershipInv, NEW t \in Threads, Over(t, "over"), UNCHANGED <<results, interrupts>>,
         NEW R, retired' = [retired EXCEPT ![t] = R], R \subseteq Ids \ {None}, retired[t] \subseteq R,
         \A id \in R : id[1] <= server[t].turn,
         NEW b, buffered' = [buffered EXCEPT ![t] = b], b \in {None, buffered[t]},
         NEW M, messages' = [messages EXCEPT ![t] = M], M \subseteq messages[t],
         link = "up" /\ notified[t] = Stream(server[t].turn) /\ server[t].state = "running"
           => call[t].at \in Stops \cup (Waits \ {"waiting"})
  PROVE  OwnershipInv'
<1> DEFINE k == server[t].turn
<1>1. Typed /\ ThreadInv(t)
  BY CallFacts
<1>2. /\ call'[t].at = "over" /\ call'[t].turn = k /\ call'[t].reply = "none" /\ call'[t].waiter = "none"
      /\ call'[t].key = call[t].key /\ call'[t].with = None /\ (call'[t].blind <=> call[t].blind)
      /\ call' \in [Threads -> Calls] /\ open' = open \ {t}
      /\ owned' \in [Threads -> SUBSET (Ids \ {None})] /\ count' \in [Threads -> {0, 1}]
      /\ \A s \in Threads \ {t} : call'[s] = call[s] /\ owned'[s] = owned[s] /\ count'[s] = count[s]
  BY OverFacts
<1>3. /\ link' = link /\ failed' = failed /\ extras' = extras /\ wire' = wire /\ server' = server
      /\ unmanaged' = unmanaged /\ notified' = notified /\ first' = first /\ results' = results
      /\ interrupts' = interrupts
  BY DEF Over
<1>4. b \in Ids /\ M \in SUBSET (Ids \ {None}) /\ b[1] \in 0 .. k
  BY CallFacts, IdFacts
<1>5. /\ retired' \in [Threads -> SUBSET (Ids \ {None})] /\ buffered' \in [Threads -> Ids]
      /\ messages' \in [Threads -> SUBSET (Ids \ {None})]
      /\ retired'[t] = R /\ buffered'[t] = b
      /\ \A s \in Threads \ {t} : retired'[s] = retired[s] /\ buffered'[s] = buffered[s]
  BY <1>1, <1>4 DEF Typed
<1>6. Typed'
  BY <1>1, <1>2, <1>3, <1>5 DEF Typed
<1>7. ASSUME NEW s \in Threads \ {t}
      PROVE  SameThread(s)
  BY <1>2, <1>3, <1>5 DEF SameThread
<1>8. AllSound(wire[t], server[t].turn, server[t].state)' /\ Seen(t)'
  BY <1>1, <1>3 DEF ThreadInv, Seen
<1>9. Placed(t)'
  BY <1>1, <1>2, <1>3 DEF ThreadInv, Placed, Waits, Stops
<1>10. AnswerRead(t)'
  BY <1>1, <1>2, <1>3 DEF ThreadInv, AnswerRead, Waits, AnswerKinds
<1>11. Numbered(t)'
  BY <1>1, <1>2, <1>3, <1>4, <1>5, IdFacts, CallFacts DEF Numbered
<1>12. Returned(t)'
  BY <1>1, <1>3, <1>5 DEF ThreadInv, Returned
<1>13. Retires(t)' /\ Keeps(t)' /\ Streams(t)' /\ Aimed(t)'
  BY <1>2 DEF Retires, Keeps, Streams, Aimed
<1>14. StopsTurn(t)'
  <2>1. Misled(t)' <=> Misled(t)
    BY <1>3 DEF Misled
  <2> QED
    BY <1>1, <1>2, <1>3, <2>1 DEF ThreadInv, StopsTurn
<1>15. ThreadInv(t)'
  BY <1>8, <1>9, <1>10, <1>11, <1>12, <1>13, <1>14, Zenon DEF ThreadInv
<1> QED
  BY <1>6, <1>7, <1>15, ThreadStep

\* Functions that are updated with what they hold.
LEMMA SameUpdate ==
  ASSUME OwnershipInv, NEW t \in Threads
  PROVE  /\ retired = [retired EXCEPT ![t] = retired[t]] /\ buffered = [buffered EXCEPT ![t] = buffered[t]]
         /\ messages = [messages EXCEPT ![t] = messages[t]]
BY DEF OwnershipInv, Typed

\* The ids that a call may retire: those it holds.
LEMMA RetireFacts ==
  ASSUME OwnershipInv, NEW t \in Threads, NEW ids, ids \subseteq Ids, \A id \in ids : id[1] <= server[t].turn
  PROVE  /\ retired[t] \cup (ids \ {None}) \subseteq Ids \ {None} /\ retired[t] \subseteq retired[t] \cup (ids \ {None})
         /\ \A id \in retired[t] \cup (ids \ {None}) : id[1] <= server[t].turn
BY CallFacts

LEMMA HeldIds ==
  ASSUME OwnershipInv, NEW t \in Threads
  PROVE  /\ {notified[t]} \subseteq Ids /\ notified[t][1] <= server[t].turn
         /\ call[t].at \in Waits /\ call[t].waiter = "done" => call[t].with \in Ids /\ call[t].with[1] <= server[t].turn
         /\ call[t].at \in Waits =>
              /\ {Target(t, call[t].key), call[t].key, call[t].answer, call[t].with} \subseteq Ids
              /\ \A id \in {Target(t, call[t].key), call[t].key, call[t].answer, call[t].with} : id[1] <= server[t].turn
<1>1. ThreadInv(t) /\ server[t].turn \in Nat
  BY CallFacts, TurnAssumption
<1>2. call[t].at \in Waits => call[t].answer \in OwnIds(server[t].turn) /\ server[t].turn \in 1 .. MaxTurns
  BY <1>1, CallFacts DEF ThreadInv, AnswerRead, Waits
<1>3. call[t].at \in Waits => call[t].answer[1] = server[t].turn
  BY <1>2, StreamFacts
<1> QED
  BY <1>1, <1>3, CallFacts DEF Target

LEMMA RetiresNotified ==
  ASSUME OwnershipInv, NEW t \in Threads
  PROVE  LET R == retired[t] \cup ({notified[t]} \ {None})
         IN  R \subseteq Ids \ {None} /\ retired[t] \subseteq R /\ \A id \in R : id[1] <= server[t].turn
<1>1. {notified[t]} \subseteq Ids /\ \A id \in {notified[t]} : id[1] <= server[t].turn
  BY HeldIds
<1>2. PICK ids : ids = {notified[t]}
  OBVIOUS
<1> QED
  BY <1>1, <1>2, RetireFacts

LEMMA LostOnlyDown ==
  ASSUME OwnershipInv, NEW t \in Threads, call[t].reply = "closed" \/ call[t].waiter = "closed"
  PROVE  link # "up"
BY CallFacts DEF ThreadInv, Placed

\* A call that gives up and retires nothing.
LEMMA RetiresNothing ==
  ASSUME OwnershipInv, NEW t \in Threads, Over(t, "over"),
         UNCHANGED <<buffered, retired, messages, interrupts, results>>,
         link = "up" /\ notified[t] = Stream(server[t].turn) /\ server[t].state = "running"
           => call[t].at \in Stops \cup (Waits \ {"waiting"})
  PROVE  OwnershipInv'
<1>1. /\ retired' = [retired EXCEPT ![t] = retired[t]] /\ buffered' = [buffered EXCEPT ![t] = buffered[t]]
      /\ messages' = [messages EXCEPT ![t] = messages[t]]
  BY SameUpdate
<1>2. /\ retired[t] \subseteq Ids \ {None} /\ (\A id \in retired[t] : id[1] <= server[t].turn)
      /\ UNCHANGED <<results, interrupts>>
  BY CallFacts
<1> QED
  BY <1>1, <1>2, CallGivesUp

LEMMA CancelStartInv ==
  ASSUME OwnershipInv, NEW t \in Threads, notified[t] = None, Over(t, "over"),
         UNCHANGED <<buffered, retired, messages, interrupts, results>>
  PROVE  OwnershipInv'
<1>1. notified[t] # Stream(server[t].turn)
  BY IdFacts, CallFacts, TurnAssumption
<1> QED
  BY <1>1, RetiresNothing

LEMMA StoppedInv ==
  ASSUME OwnershipInv, NEW t \in Threads, Stopped(t)
  PROVE  OwnershipInv'
<1> DEFINE R == retired[t] \cup ({notified[t]} \ {None})
<1>1. R \subseteq Ids \ {None} /\ retired[t] \subseteq R /\ \A id \in R : id[1] <= server[t].turn
  BY RetiresNotified
<1>2. /\ retired' = [retired EXCEPT ![t] = R] /\ buffered' = [buffered EXCEPT ![t] = buffered[t]]
      /\ messages' = [messages EXCEPT ![t] = messages[t]]
  BY SameUpdate DEF Stopped, Retire
<1>3. call[t].at \in Stops /\ Over(t, "over") /\ UNCHANGED <<results, interrupts>>
  BY DEF Stopped, Stops, NotReturned
<1> HIDE DEF R
<1> QED
  BY <1>1, <1>2, <1>3, CallGivesUp

LEMMA StartLostInv ==
  ASSUME OwnershipInv, NEW t \in Threads, StartLost(t)
  PROVE  OwnershipInv'
<1> DEFINE R == retired[t] \cup ({notified[t]} \ {None})
           M == messages[t] \ {notified[t]}
<1>1. R \subseteq Ids \ {None} /\ retired[t] \subseteq R /\ \A id \in R : id[1] <= server[t].turn
  BY RetiresNotified
<1>2. /\ retired' = [retired EXCEPT ![t] = R] /\ buffered' = [buffered EXCEPT ![t] = None]
      /\ messages' = [messages EXCEPT ![t] = M] /\ M \subseteq messages[t]
  BY DEF StartLost, Retire, Discard
<1>3. link # "up" /\ Over(t, "over") /\ UNCHANGED <<results, interrupts>>
  BY LostOnlyDown DEF StartLost, NotReturned
<1> HIDE DEF R, M
<1> QED
  BY <1>1, <1>2, <1>3, CallGivesUp

LEMMA StartRefusedInv ==
  ASSUME OwnershipInv, NEW t \in Threads, notified[t] = None, Over(t, "over"), Discard(t),
         UNCHANGED <<retired, messages, interrupts, results>>
  PROVE  OwnershipInv'
<1>1. notified[t] # Stream(server[t].turn)
  BY IdFacts, CallFacts, TurnAssumption
<1>2. /\ retired' = [retired EXCEPT ![t] = retired[t]] /\ buffered' = [buffered EXCEPT ![t] = None]
      /\ messages' = [messages EXCEPT ![t] = messages[t]]
  BY SameUpdate DEF Discard
<1>3. /\ retired[t] \subseteq Ids \ {None} /\ \A id \in retired[t] : id[1] <= server[t].turn
      /\ Over(t, "over") /\ UNCHANGED <<results, interrupts>>
  BY CallFacts
<1> QED
  BY <1>1, <1>2, <1>3, CallGivesUp

LEMMA RefusedInv ==
  ASSUME OwnershipInv, NEW t \in Threads, Refused(t)
  PROVE  OwnershipInv'
<1> DEFINE R == retired[t] \cup ({notified[t]} \ {None})
<1>1. R \subseteq Ids \ {None} /\ retired[t] \subseteq R /\ \A id \in R : id[1] <= server[t].turn
  BY RetiresNotified
<1>2. /\ retired' = [retired EXCEPT ![t] = R] /\ buffered' = [buffered EXCEPT ![t] = None]
      /\ messages' = [messages EXCEPT ![t] = messages[t]]
  BY SameUpdate DEF Refused, Retire, Discard
<1>3. call[t].at \in Stops /\ Over(t, "over") /\ UNCHANGED <<results, interrupts>>
  BY DEF Refused, Stops, NotReturned
<1> HIDE DEF R
<1> QED
  BY <1>1, <1>2, <1>3, CallGivesUp

\* A call that waited and returns nothing: done is one of the ids it holds.
LEMMA ReturnsNothing ==
  ASSUME OwnershipInv, NEW t \in Threads, call[t].at \in Waits, NEW done \in Ids, done[1] <= server[t].turn,
         Return(t, done, "over"), UNCHANGED results, link # "up" \/ call[t].at # "waiting"
  PROVE  OwnershipInv'
<1> DEFINE ids == {done, call[t].key, call[t].answer}
           R == retired[t] \cup (ids \ {None})
           M == messages[t] \ ids
<1>1. ids \subseteq Ids /\ \A id \in ids : id[1] <= server[t].turn
  BY HeldIds
<1> HIDE DEF ids
<1>2. R \subseteq Ids \ {None} /\ retired[t] \subseteq R /\ \A id \in R : id[1] <= server[t].turn
  BY <1>1, RetireFacts
<1>3. /\ retired' = [retired EXCEPT ![t] = R] /\ buffered' = [buffered EXCEPT ![t] = buffered[t]]
      /\ messages' = [messages EXCEPT ![t] = M] /\ M \subseteq messages[t]
  BY SameUpdate DEF Return, Retire, ids
<1>4. Over(t, "over") /\ UNCHANGED <<results, interrupts>>
  BY DEF Return
<1>5. link # "up" \/ call[t].at \in Waits \ {"waiting"}
  OBVIOUS
<1> HIDE DEF R, M
<1> QED
  BY <1>2, <1>3, <1>4, <1>5, CallGivesUp

LEMMA WaitLostInv ==
  ASSUME OwnershipInv, NEW t \in Threads, WaitLost(t)
  PROVE  OwnershipInv'
<1>1. call[t].at \in Waits /\ link # "up"
  BY LostOnlyDown DEF WaitLost, Waits
<1>2. PICK done : done = Target(t, call[t].key)
  OBVIOUS
<1>3. done \in Ids /\ done[1] <= server[t].turn
  BY <1>1, <1>2, HeldIds
<1>4. Return(t, done, "over") /\ UNCHANGED results
  BY <1>2 DEF WaitLost, NotReturned
<1> QED
  BY <1>1, <1>3, <1>4, ReturnsNothing

LEMMA GraceOverInv ==
  ASSUME OwnershipInv, NEW t \in Threads, GraceOver(t)
  PROVE  OwnershipInv'
<1>1. call[t].at \in Waits /\ call[t].at # "waiting"
  BY DEF GraceOver, Waits
<1>2. PICK done : done = IF call[t].waiter = "done" THEN call[t].with ELSE Target(t, call[t].key)
  OBVIOUS
<1>3. done \in Ids /\ done[1] <= server[t].turn
  BY <1>1, <1>2, HeldIds
<1>4. Return(t, done, "over") /\ UNCHANGED results
  BY <1>2 DEF GraceOver, NotReturned
<1> QED
  BY <1>1, <1>3, <1>4, ReturnsNothing

LEMMA AbandonedInv ==
  ASSUME OwnershipInv, NEW t \in Threads, call[t].at \in Waits \ {"waiting"}, Over(t, "over"),
         UNCHANGED <<buffered, retired, messages, interrupts, results>>
  PROVE  OwnershipInv'
BY RetiresNothing

\* An interrupt request of the call for a turn of its own.
LEMMA InterruptInv ==
  ASSUME OwnershipInv, NEW t \in Threads, NEW id \in Ids, NEW at, Interrupt(t, id, at),
         \/ at \in Stops /\ call[t].at = "starting" /\ notified[t] # None
         \/ at \in Waits \ {"waiting"} /\ call[t].at = "waiting",
         Target(t, id)[1] = server[t].turn \/ Misled(t)
  PROVE  OwnershipInv'
<1> DEFINE k == server[t].turn
           n == [thread |-> t, turn |-> Target(t, id), for |-> None]
<1>1. Typed /\ ThreadInv(t) /\ call[t] \in Calls /\ Target(t, id) \in Ids
  BY CallFacts DEF Target
<1>2. PICK reply \in {"pending", "closed"} : reply = (IF Alive THEN "pending" ELSE "closed")
  OBVIOUS
<1>3. PICK blind \in BOOLEAN : blind = (notified[t] = None)
  BY Zenon
<1>4. PICK c : c = [call[t] EXCEPT !.at = at, !.reply = reply, !.blind = blind]
  OBVIOUS
<1>5. /\ c.at = at /\ c.reply = reply /\ (c.blind <=> blind) /\ c.turn = call[t].turn
      /\ c.key = call[t].key /\ c.answer = call[t].answer /\ c.waiter = call[t].waiter /\ c.with = call[t].with
  BY <1>1, <1>4 DEF Calls
<1>6. c \in Calls
  BY <1>1, <1>4 DEF Calls, Stages, Replies
<1>7. call' = [call EXCEPT ![t] = c]
  BY <1>2, <1>3, <1>4, Zenon DEF Interrupt
<1>8. call' \in [Threads -> Calls] /\ call'[t] = c /\ \A s \in Threads \ {t} : call'[s] = call[s]
  BY <1>1, <1>6, <1>7 DEF Typed
<1>9. /\ interrupts \subseteq interrupts' /\ (link = "up" => n \in interrupts')
      /\ \A i \in interrupts' : i \in interrupts \/ i = n
  BY DEF Interrupt, Alive
<1>10. n \in [thread : Threads, turn : Ids, for : Ids \cup {Asked}] /\ n.thread = t /\ n.turn = Target(t, id)
       /\ n.for = None
  BY <1>1, IdFacts
<1>11. /\ link' = link /\ failed' = failed /\ extras' = extras /\ wire' = wire /\ server' = server
       /\ open' = open /\ owned' = owned /\ count' = count /\ unmanaged' = unmanaged
       /\ notified' = notified /\ buffered' = buffered /\ retired' = retired /\ messages' = messages
       /\ results' = results /\ first' = first
  BY DEF Interrupt, registry, buffers
<1> HIDE DEF n
<1>12. Typed'
  <2>1. interrupts' \subseteq [thread : Threads, turn : Ids, for : Ids \cup {Asked}]
    BY <1>1, <1>9, <1>10 DEF Typed
  <2> QED
    BY <1>1, <1>8, <1>11, <2>1 DEF Typed
<1>13. ASSUME NEW s \in Threads \ {t}
       PROVE  SameThread(s)
  BY <1>8, <1>9, <1>10, <1>11 DEF SameThread
<1>14. AllSound(wire[t], server[t].turn, server[t].state)' /\ Seen(t)' /\ Returned(t)'
  BY <1>1, <1>11 DEF ThreadInv, Seen, Returned
<1>15. Placed(t)'
  <2>1. reply = "closed" => link # "up"
    BY <1>2 DEF Alive
  <2>2. (at \in Stops => ~blind) /\ (blind \/ notified[t] # None)
    BY <1>3 DEF Stops, Waits
  <2> QED
    BY <1>1, <1>5, <1>8, <1>11, <2>1, <2>2 DEF ThreadInv, Placed, Waits, Stops
<1>16. AnswerRead(t)'
  BY <1>1, <1>5, <1>8, <1>11 DEF ThreadInv, AnswerRead, Waits, Stops, AnswerKinds
<1>17. Numbered(t)'
  BY <1>1, <1>5, <1>8, <1>11 DEF ThreadInv, Numbered
<1>18. (Misled(t)' <=> Misled(t)) /\ (Deceived(t)' <=> Deceived(t))
  BY <1>11 DEF Misled, Deceived
<1>19. Retires(t)'
  BY <1>1, <1>5, <1>8, <1>11, <1>18 DEF ThreadInv, Retires, Stops, Waits
<1>20. Keeps(t)'
  BY <1>1, <1>5, <1>8, <1>11, <1>18 DEF ThreadInv, Keeps
<1>21. Streams(t)'
  BY <1>1, <1>11, <1>18 DEF ThreadInv, Streams
<1>22. Aimed(t)'
  <2>1. at \in Stops \cup (Waits \ {"waiting"}) \cup {"over"}
    OBVIOUS
  <2>2. \A i \in interrupts : i.thread = t => i.for # None
    BY <1>1 DEF ThreadInv, Aimed, Stops, Waits
  <2> QED
    BY <1>5, <1>8, <1>9, <1>10, <1>11, <1>18, <2>1, <2>2 DEF Aimed
<1>23. StopsTurn(t)'
  <2>1. notified[t] = Stream(k) => Target(t, id) = Stream(k)
    BY IdFacts, CallFacts, TurnAssumption DEF Target
  <2> QED
    BY <1>9, <1>10, <1>11, <2>1 DEF StopsTurn
<1>24. ThreadInv(t)'
  BY <1>14, <1>15, <1>16, <1>17, <1>19, <1>20, <1>21, <1>22, <1>23, Zenon DEF ThreadInv
<1> QED
  BY <1>12, <1>13, <1>24, ThreadStep

\* The turn that a call at work has read of is its own.
LEMMA TargetIsOwn ==
  ASSUME OwnershipInv, NEW t \in Threads, t \in open, ~Misled(t), notified[t] # None
  PROVE  notified[t] = Stream(server[t].turn) /\ notified[t][1] = server[t].turn
<1>1. notified[t] = Stream(server[t].turn) /\ server[t].turn \in 1 .. MaxTurns
  BY CallFacts DEF ThreadInv, Keeps
<1> QED
  BY <1>1, StreamFacts

LEMMA InterruptsStart ==
  ASSUME OwnershipInv, NEW t \in Threads, NEW at \in Stops, call[t].at = "starting", notified[t] # None,
         Interrupt(t, notified[t], at)
  PROVE  OwnershipInv'
<1>1. Target(t, notified[t]) = notified[t] /\ t \in open /\ notified[t] \in Ids
  BY CallFacts DEF Target
<1>2. Target(t, notified[t])[1] = server[t].turn \/ Misled(t)
  BY <1>1, TargetIsOwn
<1> QED
  BY <1>1, <1>2, InterruptInv

LEMMA InterruptsWait ==
  ASSUME OwnershipInv, NEW t \in Threads, NEW at \in Waits \ {"waiting"}, call[t].at = "waiting",
         Interrupt(t, call[t].key, at)
  PROVE  OwnershipInv'
<1>1. t \in open /\ call[t].key \in Ids /\ server[t].turn \in 1 .. MaxTurns
  BY CallFacts
<1>2. ~Misled(t) => call[t].key \in OwnIds(server[t].turn)
  BY <1>1, CallFacts DEF ThreadInv, Keeps, Placed, Waits
<1>3. ~Misled(t) => call[t].key[1] = server[t].turn
  BY <1>1, <1>2, StreamFacts
<1>4. Target(t, call[t].key)[1] = server[t].turn \/ Misled(t)
  BY <1>1, <1>3, TargetIsOwn DEF Target
<1> QED
  BY <1>1, <1>4, InterruptInv

LEMMA GraceInv ==
  ASSUME OwnershipInv, NEW t \in Threads, Grace(t)
  PROVE  OwnershipInv'
<1>1. Typed /\ ThreadInv(t) /\ call[t] \in Calls /\ call[t].at = "timed_out"
  BY CallFacts DEF Grace
<1>2. PICK c : c = [call[t] EXCEPT !.at = "grace"]
  OBVIOUS
<1>3. /\ c \in Calls /\ c.at = "grace" /\ c.reply = call[t].reply /\ (c.blind <=> call[t].blind)
      /\ c.turn = call[t].turn /\ c.key = call[t].key /\ c.answer = call[t].answer
      /\ c.waiter = call[t].waiter /\ c.with = call[t].with
  BY <1>1, <1>2 DEF Calls, Stages, Waits
<1>4. call' = [call EXCEPT ![t] = c]
  BY <1>2 DEF Grace
<1>5. call' \in [Threads -> Calls] /\ call'[t] = c /\ \A s \in Threads \ {t} : call'[s] = call[s]
  BY <1>1, <1>3, <1>4 DEF Typed
<1>6. /\ link' = link /\ failed' = failed /\ extras' = extras /\ wire' = wire /\ server' = server
      /\ open' = open /\ owned' = owned /\ count' = count /\ unmanaged' = unmanaged
      /\ notified' = notified /\ buffered' = buffered /\ retired' = retired /\ messages' = messages
      /\ results' = results /\ first' = first /\ interrupts' = interrupts
  BY DEF Grace, registry, buffers
<1>7. Typed'
  BY <1>1, <1>5, <1>6 DEF Typed
<1>8. ASSUME NEW s \in Threads \ {t}
      PROVE  SameThread(s)
  BY <1>5, <1>6 DEF SameThread
<1>9. AllSound(wire[t], server[t].turn, server[t].state)' /\ Seen(t)' /\ Returned(t)'
  BY <1>1, <1>6 DEF ThreadInv, Seen, Returned
<1>a. Numbered(t)'
  BY <1>1, <1>3, <1>5, <1>6 DEF ThreadInv, Numbered
<1>10. Placed(t)' /\ AnswerRead(t)'
  BY <1>1, <1>3, <1>5, <1>6 DEF ThreadInv, Placed, AnswerRead, Waits, Stops
<1>11. (Misled(t)' <=> Misled(t)) /\ (Deceived(t)' <=> Deceived(t))
  BY <1>6 DEF Misled, Deceived
<1>12. Retires(t)' /\ Streams(t)'
  BY <1>1, <1>3, <1>5, <1>6, <1>11 DEF ThreadInv, Retires, Streams
<1>13. Keeps(t)'
  BY <1>1, <1>3, <1>5, <1>6, <1>11 DEF ThreadInv, Keeps
<1>14. Aimed(t)' /\ StopsTurn(t)'
  BY <1>1, <1>3, <1>5, <1>6, <1>11 DEF ThreadInv, Aimed, StopsTurn, Waits
<1>15. ThreadInv(t)'
  BY <1>9, <1>a, <1>10, <1>12, <1>13, <1>14, Zenon DEF ThreadInv
<1> QED
  BY <1>7, <1>8, <1>15, ThreadStep

LEMMA BackendCancelInv ==
  ASSUME OwnershipInv, NEW t \in Threads, BackendCancel(t)
  PROVE  OwnershipInv'
<1> DEFINE n == [thread |-> t, turn |-> Target(t, call[t].key), for |-> Asked]
<1>1. Typed /\ ThreadInv(t) /\ Target(t, call[t].key) \in Ids
  BY CallFacts DEF Target
<1>2. /\ link' = link /\ failed' = failed /\ wire' = wire /\ server' = server /\ call' = call
      /\ open' = open /\ owned' = owned /\ count' = count /\ unmanaged' = unmanaged
      /\ notified' = notified /\ buffered' = buffered /\ retired' = retired /\ messages' = messages
      /\ results' = results /\ first' = first /\ interrupts' = interrupts \cup {n}
  BY DEF BackendCancel, registry, buffers
<1>3. n \in [thread : Threads, turn : Ids, for : Ids \cup {Asked}] /\ n.thread = t /\ n.for # None
  BY <1>1 DEF Asked, None
<1> HIDE DEF n
<1>4. Typed'
  <2>1. extras' \in 0 .. MaxExtras
    BY <1>1, TurnAssumption DEF BackendCancel, Typed
  <2> QED
    BY <1>1, <1>2, <1>3, <2>1 DEF Typed
<1>5. ASSUME NEW s \in Threads \ {t}
      PROVE  SameThread(s)
  BY <1>2, <1>3 DEF SameThread
<1>6. AllSound(wire[t], server[t].turn, server[t].state)' /\ Seen(t)' /\ Returned(t)' /\ Numbered(t)'
  BY <1>1, <1>2 DEF ThreadInv, Seen, Returned, Numbered
<1>7. Placed(t)' /\ AnswerRead(t)'
  BY <1>1, <1>2 DEF ThreadInv, Placed, AnswerRead
<1>8. (Misled(t)' <=> Misled(t)) /\ (Deceived(t)' <=> Deceived(t))
  BY <1>2 DEF Misled, Deceived
<1>9. Retires(t)' /\ Streams(t)' /\ Keeps(t)'
  BY <1>1, <1>2, <1>8 DEF ThreadInv, Retires, Streams, Keeps
<1>10. Aimed(t)'
  BY <1>1, <1>2, <1>3, <1>8 DEF ThreadInv, Aimed
<1>11. StopsTurn(t)'
  BY <1>1, <1>2, <1>8 DEF ThreadInv, StopsTurn
<1>12. ThreadInv(t)'
  BY <1>6, <1>7, <1>9, <1>10, <1>11, Zenon DEF ThreadInv
<1> QED
  BY <1>4, <1>5, <1>12, ThreadStep

\* A refused start whose cancellation is cancelled as well keeps its ownership.
LEMMA CancelRefused ==
  ASSUME OwnershipInv, NEW t \in Threads, call[t].at = "refused",
         call' = [call EXCEPT ![t] = [NoCall EXCEPT !.at = "over", !.turn = call[t].turn]],
         UNCHANGED <<link, failed, extras, wire, server, registry, buffers, results, interrupts, first>>
  PROVE  OwnershipInv'
<1>1. Typed /\ ThreadInv(t) /\ call[t].turn \in 0 .. MaxTurns /\ call[t].turn = server[t].turn
  BY CallFacts
<1>2. PICK c : c = [NoCall EXCEPT !.at = "over", !.turn = call[t].turn]
  OBVIOUS
<1>3. /\ c.at = "over" /\ c.reply = "none" /\ c.blind = FALSE /\ c.turn = call[t].turn
      /\ c.key = None /\ c.answer = None /\ c.waiter = "none" /\ c.with = None
  BY <1>2 DEF NoCall
<1>4. c \in Calls
  BY <1>1, <1>2, IdFacts DEF NoCall, Calls, Stages, Replies
<1>5. call' \in [Threads -> Calls] /\ call'[t] = c /\ \A s \in Threads \ {t} : call'[s] = call[s]
  BY <1>1, <1>2, <1>4 DEF Typed
<1>6. /\ link' = link /\ failed' = failed /\ extras' = extras /\ wire' = wire /\ server' = server
      /\ open' = open /\ owned' = owned /\ count' = count /\ unmanaged' = unmanaged
      /\ notified' = notified /\ buffered' = buffered /\ retired' = retired /\ messages' = messages
      /\ results' = results /\ first' = first /\ interrupts' = interrupts
  BY DEF registry, buffers
<1>7. Typed'
  BY <1>1, <1>5, <1>6 DEF Typed
<1>8. ASSUME NEW s \in Threads \ {t}
      PROVE  SameThread(s)
  BY <1>5, <1>6 DEF SameThread
<1>9. AllSound(wire[t], server[t].turn, server[t].state)' /\ Seen(t)' /\ Returned(t)'
  BY <1>1, <1>6 DEF ThreadInv, Seen, Returned
<1>10. Numbered(t)'
  <2>1. None[1] \in 0 .. server[t].turn /\ None \notin retired[t]
    BY IdFacts, CallFacts
  <2>2. /\ notified[t][1] \in 0 .. server[t].turn /\ buffered[t][1] \in 0 .. server[t].turn
        /\ \A id \in retired[t] : id[1] <= server[t].turn /\ (t \in open => id[1] < server[t].turn)
        /\ t \in open => buffered[t] \notin retired[t]
    BY <1>1 DEF ThreadInv, Numbered
  <2>3. c.key[1] \in 0 .. server[t].turn /\ c.with[1] \in 0 .. server[t].turn /\ c.with \notin retired[t]
    BY <1>3, <2>1
  <2>4. c.waiter = "done" <=> c.with # None
    BY <1>3
  <2>5. /\ call'[t] = c /\ server'[t] = server[t] /\ notified'[t] = notified[t] /\ buffered'[t] = buffered[t]
        /\ retired'[t] = retired[t] /\ open' = open
    BY <1>5, <1>6
  <2> QED
    BY <2>2, <2>3, <2>4, <2>5 DEF Numbered
<1>11. Placed(t)' /\ AnswerRead(t)'
  BY <1>1, <1>3, <1>5, <1>6 DEF ThreadInv, Placed, AnswerRead, Waits, Stops, AnswerKinds
<1>12. (Misled(t)' <=> Misled(t)) /\ (Deceived(t)' <=> Deceived(t))
  BY <1>6 DEF Misled, Deceived
<1>13. Retires(t)' /\ Streams(t)'
  BY <1>1, <1>3, <1>5, <1>6, <1>12 DEF ThreadInv, Retires, Streams
<1>14. Keeps(t)'
  BY <1>1, <1>3, <1>5, <1>6, <1>12 DEF ThreadInv, Keeps
<1>15. Aimed(t)'
  BY <1>3, <1>5 DEF Aimed
<1>16. StopsTurn(t)'
  BY <1>1, <1>3, <1>5, <1>6, <1>12 DEF ThreadInv, Placed, StopsTurn, Stops
<1>17. ThreadInv(t)'
  BY <1>9, <1>10, <1>11, <1>13, <1>14, <1>15, <1>16, Zenon DEF ThreadInv
<1> QED
  BY <1>7, <1>8, <1>17, ThreadStep

(***************************************************************************)
(* The transport: every call is told, whatever its thread.                 *)
(***************************************************************************)
LEMMA FailPendingInv ==
  ASSUME OwnershipInv, FailPending, link' \in {"stalled", "closed"}, link' = "stalled" => link = "up",
         UNCHANGED <<failed, extras, server, registry, buffers, results, interrupts, first>>,
         wire' = wire \/ (link' = "closed" /\ wire' = [t \in Threads |-> <<>>])
  PROVE  OwnershipInv'
<1>1. Typed
  BY DEF OwnershipInv
<1>2. ASSUME NEW t \in Threads
      PROVE  /\ call'[t] \in Calls /\ call'[t].at = call[t].at /\ call'[t].turn = call[t].turn
             /\ call'[t].answer = call[t].answer /\ call'[t].key = call[t].key /\ call'[t].with = call[t].with
             /\ call'[t].blind <=> call[t].blind
             /\ call'[t].reply = call[t].reply \/ (call[t].reply = "pending" /\ call'[t].reply = "closed")
             /\ call'[t].waiter = call[t].waiter \/ (call[t].waiter = "pending" /\ call'[t].waiter = "closed")
  <2>1. PICK reply \in Replies : reply = (IF call[t].reply = "pending" THEN "closed" ELSE call[t].reply)
    BY <1>1, ThreadTypes DEF Replies
  <2>2. PICK waiter \in {"none", "pending", "done", "closed"} :
          waiter = (IF call[t].waiter = "pending" THEN "closed" ELSE call[t].waiter)
    BY <1>1, ThreadTypes
  <2>3. call'[t] = [call[t] EXCEPT !.reply = reply, !.waiter = waiter]
    BY <2>1, <2>2 DEF FailPending
  <2>4. call[t] \in Calls
    BY <1>1 DEF Typed
  <2>5. PICK c : c = [call[t] EXCEPT !.reply = reply, !.waiter = waiter]
    OBVIOUS
  <2>6. c \in Calls
    BY <2>1, <2>2, <2>4, <2>5 DEF Calls
  <2>7. c.reply = reply /\ c.waiter = waiter
    BY <2>4, <2>5 DEF Calls
  <2>8. /\ c.at = call[t].at /\ c.turn = call[t].turn /\ c.answer = call[t].answer /\ c.key = call[t].key
        /\ c.with = call[t].with /\ (c.blind <=> call[t].blind)
    BY <2>4, <2>5 DEF Calls
  <2>9. /\ reply = call[t].reply \/ (call[t].reply = "pending" /\ reply = "closed")
        /\ waiter = call[t].waiter \/ (call[t].waiter = "pending" /\ waiter = "closed")
    BY <2>1, <2>2
  <2>10. call'[t] = c
    BY <2>3, <2>5
  <2> QED
    BY <2>6, <2>7, <2>8, <2>9, <2>10
<1>3. /\ failed' = failed /\ extras' = extras /\ server' = server
      /\ open' = open /\ owned' = owned /\ count' = count /\ unmanaged' = unmanaged
      /\ notified' = notified /\ buffered' = buffered /\ retired' = retired /\ messages' = messages
      /\ results' = results /\ first' = first /\ interrupts' = interrupts
  BY DEF registry, buffers
<1>4. Typed'
  <2>1. call' \in [Threads -> Calls]
    BY <1>2 DEF FailPending
  <2>2. wire' \in [Threads -> Seq(Messages)]
    <3>1. wire \in [Threads -> Seq(Messages)] /\ <<>> \in Seq(Messages)
      BY <1>1 DEF Typed
    <3>2. CASE wire' = wire
      BY <3>1, <3>2
    <3>3. CASE wire' = [t \in Threads |-> <<>>]
      BY <3>1, <3>3
    <3> QED
      BY <3>2, <3>3
  <2> QED
    BY <1>1, <1>3, <2>1, <2>2 DEF Typed
<1>5. ASSUME NEW t \in Threads
      PROVE  ThreadInv(t)'
  <2>1. ThreadInv(t) /\ server'[t] = server[t] /\ call[t] \in Calls
    BY <1>1, <1>3 DEF OwnershipInv, Typed
  <2>2. wire'[t] = wire[t] \/ (wire'[t] = <<>> /\ link' = "closed")
    BY <1>1 DEF Typed
  <2>3. /\ AllSound(wire'[t], server[t].turn, server[t].state) /\ OneAnswer(wire'[t])
        /\ NoAnswer(wire[t]) => NoAnswer(wire'[t])
        /\ Preceded(wire[t], server[t].turn) => Preceded(wire'[t], server[t].turn)
        /\ link' # "closed" => wire'[t] = wire[t] /\ link # "closed"
    BY <2>1, <2>2, NothingSent DEF ThreadInv, AnswerRead
  <2>4. AllSound(wire[t], server[t].turn, server[t].state)' /\ Seen(t)' /\ Returned(t)'
    BY <1>3, <2>1, <2>3 DEF ThreadInv, Seen, Returned
  <2>5. Numbered(t)'
    BY <1>2, <1>3, <2>1 DEF ThreadInv, Numbered
  <2>a. PICK c : c = call'[t]
    OBVIOUS
  <2>b. /\ c.at = call[t].at /\ c.turn = call[t].turn /\ c.answer = call[t].answer /\ (c.blind <=> call[t].blind)
        /\ c.reply = call[t].reply \/ (call[t].reply = "pending" /\ c.reply = "closed")
        /\ c.waiter = call[t].waiter \/ (call[t].waiter = "pending" /\ c.waiter = "closed")
    BY <1>2, <2>a
  <2>6. Placed(t)'
    BY <1>3, <2>1, <2>a, <2>b DEF ThreadInv, Placed
  <2>7. AnswerRead(t)'
    BY <1>3, <2>1, <2>3, <2>a, <2>b DEF ThreadInv, AnswerRead, AnswerKinds
  <2>8. (Misled(t)' <=> Misled(t)) /\ (Deceived(t)' <=> Deceived(t))
    BY <1>3 DEF Misled, Deceived
  <2>9. Retires(t)' /\ Streams(t)'
    BY <1>2, <1>3, <2>1, <2>3, <2>8 DEF ThreadInv, Retires, Streams
  <2>10. Keeps(t)'
    BY <1>2, <1>3, <2>1, <2>8 DEF ThreadInv, Keeps
  <2>11. Aimed(t)' /\ StopsTurn(t)'
    BY <1>2, <1>3, <2>1, <2>8 DEF ThreadInv, Aimed, StopsTurn
  <2> QED
    BY <2>4, <2>5, <2>6, <2>7, <2>9, <2>10, <2>11, Zenon DEF ThreadInv
<1> QED
  BY <1>4, <1>5 DEF OwnershipInv

LEMMA TransportLostInv ==
  ASSUME OwnershipInv, TransportLost
  PROVE  OwnershipInv'
BY FailPendingInv DEF TransportLost

LEMMA RequestTimesOutInv ==
  ASSUME OwnershipInv, NEW t \in Threads, RequestTimesOut(t)
  PROVE  OwnershipInv'
BY FailPendingInv DEF RequestTimesOut, Alive

(***************************************************************************)
(* Begin, Started and Completes.                                           *)
(***************************************************************************)
\* An idle thread: no answer is awaited, and its turns are retired.
LEMMA IdleFacts ==
  ASSUME OwnershipInv, NEW t \in Threads, call[t].at = "idle"
  PROVE  /\ server[t].answered /\ NoAnswer(wire[t]) /\ t \notin open
         /\ call[t].waiter = "none" /\ call[t].with = None
         /\ ~Deceived(t) => \A j \in 1 .. server[t].turn : Stream(j) \in retired[t]
         /\ \A i \in interrupts : i.thread = t => i.for # None
<1>1. ThreadInv(t)
  BY CallFacts
<1>2. server[t].answered /\ NoAnswer(wire[t])
  BY <1>1 DEF ThreadInv, AnswerRead
<1>3. t \notin open /\ call[t].waiter = "none"
  BY <1>1 DEF ThreadInv, Placed, Waits
<1>4. call[t].with = None
  BY <1>1, <1>3 DEF ThreadInv, Numbered
<1>5. ~Deceived(t) => \A j \in 1 .. server[t].turn : Stream(j) \in retired[t]
  BY <1>1 DEF ThreadInv, Retires
<1>6. \A i \in interrupts : i.thread = t => i.for # None
  BY <1>1 DEF ThreadInv, Aimed, Stops, Waits
<1> QED
  BY <1>2, <1>3, <1>4, <1>5, <1>6

LEMMA BeginRefused ==
  ASSUME OwnershipInv, NEW t \in Threads, Begin(t), unmanaged[t] # {} \/ ~Alive
  PROVE  OwnershipInv'
<1>1. Typed /\ ThreadInv(t) /\ call[t].turn \in 0 .. MaxTurns /\ call[t].turn = server[t].turn
  BY CallFacts
<1>2. PICK c : c = [NoCall EXCEPT !.at = "over", !.turn = call[t].turn]
  OBVIOUS
<1>3. /\ c.at = "over" /\ c.reply = "none" /\ c.blind = FALSE /\ c.turn = call[t].turn
      /\ c.key = None /\ c.answer = None /\ c.waiter = "none" /\ c.with = None
  BY <1>2 DEF NoCall
<1>4. c \in Calls
  BY <1>1, <1>2, IdFacts DEF NoCall, Calls, Stages, Replies
<1>5. call' = [call EXCEPT ![t] = c]
  BY <1>2 DEF Begin
<1>6. call' \in [Threads -> Calls] /\ call'[t] = c /\ \A s \in Threads \ {t} : call'[s] = call[s]
  BY <1>1, <1>4, <1>5 DEF Typed
<1>7. /\ link' = link /\ failed' = failed /\ extras' = extras /\ wire' = wire /\ server' = server
      /\ open' = open /\ owned' = owned /\ count' = count /\ unmanaged' = unmanaged
      /\ retired' = retired /\ messages' = messages /\ results' = results /\ interrupts' = interrupts
  BY DEF Begin
<1>8. /\ notified' \in [Threads -> Ids] /\ buffered' \in [Threads -> Ids] /\ first' \in [Threads -> Ids]
      /\ notified'[t] = None /\ buffered'[t] = None /\ first'[t] = None
      /\ \A s \in Threads \ {t} : notified'[s] = notified[s] /\ buffered'[s] = buffered[s] /\ first'[s] = first[s]
  BY <1>1, IdFacts DEF Begin, Typed
<1>9. Typed'
  BY <1>1, <1>6, <1>7, <1>8 DEF Typed
<1>10. ASSUME NEW s \in Threads \ {t}
       PROVE  SameThread(s)
  BY <1>6, <1>7, <1>8 DEF SameThread
<1>11. call[t].at = "idle" /\ t \notin open'
  BY <1>7, IdleFacts DEF Begin
<1>12. AllSound(wire[t], server[t].turn, server[t].state)' /\ Returned(t)'
  BY <1>1, <1>7 DEF ThreadInv, Returned
<1>13. Numbered(t)'
  <2>1. None[1] \in 0 .. server[t].turn
    BY IdFacts, CallFacts
  <2> QED
    BY <1>1, <1>3, <1>6, <1>7, <1>8, <1>11, <2>1 DEF ThreadInv, Numbered
<1>14. Placed(t)' /\ AnswerRead(t)'
  BY <1>1, <1>3, <1>6, <1>7, <1>11 DEF ThreadInv, Placed, AnswerRead, Waits, Stops, AnswerKinds
<1>15. Retires(t)' /\ Streams(t)' /\ Keeps(t)' /\ Aimed(t)'
  BY <1>3, <1>6, <1>11 DEF Retires, Streams, Keeps, Aimed
<1>16. Seen(t)' /\ StopsTurn(t)'
  <2>1. notified'[t] # Stream(server[t].turn)
    BY <1>8, IdFacts, CallFacts, TurnAssumption
  <2> QED
    BY <1>7, <2>1 DEF Seen, StopsTurn
<1>17. ThreadInv(t)'
  BY <1>12, <1>13, <1>14, <1>15, <1>16, Zenon DEF ThreadInv
<1> QED
  BY <1>9, <1>10, <1>17, ThreadStep

LEMMA BeginGranted ==
  ASSUME OwnershipInv, NEW t \in Threads, Begin(t), unmanaged[t] = {}, Alive
  PROVE  OwnershipInv'
<1> DEFINE k == call[t].turn + 1
<1>1. /\ Typed /\ ThreadInv(t) /\ call[t].turn \in 0 .. MaxTurns /\ call[t].turn = server[t].turn
      /\ call[t] \in Calls /\ server[t] \in Servers /\ call[t].at = "idle" /\ call[t].turn < MaxTurns
      /\ MaxTurns \in Nat
  BY CallFacts, ServerFacts DEF Begin
<1>2. k \in 1 .. MaxTurns /\ k \in 0 .. MaxTurns /\ k - 1 = server[t].turn
  BY <1>1
<1> HIDE DEF k
<1>3. PICK c : c = [call[t] EXCEPT !.at = "starting", !.turn = k, !.reply = "pending"]
  OBVIOUS
<1>4. /\ c \in Calls /\ c.at = "starting" /\ c.reply = "pending" /\ c.turn = k
      /\ c.key = call[t].key /\ c.waiter = "none" /\ c.with = None
  <2>1. c \in Calls
    <3>1. "starting" \in Stages /\ "pending" \in Replies
      BY DEF Stages, Replies
    <3> QED
      BY <1>1, <1>2, <1>3, <3>1 DEF Calls
  <2> QED
    BY <1>1, <1>3, <2>1, IdleFacts DEF Calls
<1>5. PICK v : v = [server[t] EXCEPT !.turn = k, !.state = "asked", !.answered = FALSE]
  OBVIOUS
<1>6. v \in Servers /\ v.turn = k /\ v.state = "asked" /\ v.answered = FALSE
  BY <1>1, <1>2, <1>5 DEF Servers
<1>7. call' = [call EXCEPT ![t] = c] /\ server' = [server EXCEPT ![t] = v]
  BY <1>3, <1>5 DEF Begin, k
<1>8. /\ call' \in [Threads -> Calls] /\ call'[t] = c /\ \A s \in Threads \ {t} : call'[s] = call[s]
      /\ server' \in [Threads -> Servers] /\ server'[t] = v /\ \A s \in Threads \ {t} : server'[s] = server[s]
  BY <1>1, <1>4, <1>6, <1>7 DEF Typed
<1>9. /\ link' = link /\ failed' = failed /\ extras' = extras /\ wire' = wire
      /\ unmanaged' = unmanaged /\ open' = open \cup {t}
      /\ retired' = retired /\ messages' = messages /\ results' = results /\ interrupts' = interrupts
  BY DEF Begin
<1>10. /\ notified' \in [Threads -> Ids] /\ buffered' \in [Threads -> Ids] /\ first' \in [Threads -> Ids]
       /\ notified'[t] = None /\ buffered'[t] = None /\ first'[t] = None
       /\ \A s \in Threads \ {t} : notified'[s] = notified[s] /\ buffered'[s] = buffered[s] /\ first'[s] = first[s]
  BY <1>1, IdFacts DEF Begin, Typed
<1>11. /\ owned' \in [Threads -> SUBSET (Ids \ {None})] /\ count' \in [Threads -> {0, 1}]
       /\ owned'[t] = {} /\ count'[t] = 0
       /\ \A s \in Threads \ {t} : owned'[s] = owned[s] /\ count'[s] = count[s]
  <2>1. owned' = [owned EXCEPT ![t] = {}] /\ count' = [count EXCEPT ![t] = 0]
    BY DEF Begin
  <2>2. owned \in [Threads -> SUBSET (Ids \ {None})] /\ count \in [Threads -> {0, 1}]
    BY <1>1 DEF Typed
  <2>3. owned' \in [Threads -> SUBSET (Ids \ {None})] /\ owned'[t] = {}
        /\ \A s \in Threads \ {t} : owned'[s] = owned[s]
    BY <2>1, <2>2
  <2>4. count' \in [Threads -> {0, 1}] /\ count'[t] = 0 /\ \A s \in Threads \ {t} : count'[s] = count[s]
    BY <2>1, <2>2
  <2> QED
    BY <2>3, <2>4
<1>12. Typed'
  BY <1>1, <1>8, <1>9, <1>10, <1>11 DEF Typed
<1>13. ASSUME NEW s \in Threads \ {t}
       PROVE  SameThread(s)
  BY <1>8, <1>9, <1>10, <1>11 DEF SameThread
<1>14. AllSound(wire[t], k, "asked") /\ Preceded(wire[t], k)
  <2>1. AllSound(wire[t], k, "asked")
    <3>1. server[t].turn \in 0 .. MaxTurns - 1 /\ server[t].turn + 1 = k
      BY <1>1, <1>2
    <3> QED
      BY <1>1, <3>1, IdleFacts, SoundNext DEF ThreadInv
  <2> QED
    BY <1>2, <2>1, NotEnded
<1>15. AllSound(wire[t], server[t].turn, server[t].state)' /\ Returned(t)'
  BY <1>1, <1>6, <1>8, <1>9, <1>14 DEF ThreadInv, Returned
<1>16. Numbered(t)'
  <2>1. None[1] \in 0 .. k /\ None \notin retired[t] /\ call[t].key[1] \in 0 .. k
    BY <1>1, <1>2, IdFacts, CallFacts
  <2>2. \A id \in retired[t] : id[1] <= k /\ id[1] < k
    <3>1. \A id \in retired[t] : id[1] \in 0 .. MaxTurns
      BY IdFacts, CallFacts
    <3> QED
      BY <1>1, <1>2, <3>1, CallFacts
  <2> QED
    BY <1>4, <1>6, <1>8, <1>9, <1>10, <2>1, <2>2 DEF Numbered
<1>17. Placed(t)'
  BY <1>2, <1>4, <1>6, <1>8, <1>9 DEF Placed, Waits, Stops
<1>18. AnswerRead(t)'
  BY <1>1, <1>4, <1>6, <1>8, <1>9, IdleFacts DEF ThreadInv, AnswerRead, Waits, AnswerKinds
<1>19. Retires(t)'
  <2>1. Deceived(t)' <=> Deceived(t)
    BY <1>9 DEF Deceived
  <2> QED
    BY <1>1, <1>2, <1>4, <1>6, <1>8, <1>9, <2>1, IdleFacts DEF Retires
<1>20. notified'[t] # Stream(k)
  BY <1>2, <1>10, IdFacts, TurnAssumption
<1>21. Keeps(t)' /\ Seen(t)'
  BY <1>4, <1>6, <1>8, <1>10, <1>11, <1>20 DEF Keeps, Seen
<1>22. Streams(t)'
  BY <1>6, <1>8, <1>9, <1>14 DEF Streams
<1>23. Aimed(t)'
  BY <1>1, <1>9, IdleFacts DEF Aimed
<1>24. StopsTurn(t)'
  BY <1>4, <1>6, <1>8 DEF StopsTurn
<1>25. ThreadInv(t)'
  BY <1>15, <1>16, <1>17, <1>18, <1>19, <1>21, <1>22, <1>23, <1>24, Zenon DEF ThreadInv
<1> QED
  BY <1>12, <1>13, <1>25, ThreadStep

LEMMA StartedInv ==
  ASSUME OwnershipInv, NEW t \in Threads, Started(t)
  PROVE  OwnershipInv'
<1> DEFINE k == server[t].turn
<1>1. /\ Typed /\ ThreadInv(t) /\ call[t] \in Calls /\ call[t].at = "starting" /\ t \in open
      /\ k \in 1 .. MaxTurns /\ call[t].reply \in {"answered", "answeredEnded"} /\ call[t].answer \in OwnIds(k)
      /\ server[t].answered /\ NoAnswer(wire[t]) /\ call[t].turn = k
  BY CallFacts DEF Started, ThreadInv, AnswerRead, AnswerKinds
<1>2. call[t].answer \in Ids \ {None, Foreign} /\ call[t].answer[1] = k
  BY <1>1, StreamFacts
<1>3. PICK early : early = IF call[t].reply = "answeredEnded" THEN call[t].answer ELSE buffered[t]
  OBVIOUS
<1>4. /\ early \in Ids /\ early[1] \in 0 .. k /\ early \notin retired[t]
      /\ early = buffered[t] \/ (early = call[t].answer /\ call[t].reply = "answeredEnded")
  <2>1. call[t].answer \notin retired[t]
    BY <1>1, <1>2, CallFacts DEF ThreadInv, Numbered
  <2>2. buffered[t] \notin retired[t] /\ buffered[t] \in Ids /\ buffered[t][1] \in 0 .. k
    BY <1>1, CallFacts DEF ThreadInv, Numbered
  <2> QED
    BY <1>1, <1>2, <1>3, <2>1, <2>2
<1>5. PICK waiter \in {"done", "pending"} : waiter = (IF early # None THEN "done" ELSE "pending")
  OBVIOUS
<1>6. PICK key \in {notified[t], call[t].answer} : key = Target(t, call[t].answer)
  BY DEF Target
<1>7. key \in Ids /\ key[1] \in 0 .. k /\ (notified[t] # None => key = notified[t])
      /\ (notified[t] = None => key = call[t].answer)
  BY <1>1, <1>2, <1>6, CallFacts DEF Target
<1>8. PICK c : c = [call[t] EXCEPT !.at = "waiting", !.reply = "none", !.key = key, !.waiter = waiter, !.with = early]
  OBVIOUS
<1>9. /\ c \in Calls /\ c.at = "waiting" /\ c.reply = "none" /\ c.key = key /\ c.waiter = waiter /\ c.with = early
      /\ c.turn = call[t].turn /\ c.answer = call[t].answer
  <2>1. "waiting" \in Stages /\ "none" \in Replies
    BY DEF Stages, Waits, Replies
  <2> QED
    BY <1>1, <1>4, <1>5, <1>7, <1>8, <2>1 DEF Calls
<1>10. call' = [call EXCEPT ![t] = c]
  BY <1>3, <1>5, <1>6, <1>8 DEF Started
<1>11. call' \in [Threads -> Calls] /\ call'[t] = c /\ \A s \in Threads \ {t} : call'[s] = call[s]
  BY <1>1, <1>9, <1>10 DEF Typed
<1>12. /\ link' = link /\ failed' = failed /\ extras' = extras /\ wire' = wire /\ server' = server
       /\ open' = open /\ count' = count /\ unmanaged' = unmanaged
       /\ notified' = notified /\ retired' = retired /\ messages' = messages
       /\ results' = results /\ first' = first /\ interrupts' = interrupts
  BY DEF Started
<1>13. /\ owned' \in [Threads -> SUBSET (Ids \ {None})] /\ buffered' \in [Threads -> Ids]
       /\ owned'[t] = owned[t] \cup {call[t].answer} /\ buffered'[t] = None
       /\ \A s \in Threads \ {t} : owned'[s] = owned[s] /\ buffered'[s] = buffered[s]
  BY <1>1, <1>2, IdFacts DEF Started, Discard, Typed
<1>14. Typed'
  BY <1>1, <1>11, <1>12, <1>13 DEF Typed
<1>15. ASSUME NEW s \in Threads \ {t}
       PROVE  SameThread(s)
  BY <1>11, <1>12, <1>13 DEF SameThread
<1>16. AllSound(wire[t], server[t].turn, server[t].state)' /\ Returned(t)' /\ Seen(t)'
  BY <1>1, <1>12 DEF ThreadInv, Returned, Seen
<1>17. Numbered(t)'
  <2>1. None[1] \in 0 .. k /\ None \notin retired[t]
    BY <1>1, IdFacts, CallFacts
  <2> QED
    BY <1>1, <1>4, <1>5, <1>7, <1>9, <1>11, <1>12, <1>13, <2>1 DEF ThreadInv, Numbered
<1>18. Placed(t)' /\ AnswerRead(t)'
  BY <1>1, <1>5, <1>9, <1>11, <1>12 DEF ThreadInv, Placed, AnswerRead, Waits, Stops
<1>19. (Misled(t)' <=> Misled(t)) /\ (Deceived(t)' <=> Deceived(t))
  BY <1>12 DEF Misled, Deceived
<1>20. Retires(t)' /\ Streams(t)'
  BY <1>1, <1>9, <1>11, <1>12, <1>19 DEF ThreadInv, Retires, Streams
<1>21. Keeps(t)'
  <2>1. SUFFICES ASSUME ~Misled(t)
                 PROVE  Keeps(t)'
    BY <1>19 DEF Keeps
  <2>2. /\ notified[t] \in {None, Stream(k)} /\ first[t] = notified[t]
        /\ (notified[t] = None) = (count[t] = 0)
        /\ notified[t] = Stream(k) => notified[t] \in owned[t] /\ server[t].state \in {"running", "ended"}
        /\ owned[t] \subseteq OwnIds(k) /\ buffered[t] \in {None, Stream(k)}
        /\ buffered[t] = Stream(k) \/ call[t].reply = "answeredEnded"
             => server[t].state = "ended" /\ notified[t] = Stream(k)
    BY <1>1, <2>1 DEF ThreadInv, Keeps
  <2>3. key \in OwnIds(k) /\ Stream(k) \in OwnIds(k) /\ Stream(k) # None
    <3>1. Stream(k) \in OwnIds(k) /\ Stream(k) # None
      BY <1>1, StreamFacts
    <3>2. key \in {Stream(k), call[t].answer}
      BY <1>7, <2>2
    <3> QED
      BY <1>1, <3>1, <3>2
  <2>4. waiter = "done" => server[t].state = "ended" /\ notified[t] = Stream(k)
                           /\ early \in OwnIds(k) /\ key = Stream(k)
    BY <1>1, <1>4, <1>5, <1>7, <2>2, <2>3
  <2> QED
    BY <1>1, <1>5, <1>9, <1>11, <1>12, <1>13, <2>2, <2>3, <2>4 DEF Keeps
<1>22. Aimed(t)' /\ StopsTurn(t)'
  BY <1>1, <1>9, <1>11, <1>12 DEF ThreadInv, Aimed, StopsTurn, Waits, Stops
<1>23. ThreadInv(t)'
  BY <1>16, <1>17, <1>18, <1>20, <1>21, <1>22, Zenon DEF ThreadInv
<1> QED
  BY <1>14, <1>15, <1>23, ThreadStep

\* The output of a call is none, or that of one of its ids.
LEMMA TextFacts ==
  ASSUME NEW t \in Threads, NEW done
  PROVE  Text(t, done) \in {None, done, call[t].key, call[t].answer}
<1> DEFINE have == {i \in 1 .. 3 : CallIds(t, done)[i] \in messages[t]}
<1>1. \A i \in 1 .. 3 : CallIds(t, done)[i] \in {done, call[t].key, call[t].answer}
  BY DEF CallIds
<1>2. CASE have = {}
  BY <1>2 DEF Text
<1>3. CASE have # {}
  <2>1. \E i \in have : \A j \in have : i <= j
    <3>1. have \subseteq {1, 2, 3}
      OBVIOUS
    <3> HIDE DEF have
    <3>2. CASE 1 \in have
      BY <3>1, <3>2
    <3>3. CASE 1 \notin have /\ 2 \in have
      BY <3>1, <3>3
    <3>4. CASE 1 \notin have /\ 2 \notin have
      <4>1. PICK i \in have : i \in {1, 2, 3}
        BY <1>3, <3>1
      <4>2. i = 3 /\ have = {3}
        BY <3>1, <3>4, <4>1
      <4> QED
        BY <4>2
    <3> QED
      BY <3>2, <3>3, <3>4
  <2>2. PICK i : i = CHOOSE n \in have : \A j \in have : n <= j
    OBVIOUS
  <2>3. i \in have
    BY <2>1, <2>2
  <2>4. Text(t, done) = CallIds(t, done)[i]
    BY <1>3, <2>2 DEF Text
  <2> QED
    BY <1>1, <2>3, <2>4
<1> QED
  BY <1>2, <1>3

\* What a call returns joins what was returned on the thread.
LEMMA ReturnsJoin ==
  ASSUME NEW rs \in Seq(Ended), NEW r \in Ended
  PROVE  /\ Append(rs, r) \in Seq(Ended) /\ Len(Append(rs, r)) = Len(rs) + 1 /\ Len(rs) \in Nat
         /\ \A i \in 1 .. Len(rs) : Append(rs, r)[i] = rs[i]
         /\ Append(rs, r)[Len(rs) + 1] = r
OBVIOUS

\* What a call that completes returns, and what it retires.
LEMMA CompletesFacts ==
  ASSUME OwnershipInv, NEW t \in Threads, call[t].at = "waiting", call[t].waiter = "done"
  PROVE  LET k == server[t].turn
             with == call[t].with
             ids == {with, call[t].key, call[t].answer}
         IN  /\ t \in open /\ k \in 1 .. MaxTurns /\ call[t].turn = k
             /\ ids \subseteq Ids /\ (\A id \in ids : id[1] <= k)
             /\ with # None /\ with \notin retired[t]
             /\ ~Misled(t) => /\ Stream(k) \in ids /\ with[1] = k /\ Text(t, with)[1] \in {0, k}
                              /\ server[t].state = "ended"
                              /\ \A j \in 1 .. k - 1 : Stream(j) \in retired[t]
             /\ server[t].answered /\ NoAnswer(wire[t])
             /\ \A i \in interrupts : i.thread = t => i.for # None
<1> DEFINE k == server[t].turn
           with == call[t].with
           ids == {with, call[t].key, call[t].answer}
<1>1. Typed /\ ThreadInv(t) /\ t \in open /\ k \in 1 .. MaxTurns /\ call[t].turn = k /\ call[t].at \in Waits
  BY CallFacts DEF Waits
<1>2. ids \subseteq Ids /\ (\A id \in ids : id[1] <= k)
  BY <1>1, HeldIds
<1>3. with # None /\ with \notin retired[t]
  BY <1>1 DEF ThreadInv, Numbered
<1>4. server[t].answered /\ NoAnswer(wire[t]) /\ call[t].answer \in OwnIds(k)
  BY <1>1 DEF ThreadInv, AnswerRead
<1>5. \A i \in interrupts : i.thread = t => i.for # None
  BY <1>1 DEF ThreadInv, Aimed, Stops, Waits
<1>6. ASSUME ~Misled(t)
      PROVE  /\ Stream(k) \in ids /\ with[1] = k /\ Text(t, with)[1] \in {0, k} /\ server[t].state = "ended"
             /\ \A j \in 1 .. k - 1 : Stream(j) \in retired[t]
  <2>1. /\ server[t].state = "ended" /\ call[t].key \in OwnIds(k) /\ with \in OwnIds(k)
        /\ Stream(k) \in {with, call[t].key}
    BY <1>1, <1>6 DEF ThreadInv, Keeps
  <2>2. ~Deceived(t) /\ first[t] # Foreign
    BY <1>1, <1>6, ThreadTypes DEF Misled, Deceived
  <2>3. \A j \in 1 .. k - 1 : Stream(j) \in retired[t]
    BY <1>1, <2>2 DEF ThreadInv, Retires
  <2>4. with[1] = k /\ call[t].key[1] = k /\ call[t].answer[1] = k
    BY <1>1, <1>4, <2>1, StreamFacts
  <2>5. Text(t, with)[1] \in {0, k}
    BY <2>4, TextFacts, IdFacts
  <2> QED
    BY <2>1, <2>3, <2>4, <2>5
<1> QED
  BY <1>1, <1>2, <1>3, <1>4, <1>5, <1>6

LEMMA CompletesInv ==
  ASSUME OwnershipInv, NEW t \in Threads, Completes(t)
  PROVE  OwnershipInv'
<1> DEFINE k == server[t].turn
           with == call[t].with
           ids == {with, call[t].key, call[t].answer}
           R == retired[t] \cup (ids \ {None})
           M == messages[t] \ ids
<1>1. /\ t \in open /\ k \in 1 .. MaxTurns /\ call[t].turn = k
      /\ ids \subseteq Ids /\ (\A id \in ids : id[1] <= k)
      /\ with # None /\ with \notin retired[t]
      /\ ~Misled(t) => /\ Stream(k) \in ids /\ with[1] = k /\ Text(t, with)[1] \in {0, k}
                       /\ server[t].state = "ended"
                       /\ \A j \in 1 .. k - 1 : Stream(j) \in retired[t]
      /\ server[t].answered /\ NoAnswer(wire[t])
      /\ \A i \in interrupts : i.thread = t => i.for # None
  BY CompletesFacts DEF Completes
<1>2. PICK next \in {"idle", "over"} : Return(t, with, next)
  BY DEF Completes
<1>3. Typed /\ ThreadInv(t)
  BY CallFacts
<1>4. /\ call'[t].at = next /\ call'[t].turn = k /\ call'[t].reply = "none" /\ call'[t].waiter = "none"
      /\ call'[t].key = call[t].key /\ call'[t].with = None /\ (call'[t].blind <=> call[t].blind)
      /\ call' \in [Threads -> Calls] /\ open' = open \ {t}
      /\ owned' \in [Threads -> SUBSET (Ids \ {None})] /\ count' \in [Threads -> {0, 1}]
      /\ \A s \in Threads \ {t} : call'[s] = call[s] /\ owned'[s] = owned[s] /\ count'[s] = count[s]
  BY <1>2, OverFacts DEF Return
<1>5. /\ link' = link /\ failed' = failed /\ extras' = extras /\ wire' = wire /\ server' = server
      /\ unmanaged' = unmanaged /\ notified' = notified /\ first' = first /\ interrupts' = interrupts
      /\ buffered' = buffered
  BY <1>2 DEF Return, Over
<1>6. PICK mistaken \in BOOLEAN : mistaken = (first[t] = Foreign)
  BY Zenon
<1>7. PICK r : r = [call |-> call[t].turn, done |-> with, text |-> Text(t, with), mistaken |-> mistaken]
  OBVIOUS
<1>8. r \in Ended /\ r.call = k /\ r.done = with /\ r.text = Text(t, with) /\ (r.mistaken <=> first[t] = Foreign)
  <2>1. Text(t, with) \in Ids
    BY <1>1, TextFacts, IdFacts
  <2>2. k \in 0 .. MaxTurns /\ with \in Ids
    BY <1>1, <1>3, ThreadTypes
  <2> QED
    BY <1>1, <1>6, <1>7, <2>1, <2>2 DEF Ended
<1>9. PICK rs : rs = Append(results[t], r)
  OBVIOUS
<1>10. results' = [results EXCEPT ![t] = rs]
  BY <1>6, <1>7, <1>9, Zenon DEF Completes
<1>11. results[t] \in Seq(Ended)
  BY <1>3, ThreadTypes
<1>12. /\ rs \in Seq(Ended) /\ Len(rs) = Len(results[t]) + 1 /\ Len(results[t]) \in Nat
       /\ \A i \in 1 .. Len(results[t]) : rs[i] = results[t][i]
       /\ rs[Len(results[t]) + 1] = r
  BY <1>8, <1>9, <1>11, ReturnsJoin
<1>13. /\ retired' = [retired EXCEPT ![t] = R] /\ messages' = [messages EXCEPT ![t] = M] /\ M \subseteq messages[t]
  BY <1>2 DEF Return, Retire
<1>14. R \subseteq Ids \ {None} /\ retired[t] \subseteq R /\ (\A id \in R : id[1] <= k) /\ ids \ {None} \subseteq R
  <2> HIDE DEF ids
  <2> QED
    BY <1>1, RetireFacts
<1>15. with \in R /\ (~Misled(t) => Stream(k) \in R)
  BY <1>1, StreamFacts
<1> HIDE DEF R, M, ids
<1>16. /\ retired' \in [Threads -> SUBSET (Ids \ {None})] /\ messages' \in [Threads -> SUBSET (Ids \ {None})]
       /\ results' \in [Threads -> Seq(Ended)] /\ retired'[t] = R /\ results'[t] = rs
       /\ \A s \in Threads \ {t} : retired'[s] = retired[s] /\ results'[s] = results[s]
  <2>1. M \subseteq Ids \ {None}
    BY <1>3, <1>13, ThreadTypes
  <2> QED
    BY <1>3, <1>10, <1>12, <1>13, <1>14, <2>1 DEF Typed
<1>17. Typed'
  BY <1>3, <1>4, <1>5, <1>16 DEF Typed
<1>18. ASSUME NEW s \in Threads \ {t}
       PROVE  SameThread(s)
  BY <1>4, <1>5, <1>16 DEF SameThread
<1>19. AllSound(wire[t], server[t].turn, server[t].state)' /\ Seen(t)'
  BY <1>3, <1>5 DEF ThreadInv, Seen
<1>20. Placed(t)'
  BY <1>3, <1>4, <1>5 DEF ThreadInv, Placed, Waits, Stops
<1>21. AnswerRead(t)'
  BY <1>1, <1>3, <1>4, <1>5 DEF ThreadInv, AnswerRead, Waits, AnswerKinds
<1>22. Numbered(t)'
  <2>1. None[1] \in 0 .. k
    BY <1>1, IdFacts
  <2> QED
    BY <1>3, <1>4, <1>5, <1>14, <1>16, <2>1 DEF ThreadInv, Numbered
<1>23. (Deceived(t)' <=> Deceived(t) \/ first[t] = Foreign) /\ (Misled(t) <=> Deceived(t) \/ first[t] = Foreign)
  <2>1. Deceived(t)' <=> \E i \in 1 .. Len(rs) : rs[i].mistaken
    BY <1>16 DEF Deceived
  <2>2. Deceived(t)' <=> Deceived(t) \/ r.mistaken
    <3>1. \A i \in 1 .. Len(rs) : i \in 1 .. Len(results[t]) \/ i = Len(results[t]) + 1
      BY <1>12
    <3>2. (\A i \in 1 .. Len(results[t]) : i \in 1 .. Len(rs)) /\ Len(results[t]) + 1 \in 1 .. Len(rs)
      BY <1>12
    <3> QED
      BY <1>12, <2>1, <3>1, <3>2 DEF Deceived
  <2>3. Misled(t) <=> Deceived(t) \/ first[t] = Foreign
    BY <1>11 DEF Misled, Deceived
  <2> QED
    BY <1>8, <2>2, <2>3
<1>24. Returned(t)'
  <2> DEFINE n == Len(results[t])
  <2>1. ASSUME NEW i \in 1 .. n
        PROVE  /\ rs[i].done \in R /\ rs[i].done \in retired[t]
               /\ \A j \in 1 .. n : i # j => rs[i].done # rs[j].done
               /\ \/ \E j \in 1 .. i : rs[j].mistaken
                  \/ (rs[i].done[1] = rs[i].call /\ rs[i].text[1] \in {0, rs[i].call})
    <3>1. /\ results[t][i].done \in retired[t]
          /\ \A j \in 1 .. n : i # j => results[t][i].done # results[t][j].done
          /\ \/ \E j \in 1 .. i : results[t][j].mistaken
             \/ (results[t][i].done[1] = results[t][i].call /\ results[t][i].text[1] \in {0, results[t][i].call})
      BY <1>3 DEF ThreadInv, Returned
    <3>2. rs[i] = results[t][i] /\ \A j \in 1 .. n : rs[j] = results[t][j]
      BY <1>12
    <3>3. \A j \in 1 .. i : j \in 1 .. n
      BY <1>12
    <3>4. (\E j \in 1 .. i : results[t][j].mistaken) => \E j \in 1 .. i : rs[j].mistaken
      BY <3>2, <3>3
    <3> QED
      BY <1>14, <3>1, <3>2, <3>4
  <2>2. /\ \E j \in 1 .. n + 1 : rs[j].mistaken
        \/ (r.done[1] = r.call /\ r.text[1] \in {0, r.call})
    <3>1. CASE Misled(t)
      <4>1. CASE first[t] = Foreign
        BY <1>8, <1>12, <4>1
      <4>2. CASE Deceived(t)
        <5>1. PICK j \in 1 .. n : results[t][j].mistaken
          BY <4>2 DEF Deceived
        <5> QED
          BY <1>12, <5>1
      <4> QED
        BY <1>23, <3>1, <4>1, <4>2
    <3>2. CASE ~Misled(t)
      BY <1>1, <1>8, <3>2
    <3> QED
      BY <3>1, <3>2
  <2>3. \A i \in 1 .. n : rs[i].done # r.done
    BY <1>1, <1>8, <2>1
  <2>4. ASSUME NEW i \in 1 .. n + 1
        PROVE  /\ rs[i].done \in R
               /\ \A j \in 1 .. n + 1 : i # j => rs[i].done # rs[j].done
               /\ \/ \E j \in 1 .. i : rs[j].mistaken
                  \/ (rs[i].done[1] = rs[i].call /\ rs[i].text[1] \in {0, rs[i].call})
    <3>1. CASE i \in 1 .. n
      BY <1>12, <2>1, <2>3, <3>1
    <3>2. CASE i = n + 1
      BY <1>8, <1>12, <1>15, <2>2, <2>3, <3>2
    <3> QED
      BY <1>12, <3>1, <3>2
  <2> QED
    BY <1>12, <1>16, <2>4 DEF Returned
<1>25. Retires(t)'
  <2>1. ASSUME ~Deceived(t)', NEW j \in 1 .. k
        PROVE  Stream(j) \in R
    <3>1. j = k \/ j \in 1 .. k - 1
      BY <1>1
    <3> QED
      BY <1>1, <1>14, <1>15, <1>23, <2>1, <3>1
  <2> QED
    BY <1>4, <1>5, <1>16, <2>1 DEF Retires
<1>26. Keeps(t)' /\ Streams(t)'
  BY <1>4 DEF Keeps, Streams
<1>27. Aimed(t)'
  BY <1>1, <1>5 DEF Aimed
<1>28. StopsTurn(t)'
  <2>1. Misled(t)' <=> Misled(t)
    <3>1. Misled(t)' <=> Deceived(t)' \/ first'[t] = Foreign
      <4>1. DOMAIN results'[t] = 1 .. Len(results'[t])
        BY <1>12, <1>16
      <4> QED
        BY <4>1, Zenon DEF Misled, Deceived
    <3> QED
      BY <1>5, <1>23, <3>1
  <2> QED
    BY <1>1, <1>5, <2>1 DEF StopsTurn
<1>29. ThreadInv(t)'
  BY <1>19, <1>20, <1>21, <1>22, <1>24, <1>25, <1>26, <1>27, <1>28, Zenon DEF ThreadInv
<1> QED
  BY <1>17, <1>18, <1>29, ThreadStep

(***************************************************************************)
(* The reader: m is the message it takes from the wire.                    *)
(***************************************************************************)
LEMMA DeliverFacts ==
  ASSUME OwnershipInv, NEW t \in Threads, wire[t] # <<>>, wire' = [wire EXCEPT ![t] = Tail(@)]
  PROVE  LET m == Head(wire[t])
             u == Tail(wire[t])
             k == server[t].turn
         IN  /\ wire' \in [Threads -> Seq(Messages)] /\ wire'[t] = u
             /\ \A s \in Threads \ {t} : wire'[s] = wire[s]
             /\ m \in Messages /\ Sound(m, k, server[t].state) /\ AllSound(u, k, server[t].state)
             /\ OneAnswer(u) /\ (NoAnswer(wire[t]) => NoAnswer(u))
             /\ m.kind \in AnswerKinds => server[t].answered /\ NoAnswer(u)
             /\ HasStart(wire[t], k) => HasStart(u, k) \/ m = Message("started", Stream(k))
             /\ Preceded(wire[t], k) => Preceded(u, k) \/ m = Message("started", Stream(k))
             /\ t \in open /\ ~Misled(t) /\ Ends(m, k) => notified[t] = Stream(k)
<1> DEFINE m == Head(wire[t])
           u == Tail(wire[t])
           k == server[t].turn
<1>1. Typed /\ ThreadInv(t) /\ wire[t] \in Seq(Messages) /\ server[t].answered \in BOOLEAN
  BY CallFacts, ThreadTypes
<1>2. u \in Seq(Messages) /\ m \in Messages
  BY <1>1, Read
<1>3. wire' \in [Threads -> Seq(Messages)] /\ wire'[t] = u /\ \A s \in Threads \ {t} : wire'[s] = wire[s]
  BY <1>1, <1>2 DEF Typed
<1>4. Sound(m, k, server[t].state) /\ AllSound(u, k, server[t].state)
  BY <1>1, SoundRead DEF ThreadInv
<1>5. OneAnswer(wire[t]) /\ (server[t].answered \/ NoAnswer(wire[t]))
  BY <1>1 DEF ThreadInv, AnswerRead
<1>6. /\ OneAnswer(u) /\ (NoAnswer(wire[t]) => NoAnswer(u))
      /\ m.kind \in AnswerKinds => server[t].answered /\ NoAnswer(u)
  BY <1>1, <1>5, AnswersRead
<1>7. /\ HasStart(wire[t], k) => HasStart(u, k) \/ m = Message("started", Stream(k))
      /\ Preceded(wire[t], k) => (Preceded(u, k) \/ m = Message("started", Stream(k))) /\ ~Ends(m, k)
  BY <1>1, StartRead
<1>8. t \in open /\ ~Misled(t) /\ Ends(m, k) => notified[t] = Stream(k)
  BY <1>1, <1>7 DEF ThreadInv, Streams
<1> QED
  BY <1>2, <1>3, <1>4, <1>6, <1>7, <1>8

\* A message that the call does not take: at most an unmanaged turn is reported.
LEMMA PassesBy ==
  ASSUME OwnershipInv, NEW t \in Threads, wire[t] # <<>>, wire' = [wire EXCEPT ![t] = Tail(@)],
         UNCHANGED <<link, extras, server, results, call, open, owned, count, buffers, first>>,
         failed' \in BOOLEAN, unmanaged' \in [Threads -> SUBSET (Ids \ {None})],
         interrupts \subseteq interrupts',
         \A i \in interrupts' : i \in interrupts \/
           (i \in [thread : Threads, turn : Ids, for : Ids \cup {Asked}] /\ i.thread = t /\ i.for # None),
         t \in open /\ ~Misled(t) /\ Head(wire[t]) = Message("started", Stream(server[t].turn))
           => notified[t] = Stream(server[t].turn)
  PROVE  OwnershipInv'
<1> DEFINE k == server[t].turn
           u == Tail(wire[t])
<1>1. Typed /\ ThreadInv(t)
  BY CallFacts
<1>2. /\ wire' \in [Threads -> Seq(Messages)] /\ wire'[t] = u
      /\ \A s \in Threads \ {t} : wire'[s] = wire[s]
      /\ AllSound(u, k, server[t].state) /\ OneAnswer(u) /\ (NoAnswer(wire[t]) => NoAnswer(u))
  BY DeliverFacts
<1>3. /\ link' = link /\ extras' = extras /\ server' = server /\ results' = results /\ call' = call
      /\ open' = open /\ owned' = owned /\ count' = count /\ notified' = notified /\ buffered' = buffered
      /\ retired' = retired /\ messages' = messages /\ first' = first
  BY DEF buffers
<1>4. Typed'
  <2>1. interrupts' \subseteq [thread : Threads, turn : Ids, for : Ids \cup {Asked}]
    BY <1>1 DEF Typed
  <2> QED
    BY <1>1, <1>2, <1>3, <2>1 DEF Typed
<1>5. ASSUME NEW s \in Threads \ {t}
      PROVE  SameThread(s)
  BY <1>2, <1>3 DEF SameThread
<1>6. AllSound(wire[t], server[t].turn, server[t].state)' /\ Seen(t)' /\ Returned(t)'
  BY <1>1, <1>2, <1>3 DEF ThreadInv, Seen, Returned
<1>7. Numbered(t)' /\ Placed(t)'
  BY <1>1, <1>3 DEF ThreadInv, Numbered, Placed
<1>8. AnswerRead(t)'
  BY <1>1, <1>2, <1>3 DEF ThreadInv, AnswerRead
<1>9. (Misled(t)' <=> Misled(t)) /\ (Deceived(t)' <=> Deceived(t))
  BY <1>3 DEF Misled, Deceived
<1>10. Retires(t)' /\ Keeps(t)'
  BY <1>1, <1>3, <1>9 DEF ThreadInv, Retires, Keeps
<1>11. Streams(t)'
  <2>1. /\ HasStart(wire[t], k) => HasStart(u, k) \/ Head(wire[t]) = Message("started", Stream(k))
        /\ Preceded(wire[t], k) => Preceded(u, k) \/ Head(wire[t]) = Message("started", Stream(k))
    BY DeliverFacts
  <2> QED
    BY <1>1, <1>2, <1>3, <1>9, <2>1 DEF ThreadInv, Streams
<1>12. Aimed(t)' /\ StopsTurn(t)'
  BY <1>1, <1>3, <1>9 DEF ThreadInv, Aimed, StopsTurn
<1>13. ThreadInv(t)'
  BY <1>6, <1>7, <1>8, <1>10, <1>11, <1>12, Zenon DEF ThreadInv
<1> QED
  BY <1>4, <1>5, <1>13, ThreadStep

\* The answer of a request that is pending.
LEMMA ReplyInv ==
  ASSUME OwnershipInv, NEW t \in Threads, wire[t] # <<>>, wire' = [wire EXCEPT ![t] = Tail(@)],
         UNCHANGED <<link, extras, server, results, failed, unmanaged, interrupts, open, owned, count, buffers, first>>,
         NEW m, m = Head(wire[t]), m.kind \in AnswerKinds \cup {"interrupted"},
         call[t].reply = "pending", m.kind = "interrupted" <=> call[t].at # "starting",
         call' = [call EXCEPT ![t].reply = m.kind, ![t].answer = IF m.id # None THEN m.id ELSE @]
  PROVE  OwnershipInv'
<1> DEFINE k == server[t].turn
           u == Tail(wire[t])
<1>1. Typed /\ ThreadInv(t) /\ call[t] \in Calls /\ call[t].answer \in Ids
  BY CallFacts
<1>2. /\ wire' \in [Threads -> Seq(Messages)] /\ wire'[t] = u
      /\ \A s \in Threads \ {t} : wire'[s] = wire[s]
      /\ m \in Messages /\ Sound(m, k, server[t].state)
      /\ AllSound(u, k, server[t].state) /\ OneAnswer(u) /\ (NoAnswer(wire[t]) => NoAnswer(u))
      /\ m.kind \in AnswerKinds => server[t].answered /\ NoAnswer(u)
      /\ HasStart(wire[t], k) => HasStart(u, k) \/ m = Message("started", Stream(k))
      /\ Preceded(wire[t], k) => Preceded(u, k) \/ m = Message("started", Stream(k))
      /\ t \in open /\ ~Misled(t) /\ Ends(m, k) => notified[t] = Stream(k)
  BY DeliverFacts
<1>3. m.id \in Ids /\ m.kind \in Replies /\ m # Message("started", Stream(k)) /\ m.kind # "closed"
  <2>1. m # Message("started", Stream(k))
    BY MessageFacts DEF AnswerKinds
  <2> QED
    BY <1>2, <2>1 DEF Messages, AnswerKinds, Replies
<1>4. PICK answer \in Ids : answer = (IF m.id # None THEN m.id ELSE call[t].answer)
  BY <1>1, <1>3
<1>5. PICK c : c = [call[t] EXCEPT !.reply = m.kind, !.answer = answer]
  OBVIOUS
<1>6. /\ c \in Calls /\ c.reply = m.kind /\ c.answer = answer /\ c.at = call[t].at /\ c.turn = call[t].turn
      /\ c.key = call[t].key /\ c.waiter = call[t].waiter /\ c.with = call[t].with
      /\ (c.blind <=> call[t].blind)
  BY <1>1, <1>3, <1>4, <1>5 DEF Calls
<1>7. call' = [call EXCEPT ![t] = c]
  BY <1>4, <1>5
<1>8. call' \in [Threads -> Calls] /\ call'[t] = c /\ \A s \in Threads \ {t} : call'[s] = call[s]
  <2>1. call \in [Threads -> Calls]
    BY <1>1 DEF Typed
  <2>2. PICK f : f = [call EXCEPT ![t] = c]
    OBVIOUS
  <2>3. f \in [Threads -> Calls] /\ f[t] = c /\ \A s \in Threads \ {t} : f[s] = call[s]
    BY <1>6, <2>1, <2>2
  <2>4. call' = f
    BY <1>7, <2>2, Zenon
  <2> QED
    BY <2>3, <2>4, Zenon
<1>9. /\ link' = link /\ extras' = extras /\ server' = server /\ results' = results /\ failed' = failed
      /\ unmanaged' = unmanaged /\ interrupts' = interrupts
      /\ open' = open /\ owned' = owned /\ count' = count /\ notified' = notified /\ buffered' = buffered
      /\ retired' = retired /\ messages' = messages /\ first' = first
  BY DEF buffers
<1>10. Typed'
  BY <1>1, <1>2, <1>8, <1>9 DEF Typed
<1>11. ASSUME NEW s \in Threads \ {t}
       PROVE  SameThread(s)
  BY <1>2, <1>8, <1>9 DEF SameThread
<1>12. AllSound(wire[t], server[t].turn, server[t].state)' /\ Seen(t)' /\ Returned(t)'
  BY <1>1, <1>2, <1>9 DEF ThreadInv, Seen, Returned
<1>13. Numbered(t)'
  BY <1>1, <1>6, <1>8, <1>9 DEF ThreadInv, Numbered
<1>14. call[t].at \notin {"idle", "over"}
  BY <1>1 DEF ThreadInv, Placed
<1>15. Placed(t)'
  BY <1>1, <1>3, <1>6, <1>8, <1>9, <1>14 DEF ThreadInv, Placed
<1>16. AnswerRead(t)'
  <2>1. CASE call[t].at = "starting"
    <3>1. m.kind \in AnswerKinds
      BY <2>1
    <3>2. m.kind \in {"answered", "answeredEnded"} => answer \in OwnIds(k)
      <4>1. t \in open /\ k \in 1 .. MaxTurns
        BY <2>1, CallFacts
      <4>2. m.kind \in {"answered", "answeredEnded"} => m.id \in OwnIds(k) /\ m.id # None
        BY <1>2, <4>1, StreamFacts DEF Sound
      <4> QED
        BY <1>4, <4>2
    <3>3. m.kind = "answeredEnded" => server[t].state = "ended"
      BY <1>2 DEF Sound
    <3> QED
      BY <1>2, <1>6, <1>8, <1>9, <2>1, <3>1, <3>2, <3>3 DEF AnswerRead, Waits
  <2>2. CASE call[t].at # "starting"
    <3>1. m.kind = "interrupted" /\ answer = call[t].answer
      BY <1>2, <1>4, <2>2 DEF Sound
    <3> QED
      BY <1>1, <1>2, <1>6, <1>8, <1>9, <2>2, <3>1 DEF ThreadInv, AnswerRead, Waits
  <2> QED
    BY <2>1, <2>2
<1>17. (Misled(t)' <=> Misled(t)) /\ (Deceived(t)' <=> Deceived(t))
  BY <1>9 DEF Misled, Deceived
<1>18. Retires(t)'
  BY <1>1, <1>6, <1>8, <1>9, <1>17 DEF ThreadInv, Retires
<1>19. Keeps(t)'
  <2>1. m.kind = "answeredEnded" => server[t].state = "ended" /\ Ends(m, k)
    BY <1>2 DEF Sound, Ends
  <2> QED
    BY <1>1, <1>2, <1>6, <1>8, <1>9, <1>17, <2>1 DEF ThreadInv, Keeps
<1>20. Streams(t)'
  BY <1>1, <1>2, <1>3, <1>9, <1>17 DEF ThreadInv, Streams
<1>21. Aimed(t)' /\ StopsTurn(t)'
  BY <1>1, <1>6, <1>8, <1>9, <1>17 DEF ThreadInv, Aimed, StopsTurn
<1>22. ThreadInv(t)'
  BY <1>12, <1>13, <1>15, <1>16, <1>18, <1>19, <1>20, <1>21, Zenon DEF ThreadInv
<1> QED
  BY <1>10, <1>11, <1>22, ThreadStep

\* A note the call takes for its own: id is that of the turn.
LEMMA TakenIsOwn ==
  ASSUME OwnershipInv, NEW t \in Threads, wire[t] # <<>>, wire' = [wire EXCEPT ![t] = Tail(@)], t \in open,
         NEW id, id = Head(wire[t]).id, Head(wire[t]).kind \in Notes, id \notin retired[t],
         count[t] = 0 \/ id \in owned[t], ~Misled(t), first[t] = None => id # Foreign
  PROVE  /\ id = Stream(server[t].turn)
         /\ Head(wire[t]).kind = "started" => server[t].state \in {"running", "ended"}
         /\ Head(wire[t]).kind = "completed" => server[t].state = "ended" /\ count[t] = 1
<1> DEFINE m == Head(wire[t])
           k == server[t].turn
<1>1. ThreadInv(t) /\ k \in 1 .. MaxTurns /\ MaxTurns \in Nat /\ count[t] \in {0, 1}
  BY CallFacts, ThreadTypes, TurnAssumption
<1>2. m \in Messages /\ Sound(m, k, server[t].state) /\ (Ends(m, k) => notified[t] = Stream(k))
  BY DeliverFacts
<1>3. id = Foreign \/ \E j \in 1 .. k : id = Stream(j)
  BY <1>2 DEF Sound
<1>4. /\ first[t] = notified[t] /\ (notified[t] = None) = (count[t] = 0) /\ owned[t] \subseteq OwnIds(k)
  BY <1>1 DEF ThreadInv, Keeps
<1>5. id # Foreign
  BY <1>1, <1>4, StreamFacts
<1>6. \A j \in 1 .. k - 1 : Stream(j) \in retired[t]
  <2>1. ~Deceived(t) /\ first[t] # Foreign
    BY CallFacts, ThreadTypes DEF Misled, Deceived
  <2> QED
    BY <1>1, <2>1 DEF ThreadInv, Retires
<1>7. id = Stream(k)
  <2>1. PICK j \in 1 .. k : id = Stream(j)
    BY <1>3, <1>5
  <2>2. j \notin 1 .. k - 1
    BY <1>6, <2>1
  <2> QED
    BY <1>1, <2>1, <2>2
<1>8. m.kind = "started" => server[t].state \in {"running", "ended"}
  BY <1>1, <1>2, <1>7, MessageIs DEF Sound
<1>9. m.kind = "completed" => server[t].state = "ended" /\ count[t] = 1
  <2>1. ASSUME m.kind = "completed"
        PROVE  m = Message("completed", Stream(k))
    BY <1>2, <1>7, <2>1, MessageIs
  <2>2. m.kind = "completed" => notified[t] = Stream(k) /\ server[t].state = "ended"
    BY <1>1, <1>2, <2>1 DEF Ends, Sound
  <2> QED
    BY <1>1, <1>4, <2>2, IdFacts
<1> QED
  BY <1>7, <1>8, <1>9

\* The first start that a call sees decides whether it is misled.
LEMMA FirstSeen ==
  ASSUME OwnershipInv, NEW t \in Threads, NEW id,
         first' = [first EXCEPT ![t] = IF @ = None THEN id ELSE @], UNCHANGED results
  PROVE  /\ first'[t] = (IF first[t] = None THEN id ELSE first[t])
         /\ \A s \in Threads \ {t} : first'[s] = first[s]
         /\ Misled(t) => Misled(t)'
         /\ Deceived(t)' <=> Deceived(t)
         /\ ~Misled(t)' => ~Misled(t) /\ (first[t] = None => id # Foreign)
<1>1. /\ first'[t] = (IF first[t] = None THEN id ELSE first[t])
      /\ \A s \in Threads \ {t} : first'[s] = first[s]
  BY CallFacts DEF Typed
<1> QED
  BY <1>1, IdFacts DEF Misled, Deceived

\* The id of a note that is read.
LEMMA NoteId ==
  ASSUME OwnershipInv, NEW t \in Threads, wire[t] # <<>>, wire' = [wire EXCEPT ![t] = Tail(@)],
         NEW id, id = Head(wire[t]).id, Head(wire[t]).kind \in Notes
  PROVE  id \in Ids \ {None} /\ id[1] \in 0 .. server[t].turn
<1> DEFINE k == server[t].turn
<1>1. k \in 0 .. MaxTurns /\ MaxTurns \in Nat
  BY CallFacts, TurnAssumption
<1>2. id = Foreign \/ \E j \in 1 .. k : id = Stream(j)
  BY DeliverFacts DEF Sound
<1>3. CASE id = Foreign
  <2>1. 0 \in 0 .. k
    BY <1>1
  <2> QED
    BY <1>3, <2>1, IdFacts
<1>4. CASE id # Foreign
  <2>1. PICK j \in 1 .. k : id = Stream(j)
    BY <1>2, <1>4
  <2>2. j \in 1 .. MaxTurns /\ j \in 0 .. k
    BY <1>1
  <2>3. Stream(j) \in Ids \ {None, Foreign} /\ Stream(j)[1] = j
    BY <2>2, StreamFacts
  <2> QED
    BY <2>1, <2>2, <2>3
<1> QED
  BY <1>3, <1>4

\* A note the call takes for its own, the first or a later one of its turn.
LEMMA TakesInv ==
  ASSUME OwnershipInv, NEW t \in Threads, wire[t] # <<>>, wire' = [wire EXCEPT ![t] = Tail(@)], t \in open,
         NEW id, id = Head(wire[t]).id, Head(wire[t]).kind \in Notes, id \notin retired[t],
         count[t] = 0 \/ id \in owned[t],
         UNCHANGED <<link, extras, server, results, failed, unmanaged, interrupts, open, retired>>,
         owned' = [owned EXCEPT ![t] = @ \cup {id}], notified' = [notified EXCEPT ![t] = id],
         first' = [first EXCEPT ![t] = IF @ = None THEN id ELSE @],
         NEW n \in {0, 1}, count' = [count EXCEPT ![t] = n], count[t] = 1 => n = 1,
         Head(wire[t]).kind = "started" => n = 1,
         messages' \in [Threads -> SUBSET (Ids \ {None})],
         NEW c \in Calls, call' = [call EXCEPT ![t] = c],
         \/ c = call[t]
         \/ /\ Head(wire[t]).kind = "completed" /\ call[t].waiter = "pending"
            /\ c = [call[t] EXCEPT !.waiter = "done", !.with = id],
         NEW b \in {buffered[t], id}, buffered' = [buffered EXCEPT ![t] = b],
         b = id => Head(wire[t]).kind = "completed" \/ b = buffered[t]
  PROVE  OwnershipInv'
<1> DEFINE m == Head(wire[t])
           u == Tail(wire[t])
           k == server[t].turn
<1>1. /\ Typed /\ ThreadInv(t) /\ k \in 1 .. MaxTurns /\ MaxTurns \in Nat /\ call[t] \in Calls /\ count[t] \in {0, 1}
      /\ notified[t] \in Ids
  BY CallFacts, ThreadTypes, TurnAssumption
<1>2. /\ wire' \in [Threads -> Seq(Messages)] /\ wire'[t] = u
      /\ \A s \in Threads \ {t} : wire'[s] = wire[s]
      /\ m \in Messages /\ Sound(m, k, server[t].state)
      /\ AllSound(u, k, server[t].state) /\ OneAnswer(u) /\ (NoAnswer(wire[t]) => NoAnswer(u))
  BY DeliverFacts
<1>3. /\ id \in Ids \ {None} /\ id[1] \in 0 .. k
      /\ id = Stream(k) => server[t].state \in {"running", "ended"}
  <2>3. id \in Ids \ {None} /\ id[1] \in 0 .. k
    BY NoteId
  <2>4. id = Stream(k) => m = Message("started", Stream(k)) \/ m = Message("completed", Stream(k))
    BY <1>2, MessageIs DEF Notes
  <2> QED
    BY <1>1, <1>2, <2>3, <2>4 DEF Sound
<1>4. /\ c.at = call[t].at /\ c.turn = call[t].turn /\ c.reply = call[t].reply /\ c.answer = call[t].answer
      /\ c.key = call[t].key /\ (c.blind <=> call[t].blind)
      /\ \/ c.waiter = call[t].waiter /\ c.with = call[t].with
         \/ m.kind = "completed" /\ call[t].waiter = "pending" /\ c.waiter = "done" /\ c.with = id
  <2>1. CASE c = call[t]
    BY <2>1
  <2>2. CASE /\ m.kind = "completed" /\ call[t].waiter = "pending"
             /\ c = [call[t] EXCEPT !.waiter = "done", !.with = id]
    BY <1>1, <2>2 DEF Calls
  <2> QED
    BY <2>1, <2>2
<1>5. call' \in [Threads -> Calls] /\ call'[t] = c /\ \A s \in Threads \ {t} : call'[s] = call[s]
  <2>1. call \in [Threads -> Calls]
    BY <1>1 DEF Typed
  <2>2. PICK f : f = [call EXCEPT ![t] = c]
    OBVIOUS
  <2>3. f \in [Threads -> Calls] /\ f[t] = c /\ \A s \in Threads \ {t} : f[s] = call[s]
    BY <2>1, <2>2
  <2>4. call' = f
    BY <2>2, Zenon
  <2> QED
    BY <2>3, <2>4, Zenon
<1>6. /\ link' = link /\ extras' = extras /\ server' = server /\ results' = results /\ failed' = failed
      /\ unmanaged' = unmanaged /\ interrupts' = interrupts /\ open' = open /\ retired' = retired
  OBVIOUS
<1>7. /\ owned' \in [Threads -> SUBSET (Ids \ {None})] /\ owned'[t] = owned[t] \cup {id}
      /\ \A s \in Threads \ {t} : owned'[s] = owned[s]
  BY <1>1, <1>3 DEF Typed
<1>8. /\ notified' \in [Threads -> Ids] /\ notified'[t] = id
      /\ \A s \in Threads \ {t} : notified'[s] = notified[s]
  BY <1>1, <1>3 DEF Typed
<1>9. /\ count' \in [Threads -> {0, 1}] /\ count'[t] = n
      /\ \A s \in Threads \ {t} : count'[s] = count[s]
  BY <1>1 DEF Typed
<1>10. /\ buffered' \in [Threads -> Ids] /\ buffered'[t] = b
       /\ \A s \in Threads \ {t} : buffered'[s] = buffered[s]
  BY <1>1, <1>3 DEF Typed
<1>11. /\ first'[t] = (IF first[t] = None THEN id ELSE first[t])
       /\ \A s \in Threads \ {t} : first'[s] = first[s]
       /\ Misled(t) => Misled(t)'
       /\ Deceived(t)' <=> Deceived(t)
       /\ ~Misled(t)' => ~Misled(t) /\ (first[t] = None => id # Foreign)
  <2>1. UNCHANGED results
    BY <1>6
  <2>2. first' = [first EXCEPT ![t] = IF @ = None THEN id ELSE @]
    OBVIOUS
  <2> HIDE DEF m, u, k
  <2> QED
    BY <2>1, <2>2, FirstSeen, Zenon
<1>12. first' \in [Threads -> Ids]
  BY <1>1, <1>3 DEF Typed
<1>13. Typed'
  BY <1>1, <1>2, <1>5, <1>6, <1>7, <1>8, <1>9, <1>10, <1>12 DEF Typed
<1>14. ASSUME NEW s \in Threads \ {t}
       PROVE  SameThread(s)
  BY <1>2, <1>5, <1>6, <1>7, <1>8, <1>9, <1>10, <1>11 DEF SameThread
<1>15. AllSound(wire[t], server[t].turn, server[t].state)' /\ Returned(t)'
  BY <1>1, <1>2, <1>6 DEF ThreadInv, Returned
<1>16. Seen(t)'
  BY <1>3, <1>6, <1>8 DEF Seen
<1>17. Numbered(t)'
  BY <1>1, <1>3, <1>4, <1>5, <1>6, <1>8, <1>10 DEF ThreadInv, Numbered
<1>18. Placed(t)'
  BY <1>1, <1>3, <1>4, <1>5, <1>6, <1>8 DEF ThreadInv, Placed
<1>19. AnswerRead(t)'
  BY <1>1, <1>2, <1>4, <1>5, <1>6 DEF ThreadInv, AnswerRead
<1>20. Retires(t)'
  <2>1. first'[t] # Foreign => first[t] # Foreign
    BY <1>11, IdFacts
  <2> QED
    BY <1>1, <1>4, <1>5, <1>6, <1>11, <2>1 DEF ThreadInv, Retires
<1>21. ASSUME ~Misled(t)'
       PROVE  /\ id = Stream(k) /\ server[t].state \in {"running", "ended"} /\ n = 1
              /\ m.kind = "completed" => server[t].state = "ended"
              /\ notified[t] # None => notified[t] = Stream(k)
  <2>1. ~Misled(t) /\ (first[t] = None => id # Foreign)
    BY <1>11, <1>21
  <2>2. /\ id = Stream(k)
        /\ m.kind = "started" => server[t].state \in {"running", "ended"}
        /\ m.kind = "completed" => server[t].state = "ended" /\ count[t] = 1
    BY <2>1, TakenIsOwn
  <2>3. notified[t] # None => notified[t] = Stream(k)
    BY <1>1, <2>1 DEF ThreadInv, Keeps
  <2> QED
    BY <2>2, <2>3 DEF Notes
<1>22. Keeps(t)'
  <2>1. SUFFICES ASSUME ~Misled(t)'
                 PROVE  Keeps(t)'
    BY DEF Keeps
  <2>2. /\ ~Misled(t) /\ id = Stream(k) /\ server[t].state \in {"running", "ended"} /\ n = 1
        /\ m.kind = "completed" => server[t].state = "ended"
        /\ first'[t] = id /\ id # None /\ id \in OwnIds(k)
    <3>1. ~Misled(t) /\ id = Stream(k) /\ (notified[t] # None => notified[t] = Stream(k))
      BY <1>11, <1>21, <2>1
    <3>2. first[t] = notified[t]
      BY <1>1, <3>1 DEF ThreadInv, Keeps
    <3>3. Stream(k) # None /\ Stream(k) \in OwnIds(k)
      BY <1>1, StreamFacts
    <3>4. first'[t] = id
      BY <1>11, <3>1, <3>2
    <3>5. server[t].state \in {"running", "ended"} /\ n = 1 /\ (m.kind = "completed" => server[t].state = "ended")
      BY <1>21, <2>1
    <3> QED
      BY <3>1, <3>3, <3>4, <3>5
  <2>3. /\ owned[t] \subseteq OwnIds(k) /\ buffered[t] \in {None, Stream(k)}
        /\ buffered[t] = Stream(k) \/ call[t].waiter = "done" \/ call[t].reply = "answeredEnded"
             => server[t].state = "ended" /\ notified[t] = Stream(k)
        /\ call[t].waiter # "none" => call[t].key \in OwnIds(k)
        /\ call[t].waiter = "done" => call[t].with \in OwnIds(k) /\ Stream(k) \in {call[t].with, call[t].key}
    BY <1>1, <2>2 DEF ThreadInv, Keeps
  <2>4. b \in {None, Stream(k)} /\ (b = Stream(k) => server[t].state = "ended")
    BY <2>2, <2>3
  <2>5. c.waiter = "done" => server[t].state = "ended" /\ c.with \in OwnIds(k) /\ Stream(k) \in {c.with, c.key}
    BY <1>4, <2>2, <2>3
  <2>6. c.waiter # "none" => c.key \in OwnIds(k)
    BY <1>4, <2>3
  <2>7. owned[t] \cup {id} \subseteq OwnIds(k) /\ id \in owned[t] \cup {id}
    BY <2>2, <2>3
  <2>8. (b = Stream(k) \/ c.waiter = "done" \/ c.reply = "answeredEnded") => server[t].state = "ended"
    BY <1>4, <2>3, <2>4, <2>5
  <2>9. /\ call'[t] = c /\ server' = server /\ owned'[t] = owned[t] \cup {id} /\ notified'[t] = Stream(k)
        /\ count'[t] = 1 /\ buffered'[t] = b /\ first'[t] = Stream(k) /\ Stream(k) # None
    BY <1>5, <1>6, <1>7, <1>8, <1>9, <1>10, <2>2
  <2>10. server'[t] = server[t] /\ id = Stream(k) /\ server[t].state \in {"running", "ended"}
    BY <1>6, <2>2
  <2> HIDE DEF m, u
  <2> QED
    BY <2>4, <2>5, <2>6, <2>7, <2>8, <2>9, <2>10 DEF Keeps
<1>23. Streams(t)'
  BY <1>6, <1>8, <1>21 DEF Streams
<1>24. Aimed(t)'
  BY <1>1, <1>4, <1>5, <1>6, <1>11 DEF ThreadInv, Aimed
<1>25. StopsTurn(t)'
  <2>1. SUFFICES ASSUME ~Misled(t)', ~c.blind, c.at \notin {"starting", "waiting"}
                 PROVE  StopsTurn(t)'
    BY <1>5 DEF StopsTurn, Stops, Waits
  <2>2. ~Misled(t) /\ notified[t] = Stream(k)
    <3>1. notified[t] # None
      BY <1>1, <1>4, <2>1 DEF ThreadInv, Placed
    <3> QED
      BY <1>11, <1>21, <2>1, <3>1
  <2> QED
    BY <1>1, <1>4, <1>5, <1>6, <2>1, <2>2 DEF ThreadInv, StopsTurn
<1>26. ThreadInv(t)'
  BY <1>15, <1>16, <1>17, <1>18, <1>19, <1>20, <1>22, <1>23, <1>24, <1>25, Zenon DEF ThreadInv
<1> QED
  BY <1>13, <1>14, <1>26, ThreadStep

\* A note of a turn that is not the call's: an interrupt that start_turn did not send.
LEMMA ReportInv ==
  ASSUME OwnershipInv, NEW t \in Threads, wire[t] # <<>>, wire' = [wire EXCEPT ![t] = Tail(@)],
         UNCHANGED <<link, extras, server, results>>,
         NEW id, id = Head(wire[t]).id, Head(wire[t]).kind \in Notes, Report(t, id),
         t \in open /\ ~Misled(t) /\ Head(wire[t]) = Message("started", Stream(server[t].turn))
           => notified[t] = Stream(server[t].turn)
  PROVE  OwnershipInv'
<1>1. Typed /\ notified[t] \in Ids
  BY CallFacts
<1>2. id \in Ids \ {None}
  BY NoteId
<1>3. Target(t, id) \in Ids
  BY <1>1, <1>2 DEF Target
<1>4. PICK i : i = [thread |-> t, turn |-> Target(t, id), for |-> id]
  OBVIOUS
<1>5. i \in [thread : Threads, turn : Ids, for : Ids \cup {Asked}] /\ i.thread = t /\ i.for # None
  BY <1>2, <1>3, <1>4
<1>6. interrupts' \in {interrupts, interrupts \cup {i}}
  BY <1>4 DEF Report
<1>7. interrupts \subseteq interrupts' /\ \A j \in interrupts' : j \in interrupts \/ j = i
  BY <1>6
<1>8. failed' \in BOOLEAN /\ unmanaged' \in [Threads -> SUBSET (Ids \ {None})]
  BY <1>1, <1>2 DEF Report, Typed
<1>9. UNCHANGED <<link, extras, server, results, call, open, owned, count, buffers, first>>
  BY DEF Report
<1>10. \A j \in interrupts' : j \in interrupts \/
         (j \in [thread : Threads, turn : Ids, for : Ids \cup {Asked}] /\ j.thread = t /\ j.for # None)
  BY <1>5, <1>7
<1> QED
  BY <1>7, <1>8, <1>9, <1>10, PassesBy

\* A note that is dropped.
LEMMA DroppedInv ==
  ASSUME OwnershipInv, NEW t \in Threads, wire[t] # <<>>, wire' = [wire EXCEPT ![t] = Tail(@)],
         UNCHANGED <<link, extras, server, results, call, open, owned, count, buffers, first>>, Quiet,
         t \in open /\ ~Misled(t) => Head(wire[t]) # Message("started", Stream(server[t].turn))
  PROVE  OwnershipInv'
<1>1. Typed
  BY CallFacts
<1>2. failed' = failed /\ unmanaged' = unmanaged /\ interrupts' = interrupts
  BY DEF Quiet
<1>3. failed' \in BOOLEAN /\ unmanaged' \in [Threads -> SUBSET (Ids \ {None})]
  BY <1>1, <1>2 DEF Typed
<1>4. interrupts \subseteq interrupts' /\ \A i \in interrupts' : i \in interrupts
  BY <1>2
<1> QED
  BY <1>3, <1>4, PassesBy

LEMMA AnswerInv ==
  ASSUME OwnershipInv, NEW t \in Threads, wire[t] # <<>>, wire' = [wire EXCEPT ![t] = Tail(@)],
         UNCHANGED <<link, extras, server, results>>,
         NEW m, m = Head(wire[t]), m.kind \in AnswerKinds \cup {"interrupted"}, Reply(t, m)
  PROVE  OwnershipInv'
<1>1. /\ Quiet /\ UNCHANGED <<open, owned, count, buffers, first>>
  BY DEF Reply
<1>2. CASE call[t].reply = "pending" /\ (m.kind = "interrupted" <=> call[t].at # "starting")
  <2>1. call' = [call EXCEPT ![t].reply = m.kind, ![t].answer = IF m.id # None THEN m.id ELSE @]
    BY <1>2 DEF Reply
  <2>2. UNCHANGED <<link, extras, server, results, failed, unmanaged, interrupts, open, owned, count, buffers, first>>
    BY <1>1 DEF Quiet
  <2> QED
    BY <1>2, <2>1, <2>2, ReplyInv
<1>3. CASE ~(call[t].reply = "pending" /\ (m.kind = "interrupted" <=> call[t].at # "starting"))
  <2>1. call' = call
    BY <1>3 DEF Reply
  <2>2. UNCHANGED <<link, extras, server, results, call, open, owned, count, buffers, first>>
    BY <1>1, <2>1
  <2>3. m # Message("started", Stream(server[t].turn))
    BY MessageFacts DEF AnswerKinds
  <2> QED
    BY <1>1, <2>2, <2>3, DroppedInv
<1> QED
  BY <1>2, <1>3

LEMMA ObserveStartedInv ==
  ASSUME OwnershipInv, NEW t \in Threads, wire[t] # <<>>, wire' = [wire EXCEPT ![t] = Tail(@)],
         UNCHANGED <<link, extras, server, results>>,
         NEW id, id = Head(wire[t]).id, Head(wire[t]).kind = "started", id \notin retired[t],
         ObserveStarted(t, id)
  PROVE  OwnershipInv'
<1>1. Typed /\ ThreadInv(t) /\ call[t] \in Calls /\ count[t] \in {0, 1} /\ Head(wire[t]).kind \in Notes
  BY CallFacts, ThreadTypes DEF Notes
<1>2. CASE t \in open /\ (count[t] = 0 \/ id \in owned[t])
  <2>1. /\ count' = [count EXCEPT ![t] = 1]
        /\ owned' = [owned EXCEPT ![t] = @ \cup {id}]
        /\ notified' = [notified EXCEPT ![t] = id]
        /\ first' = [first EXCEPT ![t] = IF @ = None THEN id ELSE @]
        /\ Quiet /\ UNCHANGED <<open, call, buffered, retired, messages>>
    BY <1>2 DEF ObserveStarted
  <2>2. UNCHANGED <<link, extras, server, results, failed, unmanaged, interrupts, open, retired>>
    BY <2>1 DEF Quiet
  <2>3. messages' \in [Threads -> SUBSET (Ids \ {None})]
    BY <1>1, <2>1 DEF Typed
  <2>4. call' = [call EXCEPT ![t] = call[t]] /\ buffered' = [buffered EXCEPT ![t] = buffered[t]]
    BY <1>1, <2>1 DEF Typed
  <2> QED
    BY <1>1, <1>2, <2>1, <2>2, <2>3, <2>4, TakesInv
<1>3. CASE ~(t \in open /\ (count[t] = 0 \/ id \in owned[t]))
  <2>1. Report(t, id)
    BY <1>3 DEF ObserveStarted
  <2>2. t \in open /\ ~Misled(t) => notified[t] = Stream(server[t].turn)
    BY <1>1, <1>3 DEF ThreadInv, Keeps
  <2> QED
    BY <1>1, <2>1, <2>2, ReportInv
<1> QED
  BY <1>2, <1>3

LEMMA ObserveCompletedInv ==
  ASSUME OwnershipInv, NEW t \in Threads, wire[t] # <<>>, wire' = [wire EXCEPT ![t] = Tail(@)],
         UNCHANGED <<link, extras, server, results>>,
         NEW id, id = Head(wire[t]).id, Head(wire[t]).kind = "completed", id \notin retired[t],
         ObserveCompleted(t, id)
  PROVE  OwnershipInv'
<1>1. /\ Typed /\ ThreadInv(t) /\ call[t] \in Calls /\ count[t] \in {0, 1} /\ Head(wire[t]).kind \in Notes
      /\ id \in Ids \ {None}
  BY CallFacts, ThreadTypes, NoteId DEF Notes
<1>2. Head(wire[t]) # Message("started", Stream(server[t].turn))
  BY MessageFacts
<1>3. CASE t \notin open
  <2>1. Quiet /\ UNCHANGED <<open, owned, count, call, buffers, first>>
    BY <1>3 DEF ObserveCompleted
  <2> QED
    BY <1>2, <2>1, DroppedInv
<1>4. CASE t \in open /\ count[t] > 0 /\ id \notin owned[t]
  <2>1. Report(t, id)
    BY <1>4 DEF ObserveCompleted
  <2> QED
    BY <1>1, <1>2, <2>1, ReportInv
<1>5. CASE t \in open /\ ~(count[t] > 0 /\ id \notin owned[t])
  <2>1. /\ owned' = [owned EXCEPT ![t] = @ \cup {id}]
        /\ notified' = [notified EXCEPT ![t] = id]
        /\ first' = [first EXCEPT ![t] = IF @ = None THEN id ELSE @]
        /\ call' = IF call[t].waiter = "pending"
                   THEN [call EXCEPT ![t].waiter = "done", ![t].with = id] ELSE call
        /\ buffered' = IF call[t].waiter = "none" THEN [buffered EXCEPT ![t] = id] ELSE buffered
        /\ messages' = [messages EXCEPT ![t] = @ \cup {id}]
        /\ Quiet /\ UNCHANGED <<open, count, retired>>
    BY <1>5 DEF ObserveCompleted
  <2>2. UNCHANGED <<link, extras, server, results, failed, unmanaged, interrupts, open, retired>>
    BY <2>1 DEF Quiet
  <2>3. messages' \in [Threads -> SUBSET (Ids \ {None})]
    BY <1>1, <2>1 DEF Typed
  <2>4. PICK b \in {buffered[t], id} : buffered' = [buffered EXCEPT ![t] = b]
    <3>1. buffered = [buffered EXCEPT ![t] = buffered[t]]
      BY <1>1 DEF Typed
    <3> QED
      BY <2>1, <3>1
  <2>5. PICK c \in Calls : /\ call' = [call EXCEPT ![t] = c]
                           /\ c = call[t] \/ (/\ call[t].waiter = "pending"
                                              /\ c = [call[t] EXCEPT !.waiter = "done", !.with = id])
    <3>1. CASE call[t].waiter = "pending"
      <4>1. PICK c : c = [call[t] EXCEPT !.waiter = "done", !.with = id]
        OBVIOUS
      <4>2. c \in Calls
        BY <1>1, <4>1 DEF Calls
      <4>3. call' = [call EXCEPT ![t] = c]
        BY <2>1, <3>1, <4>1
      <4> QED
        BY <3>1, <4>1, <4>2, <4>3
    <3>2. CASE call[t].waiter # "pending"
      <4>1. call' = [call EXCEPT ![t] = call[t]]
        BY <1>1, <2>1, <3>2 DEF Typed
      <4> QED
        BY <1>1, <4>1
    <3> QED
      BY <3>1, <3>2
  <2>6. count' = [count EXCEPT ![t] = count[t]] /\ (count[t] = 0 \/ id \in owned[t])
    BY <1>1, <1>5, <2>1 DEF Typed
  <2>7. \/ c = call[t]
        \/ /\ Head(wire[t]).kind = "completed" /\ call[t].waiter = "pending"
           /\ c = [call[t] EXCEPT !.waiter = "done", !.with = id]
    BY <2>5
  <2>8. b = id => Head(wire[t]).kind = "completed" \/ b = buffered[t]
    OBVIOUS
  <2>9. PICK n \in {0, 1} : n = count[t]
    BY <1>1
  <2>10. count' = [count EXCEPT ![t] = n] /\ (count[t] = 1 => n = 1) /\ (Head(wire[t]).kind = "started" => n = 1)
    BY <2>6, <2>9
  <2>11. /\ t \in open /\ owned' = [owned EXCEPT ![t] = @ \cup {id}] /\ notified' = [notified EXCEPT ![t] = id]
         /\ first' = [first EXCEPT ![t] = IF @ = None THEN id ELSE @]
    BY <1>5, <2>1
  <2>12. /\ call' = [call EXCEPT ![t] = c] /\ buffered' = [buffered EXCEPT ![t] = b]
         /\ (count[t] = 0 \/ id \in owned[t]) /\ Head(wire[t]).kind \in Notes
    BY <1>1, <2>4, <2>5, <2>6
  <2> QED
    BY <2>2, <2>3, <2>7, <2>8, <2>10, <2>11, <2>12, TakesInv
<1> QED
  BY <1>3, <1>4, <1>5

LEMMA DeliverInv ==
  ASSUME OwnershipInv, NEW t \in Threads, Deliver(t)
  PROVE  OwnershipInv'
<1>1. /\ wire[t] # <<>> /\ wire' = [wire EXCEPT ![t] = Tail(@)] /\ UNCHANGED <<link, extras, server, results>>
  BY DEF Deliver
<1>2. PICK m : m = Head(wire[t])
  OBVIOUS
<1>3. m \in Messages
  BY <1>1, <1>2, DeliverFacts
<1>4. m.kind \in AnswerKinds \cup {"interrupted"} => Reply(t, m)
  BY <1>2 DEF Deliver, AnswerKinds
<1>5. m.kind \in Notes /\ m.id \in retired[t] =>
        Quiet /\ UNCHANGED <<open, owned, count, call, buffers, first>>
  BY <1>2 DEF Deliver, Notes
<1>6. m.kind = "started" /\ m.id \notin retired[t] => ObserveStarted(t, m.id)
  BY <1>2 DEF Deliver
<1>7. m.kind = "completed" /\ m.id \notin retired[t] => ObserveCompleted(t, m.id)
  BY <1>2 DEF Deliver
<1>8. CASE m.kind \in AnswerKinds \cup {"interrupted"}
  BY <1>1, <1>2, <1>4, <1>8, AnswerInv
<1>9. CASE m.kind \in Notes /\ m.id \in retired[t]
  <2>1. t \in open => m # Message("started", Stream(server[t].turn))
    <3>1. SUFFICES ASSUME t \in open, m = Message("started", Stream(server[t].turn))
                   PROVE  FALSE
      OBVIOUS
    <3>2. server[t].turn \in 1 .. MaxTurns /\ \A id \in retired[t] : id[1] < server[t].turn
      BY <3>1, CallFacts DEF ThreadInv, Numbered
    <3>3. m.id[1] = server[t].turn
      <4>1. m.id = Stream(server[t].turn)
        BY <3>1, MessageFacts, Zenon
      <4>2. Stream(server[t].turn)[1] = server[t].turn
        BY <3>2, StreamFacts
      <4> QED
        BY <4>1, <4>2
    <3>4. m.id[1] < server[t].turn
      BY <1>9, <3>2
    <3>5. server[t].turn \in Nat
      BY <3>2, TurnAssumption
    <3> QED
      BY <3>3, <3>4, <3>5
  <2> QED
    BY <1>1, <1>2, <1>5, <1>9, <2>1, DroppedInv
<1>10. CASE m.kind = "started" /\ m.id \notin retired[t]
  BY <1>1, <1>2, <1>6, <1>10, ObserveStartedInv
<1>11. CASE m.kind = "completed" /\ m.id \notin retired[t]
  BY <1>1, <1>2, <1>7, <1>11, ObserveCompletedInv
<1> QED
  BY <1>3, <1>8, <1>9, <1>10, <1>11 DEF Messages, Notes

(***************************************************************************)
(* Every step, and the theorems.                                           *)
(***************************************************************************)
LEMMA InitialOwnership ==
  ASSUME OwnershipInit
  PROVE  OwnershipInv
<1>1. /\ None \in Ids /\ None[1] = 0 /\ MaxTurns \in Nat /\ MaxExtras \in Nat /\ 0 \in 0 .. MaxTurns
      /\ 0 \in 0 .. MaxExtras /\ 0 \in 0 .. 0
  BY IdFacts, TurnAssumption
<1>2. NoCall \in Calls
  BY <1>1 DEF NoCall, Calls, Stages, Replies
<1>3. PICK s : s = [turn |-> 0, state |-> "none", answered |-> TRUE, native |-> "no"]
  OBVIOUS
<1>4. s \in Servers /\ s.turn = 0 /\ s.state = "none" /\ s.answered
  BY <1>1, <1>3 DEF Servers
<1>5. /\ link = "up" /\ failed = FALSE /\ extras = 0 /\ open = {} /\ interrupts = {}
      /\ wire = [t \in Threads |-> <<>>] /\ server = [t \in Threads |-> s] /\ call = [t \in Threads |-> NoCall]
      /\ owned = [t \in Threads |-> {}] /\ count = [t \in Threads |-> 0] /\ unmanaged = [t \in Threads |-> {}]
      /\ notified = [t \in Threads |-> None] /\ buffered = [t \in Threads |-> None]
      /\ first = [t \in Threads |-> None] /\ retired = [t \in Threads |-> {}]
      /\ messages = [t \in Threads |-> {}] /\ results = [t \in Threads |-> <<>>]
  BY <1>3 DEF OwnershipInit
<1>6. Typed
  <2>1. <<>> \in Seq(Messages) /\ <<>> \in Seq(Ended)
    OBVIOUS
  <2> QED
    BY <1>1, <1>2, <1>4, <1>5, <2>1 DEF Typed
<1>7. ASSUME NEW t \in Threads
      PROVE  ThreadInv(t)
  <2>1. /\ wire[t] = <<>> /\ server[t] = s /\ call[t] = NoCall /\ owned[t] = {} /\ notified[t] = None
        /\ buffered[t] = None /\ first[t] = None /\ retired[t] = {} /\ results[t] = <<>> /\ t \notin open
    BY <1>5
  <2>2. /\ NoCall.at = "idle" /\ NoCall.turn = 0 /\ NoCall.reply = "none" /\ NoCall.key = None
        /\ NoCall.waiter = "none" /\ NoCall.with = None /\ NoCall.blind = FALSE
    BY DEF NoCall
  <2>3. AllSound(wire[t], server[t].turn, server[t].state) /\ AnswerRead(t)
    BY <1>4, <2>1, <2>2 DEF AllSound, AnswerRead, OneAnswer, NoAnswer, Waits
  <2>4. Placed(t)
    BY <1>4, <1>5, <2>1, <2>2 DEF Placed, Waits, Stops
  <2>5. Numbered(t)
    BY <1>1, <1>4, <2>1, <2>2 DEF Numbered
  <2>6. Returned(t) /\ Retires(t)
    BY <1>4, <2>1, <2>2 DEF Returned, Retires
  <2>7. Keeps(t) /\ Streams(t) /\ Aimed(t)
    BY <1>5, <2>1 DEF Keeps, Streams, Aimed
  <2>8. Seen(t) /\ StopsTurn(t)
    BY <1>4, <2>1, <2>2 DEF Seen, StopsTurn, Stops, Waits
  <2> QED
    BY <2>3, <2>4, <2>5, <2>6, <2>7, <2>8, Zenon DEF ThreadInv
<1> QED
  BY <1>6, <1>7 DEF OwnershipInv

LEMMA CallStepInv ==
  ASSUME OwnershipInv, NEW t \in Threads, CallStep(t)
  PROVE  OwnershipInv'
<1>1. CASE StartRefused(t)
  <2>1. CASE notified[t] # None
    <3>1. call[t].at = "starting" /\ Interrupt(t, notified[t], "refused")
      BY <1>1, <2>1 DEF StartRefused
    <3>2. "refused" \in Stops
      BY DEF Stops
    <3> QED
      BY <2>1, <3>1, <3>2, InterruptsStart
  <2>2. CASE notified[t] = None
    <3>1. Over(t, "over") /\ Discard(t) /\ UNCHANGED <<retired, messages, interrupts, results>>
      BY <1>1, <2>2 DEF StartRefused, NotReturned
    <3> QED
      BY <2>2, <3>1, StartRefusedInv
  <2> QED
    BY <2>1, <2>2
<1>2. CASE Abandoned(t)
  <2>1. /\ call[t].at = "abandoning" /\ Over(t, "over")
        /\ UNCHANGED <<buffered, retired, messages, interrupts, results>>
    BY <1>2 DEF Abandoned, NotReturned
  <2>2. call[t].at \in Waits \ {"waiting"}
    BY <2>1 DEF Waits
  <2> QED
    BY <2>1, <2>2, AbandonedInv
<1>3. CASE TurnTimesOut(t)
  <2>1. call[t].at = "waiting" /\ Interrupt(t, call[t].key, "timed_out")
    BY <1>3 DEF TurnTimesOut
  <2>2. "timed_out" \in Waits \ {"waiting"}
    BY DEF Waits
  <2> QED
    BY <2>1, <2>2, InterruptsWait
<1> QED
  BY <1>1, <1>2, <1>3, StoppedInv, StartLostInv, RefusedInv, StartedInv, CompletesInv, WaitLostInv,
     GraceInv, GraceOverInv DEF CallStep

LEMMA CancelsInv ==
  ASSUME OwnershipInv, NEW t \in Threads, CancelStart(t) \/ CancelWait(t) \/ CancelAgain(t)
  PROVE  OwnershipInv'
<1>1. CASE CancelStart(t)
  <2>1. CASE notified[t] # None
    <3>1. call[t].at = "starting" /\ Interrupt(t, notified[t], "stopping")
      BY <1>1, <2>1 DEF CancelStart
    <3>2. "stopping" \in Stops
      BY DEF Stops
    <3> QED
      BY <2>1, <3>1, <3>2, InterruptsStart
  <2>2. CASE notified[t] = None
    <3>1. Over(t, "over") /\ UNCHANGED <<buffered, retired, messages, interrupts, results>>
      BY <1>1, <2>2 DEF CancelStart, NotReturned
    <3> QED
      BY <2>2, <3>1, CancelStartInv
  <2> QED
    BY <2>1, <2>2
<1>2. CASE CancelWait(t)
  <2>1. call[t].at = "waiting" /\ Interrupt(t, call[t].key, "abandoning")
    BY <1>2 DEF CancelWait
  <2>2. "abandoning" \in Waits \ {"waiting"}
    BY DEF Waits
  <2> QED
    BY <2>1, <2>2, InterruptsWait
<1>3. CASE CancelAgain(t) /\ call[t].at = "refused"
  <2>1. /\ call' = [call EXCEPT ![t] = [NoCall EXCEPT !.at = "over", !.turn = call[t].turn]]
        /\ UNCHANGED <<link, failed, extras, wire, server, registry, notified, first>>
        /\ UNCHANGED <<buffered, retired, messages, interrupts, results>>
    BY <1>3 DEF CancelAgain, NotReturned
  <2>2. UNCHANGED <<link, failed, extras, wire, server, registry, buffers, results, interrupts, first>>
    BY <2>1 DEF buffers
  <2> QED
    BY <1>3, <2>1, <2>2, CancelRefused
<1>4. CASE CancelAgain(t) /\ call[t].at # "refused"
  <2>1. /\ Over(t, "over") /\ UNCHANGED <<buffered, retired, messages, interrupts, results>>
        /\ call[t].at \in {"timed_out", "grace"}
    BY <1>4 DEF CancelAgain, NotReturned
  <2>2. call[t].at \in Waits \ {"waiting"}
    BY <2>1 DEF Waits
  <2> QED
    BY <2>1, <2>2, AbandonedInv
<1> QED
  BY <1>1, <1>2, <1>3, <1>4

LEMMA OwnershipNextInv ==
  ASSUME OwnershipInv, OwnershipNext
  PROVE  OwnershipInv'
<1>1. CASE TransportLost
  BY <1>1, TransportLostInv
<1>2. ASSUME NEW t \in Threads, Begin(t)
      PROVE  OwnershipInv'
  BY <1>2, BeginRefused, BeginGranted
<1> QED
  BY <1>1, <1>2, ServerStepInv, RequestTimesOutInv, CancelsInv, BackendCancelInv, CallStepInv, DeliverInv
     DEF OwnershipNext

LEMMA OwnershipStutter ==
  ASSUME OwnershipInv, UNCHANGED ownershipvars
  PROVE  OwnershipInv'
<1>1. /\ UNCHANGED <<link, failed, extras, wire, server, call, open, owned, count, unmanaged>>
      /\ UNCHANGED <<notified, buffered, retired, messages, results, interrupts, first>>
  BY DEF ownershipvars, registry, buffers
<1>2. Typed'
  BY <1>1 DEF OwnershipInv, Typed
<1>3. \A t \in Threads : SameThread(t) /\ ThreadInv(t)
  BY <1>1 DEF OwnershipInv, SameThread
<1> QED
  BY <1>2, <1>3, ThreadKept DEF OwnershipInv

\* The registry, the buffers and the retired ids agree with what the server
\* has said: on each thread the answer of a request arrives once and before
\* the next request, a turn's start precedes whatever tells of its end, every
\* earlier turn is retired, and the ids that a call holds are its turn's
\* (AppServerClient._handle_notification, TurnOwnershipRegistry, start_turn).
THEOREM OwnershipInvariant == OwnershipSpec => []OwnershipInv
<1>1. OwnershipInit => OwnershipInv
  BY InitialOwnership
<1>2. OwnershipInv /\ [OwnershipNext]_ownershipvars => OwnershipInv'
  BY OwnershipNextInv, OwnershipStutter
<1> QED
  BY <1>1, <1>2, PTL DEF OwnershipSpec

LEMMA SeparateTurns ==
  ASSUME OwnershipInv
  PROVE  TurnsSeparate
<1>1. OwnershipTypeOK
  <2>1. /\ link \in {"up", "stalled", "closed"} /\ failed \in BOOLEAN /\ extras \in 0 .. MaxExtras
        /\ open \subseteq Threads /\ interrupts \subseteq [thread : Threads, turn : Ids, for : Ids \cup {Asked}]
    BY DEF OwnershipInv, Typed
  <2>2. ASSUME NEW t \in Threads
        PROVE  /\ server[t].turn = call[t].turn
               /\ call[t].reply \in Replies /\ {call[t].answer, call[t].key, call[t].with} \subseteq Ids
               /\ call[t].waiter \in {"none", "pending", "done", "closed"}
               /\ {notified[t], buffered[t], first[t]} \subseteq Ids
               /\ owned[t] \cup unmanaged[t] \cup retired[t] \cup messages[t] \subseteq Ids \ {None}
    <3>1. Typed /\ call[t].turn = server[t].turn
      BY CallFacts
    <3> QED
      BY <3>1, ThreadTypes
  <2> QED
    BY <2>1, <2>2 DEF OwnershipTypeOK
<1>2. ASSUME NEW t \in Threads
      PROVE  Returned(t) /\ Aimed(t) /\ DOMAIN results[t] = 1 .. Len(results[t]) /\ call[t].turn = server[t].turn
  <2>1. Typed /\ ThreadInv(t) /\ call[t].turn = server[t].turn
    BY CallFacts
  <2>2. results[t] \in Seq(Ended)
    BY <2>1, ThreadTypes
  <2> QED
    BY <2>1, <2>2 DEF ThreadInv
<1>3. OwnResult
  <2>1. ASSUME NEW t \in Threads, NEW i \in 1 .. Len(results[t])
        PROVE  \/ \E j \in 1 .. i : results[t][j].mistaken
               \/ /\ results[t][i].done[1] = results[t][i].call
                  /\ results[t][i].text[1] \in {0, results[t][i].call}
    <3>1. Returned(t)
      BY <1>2
    <3> QED
      BY <3>1, Zenon DEF Returned
  <2> QED
    BY <1>2, <2>1 DEF OwnResult
<1>4. CompletionOnce
  <2>1. ASSUME NEW t \in Threads, NEW i \in 1 .. Len(results[t]), NEW j \in 1 .. Len(results[t]), i # j
        PROVE  results[t][i].done # results[t][j].done
    <3>1. Returned(t)
      BY <1>2
    <3> QED
      BY <2>1, <3>1, Zenon DEF Returned
  <2> QED
    BY <1>2, <2>1 DEF CompletionOnce
<1>5. InterruptsOwn
  <2>1. ASSUME NEW i \in interrupts, i.for = None, call[i.thread].at # "over"
        PROVE  i.turn[1] = call[i.thread].turn \/ Misled(i.thread)
    <3>1. i.thread \in Threads
      BY DEF OwnershipInv, Typed
    <3> QED
      BY <1>2, <2>1, <3>1 DEF Aimed
  <2> QED
    BY <2>1, Zenon DEF InterruptsOwn
<1> QED
  BY <1>1, <1>3, <1>4, <1>5 DEF TurnsSeparate

\* The turns of a thread are kept apart: unless the client was misled by a
\* continuation the server started by itself, a call returns the completion
\* and the output of its own turn and interrupts its own turn; no completion
\* ends two calls (AppServerClient.start_turn, _handle_notification).
THEOREM TurnsAreSeparate == OwnershipSpec => []TurnsSeparate
<1>1. OwnershipInv => TurnsSeparate
  BY SeparateTurns
<1> QED
  BY <1>1, OwnershipInvariant, PTL

\* A turn that a call gave up on after its start was read has ended or is
\* named by an interrupt on its way (start_turn's interrupts before
\* finish_controller_turn).
THEOREM ObservedTurnsAreContained == OwnershipSpec => []Contained
<1>1. OwnershipInv => Contained
  BY DEF OwnershipInv, ThreadInv, StopsTurn, Contained
<1> QED
  BY <1>1, OwnershipInvariant, PTL

=============================================================================
