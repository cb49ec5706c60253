--------------------------- MODULE ExperimentRunner ---------------------------
(***************************************************************************)
(* Deterministic experiment batches (experiment.py): a run directory named *)
(* after the frozen inputs, one directory, command and result per case, an *)
(* append-only ledger of the results and a checkpoint derived from it.     *)
(*                                                                         *)
(* Nothing locks a run directory: a run may be started again, resumed      *)
(* while another process still works in it, or cut off between two writes. *)
(* Exclusive creation of the directories and of the results is all that    *)
(* keeps the processes apart.                                              *)
(***************************************************************************)
EXTENDS Naturals, Sequences

CONSTANTS
  Runners,     \* processes that may work on the run
  Cases,       \* number of cases, in declared order
  MaxFaults    \* bound on crashes and edits of a frozen input together

ASSUME ExperimentAssumption ==
  Cases \in Nat \ {0} /\ MaxFaults \in Nat

VARIABLES
  adapter,     \* the adapter that the manifest names: subprocess or docker
  root,        \* durable: none, dir, frozen (RUN_MANIFEST.json is written)
  dir,         \* durable: case directories that exist
  result,      \* durable: RESULT.json of each case
  ledger,      \* durable: RAW_RESULTS.jsonl, the case of each line
  checkpoint,  \* durable: CHECKPOINT.json
  input,       \* the frozen inputs as they are in the project
  run,         \* the processes
  receipt,     \* history: a receipt was issued
  runs,        \* history: how often the command of a case was started
  overlap,     \* history: two processes worked on the run at the same time
  spent        \* faults so far

vars == <<adapter, root, dir, result, ledger, checkpoint, input, run, receipt, runs, overlap, spent>>
files == <<adapter, root, dir, result, ledger, checkpoint>>

Case == 1..Cases
Torn == 0
NoResult == [end |-> "none", on |-> "none"]
NoCheckpoint == [count |-> 0, upto |-> 0, there |-> FALSE]

(* What an adapter reports, where FAILED stands for TIMED_OUT,             *)
(* LAUNCH_FAILED and ADAPTER_FAILED; the runner itself adds INPUT_MUTATED. *)
Reported == {"EXITED", "FAILED"}
Terminations == Reported \cup {"INPUT_MUTATED"}

Off == [pc |-> "off", resume |-> FALSE, known |-> 0, outcome |-> NoResult, dirty |-> FALSE]

Init ==
  /\ adapter \in {"subprocess", "docker"}
  /\ root = "none" /\ dir = {} /\ result = [c \in Case |-> NoResult] /\ ledger = <<>>
  /\ checkpoint = NoCheckpoint /\ input = "frozen"
  /\ run = [p \in Runners |-> Off]
  /\ receipt = FALSE /\ runs = [c \in Case |-> 0] /\ overlap = FALSE
  /\ spent = 0

At(p, pc) == run[p].pc = pc
Goto(p, pc) == run' = [run EXCEPT ![p].pc = pc]
(* An exception ends the process and leaves the files as they are. *)
Raise(p) == run' = [run EXCEPT ![p] = Off]
Now(p) == run[p].known + 1
History == UNCHANGED <<adapter, receipt, runs, overlap, spent>>

(***************************************************************************)
(* Opening a run.                                                          *)
(***************************************************************************)
(* ExperimentManifest.load and _build_run_manifest verify the inputs. *)
Start(p, resume) ==
  /\ At(p, "off") /\ input = "frozen"
  /\ run' = [run EXCEPT ![p] = [Off EXCEPT !.pc = "open", !.resume = resume]]
  /\ overlap' = (overlap \/ \E q \in Runners \ {p} : ~At(q, "off"))
  /\ UNCHANGED <<files, input, receipt, runs, spent>>

MakeRoot(p) ==
  /\ At(p, "open") /\ root = "none"
  /\ root' = "dir" /\ Goto(p, "freeze")
  /\ UNCHANGED <<dir, result, ledger, checkpoint, input>> /\ History
FreezeManifest(p) ==
  /\ At(p, "freeze")
  /\ root' = "frozen" /\ Goto(p, "ledger")
  /\ UNCHANGED <<dir, result, ledger, checkpoint, input>> /\ History
(* A run that exists is only resumed, and only with its frozen manifest. *)
Reopen(p) ==
  /\ At(p, "open") /\ root # "none"
  /\ IF run[p].resume /\ root = "frozen" THEN Goto(p, "ledger") ELSE Raise(p)
  /\ UNCHANGED files /\ UNCHANGED input /\ History

(* _read_and_verify_result: what is there is the frozen case's result. *)
Verified(c) == result[c] # NoResult

(* Mutant: the derived checkpoint is believed. *)
LedgerByCheckpoint == [ok |-> TRUE, count |-> checkpoint.count]
(* _read_and_verify_ledger: line i is the entry of the i-th case, whole,   *)
(* and binds a result that is there.                                       *)
LedgerRead ==
  [ok |-> \A i \in DOMAIN ledger : i <= Cases /\ ledger[i] = i /\ Verified(i),
   count |-> Len(ledger)]

ReadLedger(p) ==
  /\ At(p, "ledger")
  /\ IF LedgerRead.ok
     THEN run' = [run EXCEPT ![p].known = LedgerRead.count, ![p].pc = "repair"]
     ELSE Raise(p)
  /\ UNCHANGED files /\ UNCHANGED input /\ History

(* _checkpoint: the verified prefix, and the digest of the whole ledger. *)
Checkpoint(p) == [count |-> run[p].known, upto |-> Len(ledger), there |-> TRUE]

(* _repair_checkpoint, then the next case, the end, or the exception that  *)
(* follows a case whose input changed.                                     *)
Repair(p) ==
  /\ At(p, "repair")
  /\ checkpoint' = Checkpoint(p)
  /\ IF run[p].outcome.end = "INPUT_MUTATED" THEN Raise(p)
     ELSE run' = [run EXCEPT ![p].pc = IF run[p].known < Cases THEN "case" ELSE "close",
                             ![p].outcome = NoResult]
  /\ UNCHANGED <<root, dir, result, ledger, input>> /\ History

(***************************************************************************)
(* One case.                                                               *)
(***************************************************************************)
InputsChanged(p) ==
  /\ At(p, "case") /\ input # "frozen" /\ Raise(p)
  /\ UNCHANGED files /\ UNCHANGED input /\ History

NewCase(p) ==
  /\ At(p, "case") /\ input = "frozen" /\ Now(p) \notin dir
  /\ dir' = dir \cup {Now(p)} /\ Goto(p, "inputs")
  /\ UNCHANGED <<root, result, ledger, checkpoint, input>> /\ History

(* Mutant: a case directory without a result passes for one. *)
OldCaseAny(p) ==
  /\ At(p, "case") /\ input = "frozen" /\ Now(p) \in dir
  /\ run' = [run EXCEPT ![p].outcome = result[Now(p)], ![p].pc = "append"]
  /\ UNCHANGED files /\ UNCHANGED input /\ History
(* A durable result that only the ledger misses is recovered; a case that  *)
(* was begun and has none is "incomplete".                                 *)
OldCase(p) ==
  /\ At(p, "case") /\ input = "frozen" /\ Now(p) \in dir
  /\ IF Verified(Now(p))
     THEN run' = [run EXCEPT ![p].outcome = result[Now(p)], ![p].pc = "append"]
     ELSE Raise(p)
  /\ UNCHANGED files /\ UNCHANGED input /\ History

(* Mutant: what was copied is not compared with the frozen digest. *)
CopiedUnchecked(p) ==
  run' = [run EXCEPT ![p].pc = "command", ![p].outcome = [end |-> "none", on |-> input]]
(* _materialize_experiment_inputs: the scratch tree holds a verified copy, *)
(* or the adapter has failed.                                              *)
Copied(p) ==
  run' = IF input = "frozen"
         THEN [run EXCEPT ![p].pc = "command", ![p].outcome = [end |-> "none", on |-> "frozen"]]
         ELSE [run EXCEPT ![p].pc = "record",
                          ![p].outcome = [end |-> "FAILED", on |-> "none"]]
Materialize(p) ==
  /\ At(p, "inputs") /\ adapter = "subprocess" /\ Copied(p)
  /\ UNCHANGED files /\ UNCHANGED input /\ History
(* Another adapter is given the project itself. *)
Mount(p) ==
  /\ At(p, "inputs") /\ adapter = "docker"
  /\ run' = [run EXCEPT ![p].pc = "command", ![p].outcome = [end |-> "none", on |-> input]]
  /\ UNCHANGED files /\ UNCHANGED input /\ History

(* The command, and whether it changed its own copies. *)
Execute(p, end, dirty) ==
  /\ At(p, "command")
  /\ dirty => adapter = "subprocess"
  /\ run' = [run EXCEPT ![p].pc = "record", ![p].outcome.end = end, ![p].dirty = dirty]
  /\ runs' = [runs EXCEPT ![Now(p)] = @ + 1]
  /\ UNCHANGED <<files, input, receipt, overlap, spent>>

(* The end of _execute_case: the inputs are looked at once more. *)
Final(p) ==
  IF run[p].dirty \/ input # "frozen"
  THEN [run[p].outcome EXCEPT !.end = "INPUT_MUTATED"] ELSE run[p].outcome
Record(p) ==
  /\ At(p, "record")
  /\ result' = [result EXCEPT ![Now(p)] = Final(p)]
  /\ run' = [run EXCEPT ![p].outcome = Final(p), ![p].dirty = FALSE, ![p].pc = "append"]
  /\ UNCHANGED <<root, dir, ledger, checkpoint, input>> /\ History

AppendEntry(p) ==
  /\ At(p, "append")
  /\ ledger' = Append(ledger, Now(p))
  /\ run' = [run EXCEPT ![p].known = @ + 1, ![p].pc = "repair"]
  /\ UNCHANGED <<root, dir, result, checkpoint, input>> /\ History

(* The end of run: the case directories, and the ledger once more. *)
Close(p) ==
  /\ At(p, "close")
  /\ IF dir = Case /\ LedgerRead.ok
     THEN /\ checkpoint' = [Checkpoint(p) EXCEPT !.count = LedgerRead.count]
          /\ Goto(p, "returned")
     ELSE Raise(p) /\ UNCHANGED checkpoint
  /\ UNCHANGED <<root, dir, result, ledger, input>> /\ History
Leave(p) ==
  /\ At(p, "returned") /\ Raise(p)
  /\ UNCHANGED files /\ UNCHANGED input /\ History

(***************************************************************************)
(* Receipts, edits and crashes.                                            *)
(***************************************************************************)
Complete == root = "frozen" /\ LedgerRead.ok /\ Len(ledger) = Cases /\ dir = Case

(* verify_receipt reads only. *)
IssueReceipt ==
  /\ ~receipt /\ input = "frozen" /\ Complete
  /\ receipt' = TRUE
  /\ UNCHANGED <<files, input, run, runs, overlap, spent>>

Edit ==
  /\ spent < MaxFaults
  /\ input' = (IF input = "frozen" THEN "edited" ELSE "frozen")
  /\ spent' = spent + 1
  /\ UNCHANGED <<files, run, receipt, runs, overlap>>

Die(p) ==
  /\ ~At(p, "off") /\ spent < MaxFaults
  /\ Raise(p) /\ spent' = spent + 1
  /\ UNCHANGED <<adapter, root, dir, result, checkpoint, input, receipt, runs, overlap>>
Crash(p) == Die(p) /\ UNCHANGED ledger
CrashTorn(p) == Die(p) /\ At(p, "append") /\ ledger' = Append(ledger, Torn)

Step(p) ==
  \/ MakeRoot(p) \/ FreezeManifest(p) \/ Reopen(p) \/ ReadLedger(p) \/ Repair(p)
  \/ InputsChanged(p) \/ NewCase(p) \/ OldCase(p) \/ Materialize(p) \/ Mount(p)
  \/ \E end \in Reported, dirty \in BOOLEAN : Execute(p, end, dirty)
  \/ Record(p) \/ AppendEntry(p) \/ Close(p) \/ Leave(p)
Next ==
  \/ \E p \in Runners : Step(p) \/ Crash(p) \/ CrashTorn(p)
  \/ \E p \in Runners, resume \in BOOLEAN : Start(p, resume)
  \/ IssueReceipt \/ Edit

Spec == Init /\ [][Next]_vars
(* A process that runs goes on, and somebody starts or resumes the run     *)
(* again as long as it is not complete.                                    *)
FairSpec ==
  /\ Spec
  /\ \A p \in Runners : WF_vars(Step(p)) /\ SF_vars(~Complete /\ Start(p, TRUE))

(***************************************************************************)
(* Properties.                                                             *)
(***************************************************************************)
Results == [end : {"none"} \cup Terminations, on : {"none", "frozen", "edited"}]
Processes ==
  [pc : {"off", "open", "freeze", "ledger", "repair", "case", "inputs", "command", "record",
         "append", "close", "returned"},
   resume : BOOLEAN, known : 0..Cases, outcome : Results, dirty : BOOLEAN]
(* The type of every variable. *)
TypeOK ==
  /\ adapter \in {"subprocess", "docker"} /\ root \in {"none", "dir", "frozen"}
  /\ dir \subseteq Case /\ result \in [Case -> Results] /\ ledger \in Seq(Case \cup {Torn})
  /\ checkpoint \in [count : 0..Cases, upto : Nat, there : BOOLEAN]
  /\ input \in {"frozen", "edited"} /\ run \in [Runners -> Processes]
  /\ receipt \in BOOLEAN /\ runs \in [Case -> Nat] /\ overlap \in BOOLEAN /\ spent \in Nat

(* "Completed cases are never rerun or overwritten": the command of a case *)
(* is started once, with two processes, crashes and any order of resumes,  *)
(* and a result that exists is never replaced.                             *)
CasesOnce == \A c \in Case : runs[c] <= 1
KeepsResults == \A c \in Case : result[c] # NoResult => result'[c] = result[c]
EvidenceKept == [][KeepsResults]_vars

(* Every whole line of the ledger has its durable result. *)
LedgerBacked == \A i \in DOMAIN ledger : ledger[i] # Torn => Verified(ledger[i])

(* Without overlapping processes the ledger is the cases in order, each    *)
(* once, up to a torn last line, whatever was crashed and resumed.         *)
LedgerOrdered ==
  ~overlap => \A i \in DOMAIN ledger : ledger[i] = i \/ (ledger[i] = Torn /\ i = Len(ledger))

(* The derived checkpoint never counts a case whose entry its digest does  *)
(* not cover.                                                              *)
CheckpointDerived ==
  /\ ~overlap => checkpoint.count = checkpoint.upto
  /\ checkpoint.count <= checkpoint.upto /\ checkpoint.upto <= Len(ledger)

(* A command of the subprocess adapter that exited worked on the frozen    *)
(* inputs, also when the project was edited and restored around it.        *)
RanOnFrozen ==
  adapter = "subprocess" => \A c \in Case : result[c].end = "EXITED" => result[c].on = "frozen"

(* A receipt stays good: later attempts on the same run, crashed or not,   *)
(* leave what it verified.                                                 *)
ReceiptStays == receipt /\ ~overlap => Complete

(* What no resume repairs: a run directory without its manifest, a case    *)
(* cut off before its result, a torn ledger line.                          *)
Lost ==
  \/ root = "dir" /\ \A p \in Runners : ~At(p, "freeze")
  \/ \E c \in dir : ~Verified(c) /\ \A p \in Runners : ~(At(p, "inputs") \/ At(p, "command") \/ At(p, "record"))
  \/ Torn \in {ledger[i] : i \in DOMAIN ledger}

(* Any other interruption is resumed to the end, whatever was cut off, as  *)
(* long as the inputs are the frozen ones.                                 *)
Finishes == <>[](Complete \/ Lost \/ overlap \/ input # "frozen")

(* Results, ledger and checkpoint agree after any crash and overlap.       *)
LedgerSound == TypeOK /\ LedgerBacked /\ LedgerOrdered /\ CheckpointDerived

(* The raw evidence is what one run of each case produced on the frozen    *)
(* inputs; nothing replaces it, and a receipt that verified it stays good. *)
EvidenceStands == CasesOnce /\ RanOnFrozen /\ ReceiptStays
EvidenceSound == [](CasesOnce /\ RanOnFrozen /\ ReceiptStays) /\ EvidenceKept

=============================================================================
