------------------------------- MODULE PowerLab -------------------------------
(***************************************************************************)
(* decisions/starting_xi/power_lab.py, run_lab(): one sitting after        *)
(* another computes the cells of the power grid on a pool of workers,      *)
(* inside a time budget, one checkpoint file per cell.  A cell may raise   *)
(* and a sitting may be killed at any point; the next one resumes from the *)
(* checkpoints.  The serial branch is the pool of one worker.              *)
(*                                                                         *)
(* Abstraction: cells are their positions in the order asked for; time     *)
(* passes only while the pool computes, bookkeeping takes none.            *)
(***************************************************************************)
EXTENDS Naturals, FiniteSets

CONSTANTS NumCells,   \* cells of the grid asked for
          Workers,    \* processes of the pool
          Share,      \* seconds of a cell under full parallelism, as the pilot timed it
          Budget,     \* seconds a sitting may take
          MaxFaults   \* bound: cells that raise and sittings killed

Cells == 1..NumCells

ASSUME LabAssumption ==
  /\ NumCells \in Nat
  /\ Workers \in Nat \ {0}
  /\ Share \in [Cells -> Nat \ {0}]
  /\ Budget \in Nat
  /\ MaxFaults \in Nat

NoCell == 0

VARIABLES checkpoint,  \* the checkpoint file of each cell: absent, torn or whole
          tmp,         \* the .tmp file beside it
          pc,          \* where the sitting is
          queue,       \* cells not submitted; the first in order is next
          running,     \* cells handed to the pool and not returned by wait()
          finished,    \* cells the pool has an outcome for, not yet looked at
          raised,      \* those of them whose outcome is an exception
          batch,       \* cells wait() returned, not yet recorded
          writing,     \* the cell whose .tmp is written, or NoCell
          stopped,     \* the budget stopped the sitting
          clock,       \* seconds since the sitting started
          due,         \* when each running cell will have an outcome
          faults       \* faults so far

pool == <<running, finished, raised, due>>
sittingVars == <<checkpoint, tmp, pc, queue, running, finished, raised, batch, writing,
          stopped, clock, due, faults>>

SittingsTypeOK ==
  /\ checkpoint \in [Cells -> {"absent", "torn", "whole"}]
  /\ tmp \in [Cells -> {"absent", "torn", "whole"}]
  /\ pc \in {"idle", "schedule", "wait", "record", "write", "replace", "exit", "returned"}
  /\ queue \subseteq Cells
  /\ running \subseteq Cells
  /\ finished \subseteq running
  /\ raised \subseteq Cells
  /\ batch \subseteq Cells
  /\ writing \in Cells \cup {NoCell}
  /\ stopped \in BOOLEAN
  /\ clock \in Nat
  /\ due \in [Cells -> Nat]
  /\ faults \in Nat

SittingsInit ==
  /\ checkpoint = [c \in Cells |-> "absent"] /\ tmp = checkpoint
  /\ pc = "idle"
  /\ queue = {} /\ running = {} /\ finished = {} /\ raised = {} /\ batch = {}
  /\ writing = NoCell
  /\ stopped = FALSE
  /\ clock = 0
  /\ due = [c \in Cells |-> 0]
  /\ faults = 0

Saved == {c \in Cells : checkpoint[c] = "whole"}

--------------------------------------------------------------------------------
(* The cells saved by earlier sittings are loaded, the others are pending;  *)
(* an unreadable checkpoint would stop the sitting here.                    *)
StartSitting ==
  /\ pc = "idle"
  /\ \A c \in Cells : checkpoint[c] # "torn"
  /\ pc' = "schedule"
  /\ queue' = Cells \ Saved
  /\ UNCHANGED <<checkpoint, tmp, pool, batch, writing, stopped, clock, faults>>

IsHead(c) == c \in queue /\ \A d \in queue : c <= d

(* A cell on one worker takes Workers times its share. *)
CellWall(c) == Share[c] * Workers

(* Mutant: a cell that would end exactly at the budget is not started. *)
FitsStrictly(c) == clock + CellWall(c) < Budget

Fits(c) == clock + CellWall(c) <= Budget

MaySubmit == queue # {} /\ Cardinality(running) < Workers /\ ~stopped

Submit(c) ==
  /\ pc = "schedule"
  /\ MaySubmit
  /\ IsHead(c)
  /\ Fits(c)
  /\ queue' = queue \ {c}
  /\ running' = running \cup {c}
  /\ due' = [due EXCEPT ![c] = clock + CellWall(c)]
  /\ UNCHANGED <<checkpoint, tmp, pc, finished, raised, batch, writing, stopped, clock, faults>>

(* Mutant: the budget stop returns at once. *)
StopAndReturn(c) ==
  /\ pc = "schedule"
  /\ MaySubmit
  /\ IsHead(c)
  /\ ~Fits(c)
  /\ stopped' = TRUE
  /\ pc' = "returned"
  /\ UNCHANGED <<checkpoint, tmp, queue, pool, batch, writing, clock, faults>>

(* The next cell does not fit: no other is submitted either. *)
StopForBudget(c) ==
  /\ pc = "schedule"
  /\ MaySubmit
  /\ IsHead(c)
  /\ ~Fits(c)
  /\ stopped' = TRUE
  /\ UNCHANGED <<checkpoint, tmp, pc, queue, pool, batch, writing, clock, faults>>

BeginWait ==
  /\ pc = "schedule"
  /\ ~MaySubmit
  /\ running # {}
  /\ pc' = "wait"
  /\ UNCHANGED <<checkpoint, tmp, queue, pool, batch, writing, stopped, clock, faults>>

Finish ==
  /\ pc = "schedule"
  /\ ~MaySubmit
  /\ running = {}
  /\ pc' = "returned"
  /\ UNCHANGED <<checkpoint, tmp, queue, pool, batch, writing, stopped, clock, faults>>

(* The pool: a cell has its outcome by the time it is due. *)
Tick ==
  /\ pc \in {"wait", "exit"}
  /\ running \ finished # {}
  /\ \A c \in running \ finished : clock < due[c]
  /\ clock' = clock + 1
  /\ UNCHANGED <<checkpoint, tmp, pc, queue, pool, batch, writing, stopped, faults>>

CellFinishes(c) ==
  /\ c \in running \ finished
  /\ finished' = finished \cup {c}
  /\ UNCHANGED <<checkpoint, tmp, pc, queue, running, raised, batch, writing, stopped,
                 clock, due, faults>>

CellRaises(c) ==
  /\ c \in running \ finished
  /\ faults < MaxFaults
  /\ faults' = faults + 1
  /\ finished' = finished \cup {c}
  /\ raised' = raised \cup {c}
  /\ UNCHANGED <<checkpoint, tmp, pc, queue, running, batch, writing, stopped, clock, due>>

(* Mutant: the futures not done are dropped. *)
WaitForgetsRunning ==
  /\ pc = "wait"
  /\ finished # {}
  /\ batch' = finished
  /\ running' = {}
  /\ finished' = {}
  /\ pc' = "record"
  /\ UNCHANGED <<checkpoint, tmp, queue, raised, writing, stopped, clock, due, faults>>

(* wait(FIRST_COMPLETED) splits the futures into done and not done. *)
WaitReturns ==
  /\ pc = "wait"
  /\ finished # {}
  /\ batch' = finished
  /\ running' = running \ finished
  /\ finished' = {}
  /\ pc' = "record"
  /\ UNCHANGED <<checkpoint, tmp, queue, raised, writing, stopped, clock, due, faults>>

(* record(), in whatever order the set of futures is iterated: the .tmp is  *)
(* opened, which empties what a killed sitting left there, ...              *)
OpenTmp(c) ==
  /\ pc = "record"
  /\ c \in batch \ raised
  /\ writing' = c
  /\ tmp' = [tmp EXCEPT ![c] = "torn"]
  /\ pc' = "write"
  /\ UNCHANGED <<checkpoint, queue, pool, batch, stopped, clock, faults>>

(* ... written ... *)
CloseTmp ==
  /\ pc = "write"
  /\ tmp' = [tmp EXCEPT ![writing] = "whole"]
  /\ pc' = "replace"
  /\ UNCHANGED <<checkpoint, queue, pool, batch, writing, stopped, clock, faults>>

(* ... and replaces the checkpoint. *)
Replace ==
  /\ pc = "replace"
  /\ checkpoint' = [checkpoint EXCEPT ![writing] = tmp[writing]]
  /\ tmp' = [tmp EXCEPT ![writing] = "absent"]
  /\ batch' = batch \ {writing}
  /\ writing' = NoCell
  /\ pc' = IF batch = {writing} THEN "schedule" ELSE "record"
  /\ UNCHANGED <<queue, pool, stopped, clock, faults>>

(* future.result() raises: nothing more is recorded. *)
RecordRaises(c) ==
  /\ pc = "record"
  /\ c \in batch \cap raised
  /\ pc' = "exit"
  /\ UNCHANGED <<checkpoint, tmp, queue, pool, batch, writing, stopped, clock, faults>>

EndSitting ==
  /\ pc' = "idle"
  /\ queue' = {} /\ running' = {} /\ finished' = {} /\ raised' = {} /\ batch' = {}
  /\ writing' = NoCell
  /\ stopped' = FALSE /\ clock' = 0 /\ due' = [c \in Cells |-> 0]
  /\ UNCHANGED <<checkpoint, tmp>>

(* Leaving the pool's context waits for the cells in flight; their results  *)
(* go with the exception.                                                   *)
ExitPool == pc = "exit" /\ finished = running /\ EndSitting /\ UNCHANGED faults

Return == pc = "returned" /\ EndSitting /\ UNCHANGED faults

Kill ==
  /\ pc # "idle"
  /\ faults < MaxFaults
  /\ faults' = faults + 1
  /\ EndSitting

--------------------------------------------------------------------------------
Sitting ==
  \/ \E c \in Cells : Submit(c) \/ StopForBudget(c) \/ OpenTmp(c) \/ RecordRaises(c)
  \/ BeginWait \/ Finish \/ WaitReturns \/ CloseTmp \/ Replace \/ ExitPool \/ Return

Pool == Tick \/ \E c \in Cells : CellFinishes(c) \/ CellRaises(c)

SittingsNext == StartSitting \/ Sitting \/ Pool \/ Kill

Sittings == SittingsInit /\ [][SittingsNext]_sittingVars

(* Someone keeps starting sittings; processes run, and time passes. *)
FairSittings ==
  /\ Sittings
  /\ WF_sittingVars(StartSitting)
  /\ WF_sittingVars(Sitting)
  /\ WF_sittingVars(Tick)
  /\ \A c \in Cells : WF_sittingVars(CellFinishes(c))

--------------------------------------------------------------------------------
(* A stop never leaves a half-written cell, though it may leave a .tmp that *)
(* is one (power_lab.py:428-432).                                           *)
NoTornCheckpoint == \A c \in Cells : checkpoint[c] # "torn"

(* A sitting that returns accounts for every cell: what it does not list as *)
(* not run is saved, cells in flight when the budget ran out included, and  *)
(* it reports "stopped" exactly when some cell was not run                  *)
(* (power_lab.py:451, :506-510).                                            *)
ReturnAccountsForAll ==
  pc = "returned" => Cells \ Saved = queue /\ (stopped <=> queue # {})

(* While the pilot's timings hold, a sitting is never past its budget, with *)
(* any number of workers busy (power_lab.py:449-451, :470-472).             *)
WithinBudget == pc \in {"schedule", "wait", "record", "write", "replace", "returned"} => clock <= Budget

(* A cell is computed once over all sittings: none is handed to the pool    *)
(* whose checkpoint is saved, and none is lost between the queue, the pool  *)
(* and the batch (power_lab.py:463-466, :489-504).                          *)
InFlight == queue \cup running \cup batch
NothingTwiceNothingLost ==
  pc \in {"schedule", "wait", "record", "write", "replace"} =>
    /\ Cells \ Saved = InFlight
    /\ queue \cap running = {} /\ queue \cap batch = {} /\ running \cap batch = {}

(* If every cell fits the budget on its own, repeated sittings complete the *)
(* grid once cells stop raising and sittings stop being killed.             *)
EveryCellFits == \A c \in Cells : CellWall(c) <= Budget
GridCompletes == EveryCellFits => <>(Saved = Cells)
================================================================================
