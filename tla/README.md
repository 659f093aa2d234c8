# A TLA+ development of fpl-intelligence

This directory holds a formal model of the parts of fpl-intelligence that are hard to
test: the files its pipeline, snapshots and long runs leave behind, the order in which
they are written and read, and the algorithms every verdict rests on. It contains TLA+
modules, configurations for TLC, theorems checked by TLAPS, and `PROJECT.json`, the
machine-readable index (components, runs, mutants, source map, hazards, findings, theorems).

## 1. Inventory

| Part | Code | State it keeps | Operations | Talks to |
|---|---|---|---|---|
| DAL pipeline runner | `dal/pipeline.py`, `dal/staging/stg_entities.py` | mart parquet, `.tmp`, manifest JSON | `run`, `load` | reads the source SQLite database; `load` is called by research, model, serve, operational |
| DAL layers | `dal/staging`, `intermediate`, `fct`, `feat`, `mart`, `validation` | none (frame to frame) | `stage_*`, `build_*`, `validate_*` | called by `run`; raise `DALContractViolation` |
| Warehouse snapshots | `warehouse/served.py` | `data/served/<run_id>/`, the pin JSON | `refresh`, `read_pin`, `write_pin`, `load`, `load_managers` | downloads from the fpl-warehouse producer; feeds `decisions/` |
| Power lab | `decisions/starting_xi/power_lab.py`, `power_report.py`, `operational/starting_xi_power_lab.py` | one checkpoint JSON per cell, `PROBE.md`, `REPORT.md` | `run_lab`, `pilot`, `probe`, `report` | a process pool; resumed by the next sitting; read by stage 5 |
| Starting-XI decision study | `decisions/starting_xi/*` | none but its result files | sampling, ranking, selection, replay, panel, verdict | frames of a snapshot |
| Free-hit decision study | `decisions/free_hit/*` | none but its result files | candidate generation, feasibility, evaluation, verdict | frames of a snapshot |
| Study runners | `operational/*` | result directories, FEED/REALISM/VERDICT files | preflight, run, check_feed | snapshots, decision studies |
| Composition model | `model/terms`, `compose`, `simulate`, `forecast`, `assemble`, `eval` | none | terms, composition, walk-forward folds, metrics | the mart |
| Model governance | `model/governance`, `domain/registry` | registry YAML/JSON | promotion, semantics, validation, loading | research findings |
| Research families | `research/families`, `kernels`, `registry` | finding files | lenses, statistical kernels, registry build | the mart |
| Domain leaf | `domain/` | none | scoring rules, squad rules, signal layers | everyone |
| Serve | `serve/` | none | captain, value, transfers, availability | mart and registry |

Interactions are function calls and files. Nothing is locked: two processes meet only in
the file system, so every hard behaviour is one of

* a process that dies, or an exception that escapes, between two file operations;
* a second process (another `run`, a `load`, a `refresh`, a study, the producer, the ingest)
  whose file operations fall between two of the first;
* a cached or recorded fact (manifest, pin, checkpoint, verdict) that is stale when it is used.

The rest of the hazards are sequential: orders of vacancies and substitutes in the replay of
a gameweek, caps and quotas at their limits while a squad is drawn, a feasibility check that
answers for one filling order, blank and double gameweeks in the joins and windows of the
DAL, the second draw of a verdict, an adjustment for multiplicity.

What makes each part correct:

* **Pipeline runner.** The live mart is never partial; a violation leaves nothing servable,
  even across a crash; a cache hit answers for the database it hashed; a load never hands
  out a mart older than the manifest it read; every ingest is eventually served. All but the
  first hold through a manifest that was written for the mart's path, which the code does not
  check (section 4).
* **DAL layers.** No minute is dropped or counted twice; a club follows the fixtures played;
  no feature sees the gameweek it describes; cutting a mart equals building it then, the
  gameweeks' status columns aside;
  no contract refuses what the league can do.
* **Snapshots.** A readable pin names a complete snapshot; a study holds exactly what its pin
  names; a served snapshot never changes.
* **Power lab.** Checkpoints are whole; each cell is somewhere and nowhere twice; the budget
  holds; repeated sittings finish the grid.
* **Squad-week.** The XI is the best legal one under the scores it was made from;
  substitutions keep the side legal, cover what they can and respect the order; the
  counterfactual is a true maximum; a ranking that foresees the points leaves no regret.
* **Free hit.** A pick never makes the squad impossible; a candidate who fits a legal squad is
  turned down only where the completion spent a club in an earlier position and misses it in a
  later one; where that never happened, the best remaining candidate was taken each time and a
  squad is found whenever there is one.
* **Sampler.** Squads are feasible, the first accepted, independent of batches; the red line
  and the cap stop a run before it builds.
* **Verdicts.** The step-down decides as the closed test does; more tests never make passing
  easier; a verdict that asks for no second bootstrap would survive one.
* **Power report and stage 5.** No power is claimed where the false-alarm check failed; the
  report's parts agree; a verdict rests on one pin, and its three files on one set of levels.
* **Signals.** A core signal was earned on its sample; every assembled row keeps the registry
  contract; registry and lens studies do not state opposite things.
* **Forecast.** The law of a published forecast, and a published list, do not change when the
  season goes on, do not depend on who then played, and lose no regular. The simulated columns of
  old rows (p_haul, p90, p10) do move a little: `simulate.py:163-171` draws all rows from one
  seeded stream.

## 2. Modules and how they follow the code

| Module | Models | Role |
|---|---|---|
| `MartStore` | what `run`/`load` promise a reader: the served mart only becomes newer or hidden | abstract specification |
| `MartPipeline` | `dal/pipeline.py` `run()`, `load()`, `stg_entities.py` | implements `MartStore` (`Refinement`) |
| `DalLayers` | `dal/staging` ... `dal/mart`: the content of a mart | detail behind the layer steps of `MartPipeline` |
| `Forecast` | `model/` terms to composed forecast, `serve/` lists, `recommend.py` | what is read of a mart that grows |
| `ServedSnapshot` | `warehouse/served.py` | |
| `PowerLab` | `power_lab.py` `run_lab` and its checkpoints | |
| `LabReport` | `power_report.py`, the `probe` and `report` commands | extended by the next |
| `Stage5Verdict` | `starting_xi_stage5.py` `verdict`, `realism.py` | composed with `LabReport` |
| `FamilyVerdict` | `starting_xi/verdict.py`, `free_hit/verdict.py`, `multiplicity.py` | |
| `Formations` | `domain/fpl_squad.py`, `formations.py` | operators shared by the next three |
| `XISelection` | `harness.py` `rank_squad`, `select_xi`; `best_legal_xi` | extended by the next |
| `XIReplay` | `harness.py` `replay`, the regret of `run` | extended by the next |
| `SquadWeek` | `harness.py` `run` of one squad-week, `orderings.py` | the whole squad-week |
| `SquadRules` | `domain/fpl_squad.py`: positions, quotas, limits | extended by the next two |
| `FreeHitSquad` | `free_hit/candidates.py`, `feasibility.py` | |
| `SquadSampler` | `sampler.py` | |
| `SignalBins` | binning, shape, stability and stratification kernels | operators of the next |
| `SignalEvidence` | registry row (sections, assembler, association, semantics, promotion, validation) and the lens studies | |
| `DalProofs`, `ServedSnapshotProofs`, `LabVerdictProofs`, `SquadBuildProofs`, `SquadWeekProofs`, `SignalEvidenceProofs`, `ForecastProofs` | | theorems, section 5 |
| `FiniteSums` | | lemmas on sums, extremes and orders of finite sets, used by `DalProofs`, `SquadWeekProofs` and `SquadBuildProofs` |
| `MC*` | | small instances for TLC |

`PROJECT.json` maps every definition to its lines. In outline:

**`MartPipeline`.** One action per file operation of `run()`: `CleanTmp` (a stale .tmp is
removed), `HashDb`, `CacheHit`/`CacheMiss` (the four conditions of `_cache_valid`),
`ReadEntity` (the six staging reads are separate connections, so an ingest can fall between
them), `LayerDone`/`LayerFails`, `OpenTmp`, `CloseTmp`, `Rename`, `TruncateManifest`,
`CompleteManifest` (`write_text` is not atomic), `DropMart`. `Crash` may follow any of them. `Load`
reads the manifest and the mart in two steps. A database version is the number of its last
gameweek and stands for its hash; a schema fingerprint is the version of the code. `Ingest`
and `CodeChange` are the environment. `condemned` and `served` are history variables.
`run()` takes a `mart_path` and a `manifest_path`. The module watches one pair of paths; a call is
given both, or another manifest's path ("mart"), or another mart's ("manifest"), and then moves
half of the pair (`Calls`, `OnMart`, `OnManifest`). What lies at the other paths is left open: it may
answer a cache or not (`MayHit`). The manifest keeps whether the `mart_path` it records is the watched
one (`names`), which the code writes (`:200`) and never reads; it is the premise of the properties on
the pair. The data cutoff is left to `DalLayers`: no condition of `run()` or `load()` reads it back.

**`DalLayers`.** `Stage`, `Integrate`, `BuildSpine`, `BuildMart` are the layers in the order
`run()` calls them; each ends "ok", in a contract violation, or in another error, the
three outcomes `MartPipeline` tells apart. Minutes stand for every summed column, club and price
for the columns taken from a game, one window for the rolling means. The element-type join
behaves as the player join and is not repeated. A mean is kept as sum and count. A gameweek's
status columns (`finished`, `is_previous`, `is_live`, `is_next`) are joined onto its rows as
`_join_gw_context` does; `StatusOn` is the events table of a given day, so a mart built later carries
later flags. `CutIsHistory` therefore compares every other column. No code under `src/` reads the flags
off the mart: `resolve_target_gw` reads the events table.

**`Forecast`.** A fitted value is what it was computed from: the rows read, with what they held.
Each term is the code's chain of population, lagged features, training set, minimum sizes and
structural values; `Points` and `Line` compose them as `compose_points` and the simulator do,
NaN included; `Candidates` are the lists `serve` ranks. `PlayWeek` adds a gameweek to the mart,
`Run` fits everything again in both universes.

**`ServedSnapshot`.** The producer overwrites `served/` file by file (`Publish` steps);
`refresh()` fetches file by file into a temporary directory, decides by the manifest's
`run_id`, makes the directory, copies, then rewrites the pin in two steps. A study reads
the pin, verifies and reads its frames, then verifies and reads the managers.

**`PowerLab`.** Cells are positions in the order asked for. The parent's loop is
`schedule`, `wait`, `record`, `replace`; the pool is asynchronous: a cell becomes due and then
finishes or raises. A checkpoint's .tmp is opened, which empties it (`OpenTmp`), written (`CloseTmp`)
and renamed (`Replace`). A kill may fall between any two of them and leave a torn .tmp; the next
sitting reads the checkpoints.

**`LabReport`, `Stage5Verdict`.** A cell's result is a number fixed by its seed; `SaveCell` makes it
readable. A report is the record `build_report` returns: labels, curves, sweeps, probe and
answers; opening a file truncates it and `FinishFile` completes it. The verdict run goes
registration, pin, build identity, gameweeks, lab levels, then writes `REALISM.md`, `FEED.csv`,
`VERDICT.md` in turn; it may die or be refused at each step, while `MovePin` and the lab go on.

**`FamilyVerdict`.** `Draw` gives each test a bootstrap (its valid draws and its tail), `Redraw`
the larger second one when `needs_rerun` asks, `Adjust` decides by Holm. P-values are exact
fractions, so no rounding hides a tie; a test without a valid draw has NaN, which `Refuse`
stops as `_validate` does.

**`SquadWeek`.** `RankSquad` and `SelectXI` are `XISelection`'s: the ranking's three tiers, the
prefix selection over the legal formations, once with and once without the no-fixture rule. Then, per ordering of the outfield bench, `XIReplay`'s loop, one action per
branch: the goalkeeper slot, `Vacate` (the slackest position, recomputed with the vacant players
still counted), `Enter` (first in the queue that featured and keeps the side legal),
`NobodyEnters`, `Score`. `Compare` writes the row from all replays, or ends in the assertion.

**`FreeHitSquad`.** Score, then one action per candidate considered: taken if `can_complete`
agrees, passed over if not, infeasible if a position cannot be filled. The completion is stated by
who is in it: whoever finds a place of his position and of his club when his turn comes. It fills
the positions in turn, the cheapest first, so it may spend a club's last place in an earlier position
and miss it in a later one (`ClubSpentEarlier`); the history variable `misjudged` remembers whether
`can_complete` ever turned down a candidate some legal squad holds beside the picks.

**`SquadSampler`.** A pilot per gameweek, the red line, then batches per gameweek against the
cap, each proposal nondeterministic within its gameweek's universe.

**`SignalBins`, `SignalEvidence`.** A sample is its size, the kind of its values, whether it has one
value only, the mean target per occupied bin and how many of the bins are dense; a thin bin beside
enough dense ones takes part in the shape, as in `bin_analysis`. What a bootstrap or the panel would give is an input. The registry path goes
`MeasureGeometry`, `MeasureStability`, `MeasurePanel`, `MeasureHaul`, `Assemble`, `Enrich`, `Promote`,
and ends accepted or rejected by the contract; a lens study of one of the four families reads
the same sample on its own.

## 3. Runs

| Run | Instance | Expectation |
|---|---|---|
| `pipeline` | 1 writer, 1 reader, 2 entity reads, 2 layers, calls on the pair and on either half, 2 database and 2 code versions, 2 faults | all hold, with `Refinement` and liveness |
| `dal_layers` | 225 seasons of 4 gameweeks with event flags that move on, 3 clubs, 2 players, each also with one of 16 faults; cutoffs 0, 2, 3, none; windows 2 and 3 | all hold |
| `forecast` | 2 clubs of a keeper and a forward; seasons of 4 gameweeks out of 6 kinds (all play, a forward or a keeper rested, a late keeper, a blank, a double), 1 of warm-up | all hold |
| `forecast_keeper_prior` | the same | **violation**, the finding of section 4 |
| `served_safety` | 2 refreshes (symmetric), 1 study, 3 files, 2 publishes, 1 fault | all hold |
| `power_lab` | 4 cells, 2 workers, costs 1 and 3, budget 6, 2 faults | all hold, with liveness |
| `stage5` | 3 grid settings at 2 counts, 1 probed, 6 outcomes of the lab, at most 1 cell still to come; 4 pins, of which one is nameless and one too short | all hold |
| `family_verdict` | 4 two-sided tests of 59 draws at alpha 2/5 with 119 in the re-run; 0 to 3 one-sided legs | all hold |
| `squad_week` | FPL's own 15-man squad and bounds; five families of squad-weeks | all hold |
| `free_hit` | 3 candidates for each of 2 positions, 2 picks of each, prices 1, 2, 4, budget 9, every assignment of clubs, one pick per club | all hold |
| `squad_sampler` | 4 players, 2 gameweeks, 2 squads, batch 2, pilot 3, cap 9 | all hold |
| `research` | every sample of up to 5 bins with mean targets 0..2, and chosen ones around both minimum sizes, with all bins dense, just enough of them and one too few; blocks that are empty, rise or fall; 6 layers | all hold |

What each shows is the `about` of the run in `PROJECT.json` and the comment at each property. Why
the bounds suffice to be interesting:

* Two database versions allow a stale hash, a mixed staging read and an ingest during a build;
  a third would only repeat one of them. Two code versions do the same for the schema
  fingerprint. Two faults allow a crash during the recovery from a crash. Calls on either half of the
  pair may follow each other in any order; what they leave of the other half is open.
* Three files (the manifest and two tables) are the fewest in which a copy can be cut short
  after a table; two publishes are the fewest that can mix.
* Four cells on two workers leave cells queued when the budget stops a sitting, with one cell
  too long for what is left; two faults hit a cell and a sitting.
* Three schedules hold every shape the spine distinguishes: a plain week, a blank, a double
  with both venues, a fixture with no gameweek yet. Careers cover an early leaver, a late
  joiner and a transfer. Windows of 2 and 3 in 4 gameweeks are empty, partial and full.
* In `forecast`, two full gameweeks are enough for every term to be fitted and one is not, so each term
  is seen before warm-up, too thin and fitted; four gameweeks leave two after that.
* `squad_week` runs on FPL's real numbers because the vacancy order is argued for those; three
  blanks are as many as the outfield bench can cover. Its families: every pattern of blanks in
  every formation, bookings of players who did not play, scores with ties, gaps and idle
  clubs, as-of values with ties, and scores that foresee the points.
* Alpha 2/5 and 59 draws put attainable p-values on both sides of, and near, each of the
  thresholds 1/10, 2/15, 1/5, 2/5.
* The lab's outcomes fail the false-alarm check at one count, the other, the probe and
  everywhere; the two curves of one count disagree on what is detectable.
* Five bins hold every shape `classify_geometry` tells apart. Sample sizes 24, 25, 99 and 100
  stand around both minima.
* One pick per club among six candidates makes clubs bind in most pools of `free_hit`; the prices put
  cheap ones of a club before and behind the candidate in hand. Both ways a candidate can be turned
  down wrongly are reached, and pools where none is.
* The cap of 9 with a pilot of 3 and batches of 2 is reached both exactly and overrun.

Deadlock is checked in the runs of the pipeline, the snapshots and the lab, which never stop; the
other modules describe calls that return or seasons that end, so their runs switch it off.

**Fairness.** `pipeline`: a `run()` under way takes its next step (weak fairness on the
progress of a run), and a caller forces a rebuild again and again (strong fairness on that
request, the cron job of the operator); nothing is assumed of ingests, deployments, loads,
crashes or failing layers, which the bounds on versions and faults make finite.
`power_lab`: sittings keep being started, the parent process takes its next step, time
passes, and each running cell finishes; raised cells and kills are bounded.
The other runs check safety only.

## 4. Findings

`forecast_keeper_prior`: the first row of a keeper takes a running rate over all keepers' rows in
the order of player ids, later gameweeks included, so that row's forecast changes when the mart
grows (`model/terms/minutes/minutes.py:79` against `serve/captain.py:75-76`, "lag-safe"). Everything
else in the forecast does settle (`ForecastsSettle`, proved), and the candidate lists do too
(`ListsSettle`, proved). Both are about the law of the draws: the simulator draws all rows from one
seeded stream (`simulate.py:163-171`), so a longer mart gives an old row other draws of the same law.

Seen while modelling, in the models but stated by no run, because a passing property cannot
state them:

* `_cache_valid` (`dal/pipeline.py:115`) does not compare the requested cutoff, so `run()` without one
  returns an earlier run's explicit-cutoff mart; `:175` says it "defaults to the max GW
  present in the FCT spine".
* Neither `_cache_valid` (`:115-127`) nor `load()` compares the manifest's `mart_path` (`:200`) with the path
  asked for. `run(mart_path=other)` after an ingest records the new hash in the default manifest;
  the next plain `run()` is then a hit on the old default mart, and `load()` offers that mart under
  the new manifest. No caller in the repository passes either path, and the properties of the pair
  state the premise (`Names`).
* A power curve of `power_report.py` is read off independently seeded cells, so it may dip:
  `label_row` takes the first edge whose share passes, and a row labelled underpowered may still
  list it as its minimum detectable one.
* `refresh()` (`warehouse/served.py:238`) fetches files one after another with no check that they
  belong to one publish; `:7` says "so a run reads exactly one publish".
* With two overlapping writers the live mart can be a truncated file; the docstring calls
  overlapping writers unsupported (`dal/pipeline.py:170-172`), so `SingleWriter` is assumed.
* `harness.run()` raises its own `AssertionError` (`harness.py:671`) on a legal squad-week: `replay`
  leaves a starter nobody can replace out of the total, so a short side can beat every full
  legal XI when each must include a booked player without minutes (`fpl_scoring.py:187-188`).
  `RegretNonNegative` states the premise; the family `Booked` of `squad_week` reaches the error.
* `_greedy_fill` (`free_hit/candidates.py:358`) reports `InfeasibleGameweek` for pools that hold a legal
  squad, and `:163` says no legal squad exists: `can_complete` (`feasibility.py:150`) fills position by
  position, may spend a club's last place early and so turn down a candidate who fits, and he is not
  asked about again. `BestFirst` says when that can happen and that the fill is right otherwise.
* `bin_analysis` (`kernels/descriptive/binning.py:111`) groups a two-stage cut by its labels, which
  sort as high_nz, low_nz, mid_nz, zero; `CHARACTERIZE_DESIGN.md:69` reads them zero first.
* `is_warmup_gw` is true only in the first gameweek of the range and not on a late joiner's first
  game (`feat_player_gameweek.py:126` against `feat_schema.py:208`).
* `run_id` (`results.py:168-190`) hashes neither the ranking functions nor the commit, so two forced
  runs with other rules overwrite each other's directory; the docstring of `write` says
  "different inputs cannot overwrite each other". Read, not modelled.

## 5. What is proved

TLAPS checks eight modules; every theorem holds for every value of the constants that satisfies
the named assumptions of the modelled module. Each safety property is proved from a stronger
invariant; those of the replay and of the free-hit fill were checked by TLC on the runs' instances
first.

### Pipeline and layers (`DalProofs`)

* **`TypeCorrect`**, with and without overlapping writers. The inductive `TypeInv` adds to
  `TypeOK` that a job's counters stop at the last read and the last layer (`Bookkeeping`) and that
  a handle said to name a path finds a file there (`HandlesNameFiles`).
* Under `SingleWriter`: `MartStaysWhole`, `ViolationsFailClosed`, `CacheIsSound`, `HitsAreExact`,
  `LoadsAreNotOlder`, `ImplementsMartStore`. None of the properties is inductive: that the live
  mart is whole needs that the .tmp about to be renamed is, which needs that its writer alone held
  it (`OneWriter`, `OwnTmp`). `SafeInv` adds the order of versions the code relies on: hashed before
  read, read in order (`HashThenRead`), a manifest no newer than the mart it admits
  (`ManifestOrdered`, `Published`), a condemned mart without a usable manifest
  (`CondemnedUnusable`), and what a loader and the last reader saw (`LoaderOrdered`,
  `ServedOrdered`). A call on the mart alone publishes a build newer than the manifest that names it,
  and one on the manifest alone records a manifest that does not name the mart, so the order
  survives both. One lemma per action shows that `SafeInv` is kept; `StoreStep` maps each step
  to a step of `MartStore` or a stutter.
* **`MinutesAreConserved`**: a regular database is never refused (`NeverRefused`, one lemma per
  layer from `RegularJoins` to `RegularMart`), its spine has no gap, and the sum of a mart's minutes
  is that of the base rows (`MinutesArrive`, a sum of sums renamed by `SumRenamed`).
  **`ClubsArePlayedFor`**, **`LagsAreSafe`** (blinding a gameweek and all after it changes none of
  the windows up to it), **`CutsGiveBackHistory`** (`EarlierEvents`, `BaseAsOf`: the fixtures, the span,
  the spine and the features of the base of that day are those of the full one, restricted, whatever
  became of the events' flags). `LayersHold` says that each
  frame in hand is the one its layer computes from the source.

### Snapshots (`ServedSnapshotProofs`)

* `PinsNameWholeSnapshots`, `StudiesReadTheirPin`, `SnapshotsAreKept`, `Typing`. `Inv` says that a
  refresh past its fetches holds every file (`StagingFull`), that an unmade directory is empty, that
  whoever copies made the directory and copies alone (`OneCopier`), that the pin is written after
  the copies (`CopiedBeforePinned`), and what each study holds by its counter (`StudyHolds`).

### Lab, report and verdicts (`LabVerdictProofs`)

* **`NoCellTwiceOrLost`, `ReturnsAccount`, `BudgetIsKept`, `CheckpointsAreWhole`, `SittingsTyping`**,
  from one inductive `LabInv` that partitions the cells and bounds each running cell's due time by
  the budget. They hold of the code as far as a cell costs what the pilot timed (`Share`). That no
  checkpoint is torn rests on the .tmp in hand being whole when it is renamed, since a new sitting
  opens it again.
* **`OnePin`, `NoTrace`, `LevelsAgree`, `QuietWhereInvalid`, `Typing`** of stage 5. `Inv` says that what the
  lab writes of the probe is what the finished grid would say (`LabIsFinal`, by `ProbeIsFinal`: a
  probe report needs every cell it reads), that a report with a table is the one built from the
  whole grid (`ReportIsFinal`, `RealismIsFinal`), what a run holds and has written at each point
  (`RunHolds`), and that nothing is written before the levels are read (`NothingWrittenYet`).
* **`AnswersRestOnOneAnother`**, for every outcome of the simulated cells, rising or not: what the report
  says of the headline edge in its rows, its managers' sweep and its count needed is read off the
  same cells. `ReportIsFinal` carries it over the cells saved later.
* **`StepDownIsClosed`**: Holm decides as the closed test does (`HolmIsClosed`). The rank of a p-value
  counts those before it; the first of any part of the family stands in the way of both tests or of
  neither (`FirstOfPart`). **`SettledStaysSettled`**: a p-value further than two standard errors from
  the threshold of its own rank stays on its side of every threshold its moved rank can reach
  (`FarStaysFar`, `StaysFar`), with the squared distances cleared of fractions. **`MoreLegsAreHarder`**
  from the closed test over fewer legs.

### Squad-week (`SquadWeekProofs`)

* **`WeekIsTyped`**.
* **`RankingLosesNothing`, `ClosenessIsRight`**: `select_xi` and `best_legal_xi` take the first of each
  position in an order. `BetterSwap` shows that exchanging a chosen player for one behind him
  does not gain, `BestOfFormation` and `BestIsBest` that no legal XI beats the winner of the formations. The
  second best is a demotion of one player or the winner of another formation (`SecondIsSecond`).
  The tiers of the ranking are three such arguments on marked values (`BestByTiers`).
* **`SubstitutionsStayLegal`, `PriorityIsKept`, `NoSubstituteIsWasted`** from `ReplayInv`: who is named and
  who waits (`FieldInv`), the goalkeeper slot (`KeeperInv`), the queue is the ordering without those who
  came on (`QueueInv`), whoever was passed over could not come on then and cannot now (`PriorityInv`),
  a place is left unfilled only when nobody is left, or when the one position at its minimum has no
  substitute left and all who wait are of it (`StuckInv`), and that the slackest position
  is vacated first (`FillInv`). The last theorem is where filling order matters: `FillInv` is what keeps
  `StuckInv`, and a side that covers one blank more would need a substitute `StuckInv` excludes.
* **`RegretIsNeverNegative`** under its stated premise: a side that is short of a legal XI by players
  without minutes only (`Fielded`) is worth no more than the best XI (`FieldedIsNoBetter`).
  **`RightRankingIsBest`**: with a ranking in the order of the points, the greedy replay is an exchange
  argument again (`Exchange`, `GreedyBest`), for every ordering by points of the bench.
* Assumed of the constants (`SquadAssumption`, `WeekAssumption`): there is a legal formation, every
  position starts at least one and has the players for its maximum, there are two goalkeepers of whom
  one starts, no outfield position has more players than may start, and a legal formation has at
  most one outfield position at its minimum. FPL's numbers meet all of it; the vacancy order depends
  on the last.

### Sampler and free hit (`SquadBuildProofs`)

* `NothingHalfBuilt` (`PilotsFirst`: nothing is drawn for a week before every pilot is complete and
  above the line), `CapsHold` (`AllCounted`: while squads are missing, every proposal drawn is
  counted, so the test against the cap is on what was drawn) and **`BatchesDoNotShow`**: `Drawn`
  says that what is kept is the top of all accepted rows of the stream; a batch put behind
  it keeps that (`BatchKeepsFirst`), and the comparison of sorted clubs at a distance is the club limit
  (`ClubTest`).
* **`PicksAreNoDeadEnds`**: the completion `can_complete` counts exists for any candidates
  (`CompletionExists`) and keeps the club limit (`ClubsKept`: look at the last of a club to be taken), so
  it is itself the legal squad that must hold the picks. `FillHolds` adds that finished
  positions are full and that a position's picks have all been considered.
* **`BetterComesFirst`**, for every pool, clubs at their limit or not: ranks rise with the signal and ties
  share them (`RanksRise`, `RanksShared`), so the composite rises in every term (`CompositeRises`).
  Within a position the completion is a cheapest one (`CheapestCompletion`): among the ways to fill a
  position one that agrees with it longest is taken, and the first member it lacks exchanged for
  one of the same club or for any (`TurnedAway`, `ExchangedCaps`, `BroughtNearer`). Only a club used up
  in an earlier position can therefore make it dearer or shorter than a legal squad
  (`CompletionIsFull`, `RefusalsRight`). Where `can_complete` never erred, the picks reach a
  legal squad with every candidate who fits one (`PicksReach`); hence nobody passed over does
  (`PassedOver`), then or with a lower-ranked pick left out (`Unbeaten`).

### Signals (`SignalEvidenceProofs`)

* **`CoreSignalsAreEarned`, `RegistryKeepsContract`, `LensAndRegistryAgree`**. `Inv` says, stage by stage,
  what each label of a row stands for (`ShapeHolds`, `StabilityHolds`, `AssociationHolds`,
  `StatusHolds`, `PromotionHolds`); `Verdicts` says the same of the enriched row, the registry's and
  the lens tables. The kernels' facts are the lemmas `SteadyShape`, `StableGaps`, `ShapeOrAbstention`
  and `ShapeOfOrdered`. `LayerAssumption` is the code's table of layers: those not for features are
  not eligible.

### Forecast (`ForecastProofs`)

* **`Settles`, `ShortlistsSettle`, `WideningAdds`**, for any season. `ForecastOfPrefix` says that the
  forecast in hand is that of a prefix of the mart; a chain of lemmas from `SharedRows` to
  `SharedLine` follows each operator from the rows it reads, all before the row it scores, to
  the panel. The keeper's running rate is where the chain breaks, hence `KeeperDebut`;
  `SharedShortlist` shows that the lists do not read it.
* **`BlindToItsOwnWeek`** follows the same chain with the last gameweek replaced.
* **`RegularsAreListed`**: from enough full gameweeks every term has a value, one lemma per
  term (`HasPoisson`, `HasLogit`, `HasP60`, `HasBonus`, `HasTeam`), each showing that the
  rows it is fitted on reach its minimum (`EnoughRows`).

### What the proofs changed

* `XISelection`'s `Tier` had overlapping arms in a CASE, whose value is then not determined; it is
  the `if` chain of the code now.
* `NoRegularLost` said "after two full gameweeks", which is enough for the instance and for no larger
  minimum. It says now how many gameweeks are enough for any minimum (`Learnable`, `Enough`); on the
  instance the two premises agree.
* `EmptyWeeks` of the sampler asks every position of the rules for its quota, not only those some
  player of the frame has.
* `FreeHitSquad` states the completion by a condition on each member instead of a fold over a sorted
  sequence, which the provers cannot see through; on the instance the two agree.
* The minimum sizes, the quotas, the signals and the clubs of a frame got the types the proofs need,
  all of them the code's.

### How, and what is left

The library's induction theorems cannot be instantiated by the installed provers. Facts about sums
and orders of any finite set (`FiniteSums`, `LowestKey`, `RankParts`, `WinnerParts`) are therefore
proved from a least counterexample, by the well-foundedness of strict subsets. Sorted sequences are
stated by the rank of each element, and modules are combined by EXTENDS, for the provers to see
through them.

Proved and not also checked by a run: `HitIsExact`, `LoadNotOlder`, `SnapshotsKept`, `WithinBudget`,
`NoTornCheckpoint`, `RedLineBuildsNothing`, `CapRespected`, `WideningOnlyAdds`, and type correctness
of `ServedSnapshot`, `PowerLab`, `Stage5Verdict` and `SquadWeek`.

Only model-checked: the liveness properties `EveryIngestServed` and `GridCompletes`, since fairness
and ENABLED are beyond the prover. Every other property of a passing run is stated by a theorem.

## 6. Not modelled

`PROJECT.json` lists each part with its reason. In short:

* real-valued statistics: regressions, simulation draws, bootstrap values, calibration and
  evaluation metrics (`model/forecast`, `model/eval`, `model/assemble`, most of
  `research/kernels/inferential`). What they read is in `Forecast`, `FamilyVerdict` and
  `SignalEvidence`; what they compute is an input;
* notebooks (over 18,000 lines), explore studies, tables, plots, prose reports: they state
  nothing that changes;
* `operational/starting_xi.py` with `results.py`, the free-hit season loop and the grading of
  backtests: loops over independent units whose unit is modelled, writing a directory of
  their own. The overwriting noted in section 4 is all that could go wrong between them;
* the column schemas, the feature contracts and FPL's point values are data;
* the ingest, the warehouse producer and the death of a process are outside the repository and
  appear only as the environment (`external` in the map).

The map therefore covers about a seventh of all lines, a quarter of those in Python files.

## 7. Plan

What is left, in the order of what it would add:

1. A study run: `starting_xi.py` preflight and `results.py`, over `ServedSnapshot` and
   `SquadWeek`, with two commits and forced runs.
2. The free-hit season on top of `FreeHitSquad` and `FamilyVerdict`.
3. The grading of backtests on top of `Forecast`.
4. Proofs: an abstract specification each for the sampler (an unbatched stream) and for the snapshots
   (a store of whole publishes), with the refinement proved as for `MartStore`.
