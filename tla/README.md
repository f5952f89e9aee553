# A TLA+ verification of the paper-trading runtime

The repository is a paper-trading bot for crypto futures that runs on a phone: about fifty
thousand lines of Python, in several generations that were added beside each other (V9 to V24).
Most of the lines are numerical research, reports and dashboards. What must not go wrong, and
what tests hardly reach, is smaller: a handful of operating-system processes that share one
SQLite database and act on each other's rows, and one supervisor that starts and kills them.
This directory models that part, checks it with TLC on small instances, and proves the core of
it with TLAPS for all instances.

## 1. Inventory

Processes of the V24 spine, in the order data flows through them:

| part | state it keeps | operations | talks to |
|---|---|---|---|
| price contract V24.9 (`canonical_market_data_contract_v24_9_final.py`) | one row a symbol in STATUS_TABLE and in LATEST_TABLE | fetch, validate against the last status, DELETE/INSERT status, DELETE/INSERT latest | venue; read by authority, adapter, supervisor |
| quant authority V24.0 (`tools/v24_0_quant_production_authority.py`) | nothing between cycles | per cycle: score up to 12 candidates, gates, one queue row and one intent row | reads brain, prices, positions, intents; writes intents |
| canonical adapter V24.4 (`tools/v24_4_canonical_paper_adapter.py`) | intent states, paper positions, audit, health | one transaction per cycle: visit pending intents, then open positions | reads LATEST_TABLE; writes intents and positions |
| schema and kernel contract V24.6 | caps, the duplicate check, the position insert | called by the adapter | |
| runtime supervisor V24.8 | `state file`: restarts, last start, cooldown of each service | list processes, kill duplicates, restart, heal | all daemons, by `ps` and signals |
| lateral stack scripts (`scripts/run_v24_4_quant_stack_forever.sh` and others) | none | start a daemon that `pgrep` does not see | the same daemons |
| runner (`joanbot/runner.py`) with PaperBroker and ProfitGuard | positions and trades of its own tables | market, context, positions, decisions, forward tests in one loop | watched by `ops/watchdog.py` |
| state integrity V1 (`ops/state_integrity_v1.py`), run by an operator | none; the operator carries a plan's hash from one run to the next | dry run, check by hash, apply in one transaction | the runner's positions and trades |

Two older chains write tables of the same kind, and their scripts are still there to be started:

| part | state it keeps | operations | talks to |
|---|---|---|---|
| V17 chain: promotion V17.6.1, governance V17.7.2, adapter V17.8.1 | review queue, intents, canary positions with their map rows, the adapter's lock file | queue contracts for review; approve one and emit its intent (an operator, by hand); bind, manage, reconcile in one transaction | each other, through one database |
| V11: institutional runtime, position manager | canary positions; a latest row each of feedback, KPI, overlap guard and control plane | per cycle: feedback, KPI, guard, verdict, manage, open; beside it a one-shot process that closes canaries | the same position table |

Around them: canonical equity, accounting repair, decision/risk/strategy/memory,
evidence and promotion policies, the alpha stack, the other control planes, V16 and V13, collectors and
data plane, forward tests, operations, dashboards and Telegram, research tools. `PROJECT.json`
lists each with its status and the reason.

What is hard in this system, and what has to hold:

- **Transactions of different grain.** The adapter has one transaction per cycle with handlers
  inside it that swallow exceptions; the authority, the price daemon and the runner commit each
  statement. Caps, budgets, bindings and bookkeeping have to survive whatever lies in between.
- **Check, then act.** The authority counts, then inserts; the adapter counts again; the
  supervisor lists processes, then kills. The governance validates over one connection and inserts
  over another; the V17 adapter lists intents before its transaction; the reconciliation compares
  the hash of a plan before its own; V11 counts its canaries in one cycle step and opens in another.
- **Crashes.** Android kills processes; every daemon starts again from the database alone. The
  supervisor starts from a file that it overwrites in place.
- **Reads that fail open.** Many counters answer 0, and the supervisor's load answers with an empty
  state, when the read raises: a limit then lets pass what it should stop.
- **Two of everything.** Supervisor and lateral stacks may both start a daemon.
- **People.** Operators approve contracts and reconcile positions, each in a process of theirs,
  under a protocol the program does not enforce.
- **Time.** UTC days, cooldowns, activity windows, two ages of one price, restart windows.
- **Progress.** Intents must be settled, prices must come back, services must come back, exits
  must be taken.

`PROJECT.json` "hazards" has them line by line, each with the property that would notice.

## 2. Modules

| module | models |
|---|---|
| `CanaryPipeline` | authority processes and the adapter over the shared tables |
| `CanaryLedger` | abstract: what the pipeline promises to readers of the database |
| `CanaryPipeline_proofs` | the theorems about it, and the refinement |
| `PaperBroker` | the runner's broker and profit guard, commit by commit |
| `PaperBroker_proofs` | the theorems about it |
| `PriceContract` | the price daemon(s), both tables, both readers |
| `PriceContract_proofs` | the theorems about it |
| `RuntimeSupervisor` | supervisor, wrapper and worker processes, lateral stack |
| `RuntimeSupervisor_proofs` | the theorems about it |
| `IntentChain` | promotion, governance and adapter of V17 over the shared tables and the lock file |
| `IntentChain_proofs` | the theorems about it |
| `StateIntegrity` | the reconciliation of legacy positions beside the runner |
| `StateIntegrity_proofs` | the theorems about it |
| `SingleOrder` | the V11 cycle and the position manager |
| `SingleOrder_proofs` | the theorems about it |
| `TableLemmas` | facts about tables as sequences and about counting, for the proofs |
| `MC...` | values of the constants for TLC |

The modules meet in two places that are now abstract on one side: the price gates of
`CanaryPipeline` (an intent may always be refused for lack of a price) stand for the readers of
`PriceContract`, and the crashes and duplicates of all modules are what `RuntimeSupervisor` causes.
`StateIntegrity` is itself a composition: the runner in it is the broker of `PaperBroker`, reduced to
what the two shared tables see of it.

### CanaryPipeline

`intents` and `positions` are the committed tables; `txIntents` and `txPositions` are what the
adapter's `BEGIN IMMEDIATE` transaction sees; `phase` and `todo` say where `run_once` is; `auth`
is what each authority holds between two statements.

The authority: `ScreenKey` is `decide()` up to the two gates on open positions, `CountAttempts`,
`CountActive` and `ApproveKey` the three gates that count intents, each a statement of its own (others
may write and days may end between any two), `EmitIntent` the insert, `AuthorityQuit` every way a
cycle ends without one. The functions that count (`v24_attempts_today`, `active_v24_intents`,
`recent_key_attempts`) catch whatever their SELECT raises and return 0, so each gate can also be passed by
a `Misread`, whatever the table holds; the history variable `misreads` tells how often that happened
at which gate, `MaxMisreads` bounds it, and the budgets count it. `open_positions_count`, behind the two
gates on open positions (`ScreenKey`), lets its exception end the cycle, which is `AuthorityQuit`. The scores and the evidence gates are a free choice (`ScreenKey` need not
happen). The supervisor wants one authority; the lateral stack may start another, so their number is
a constant.

The adapter: `BeginCycle` (with the duplicate check), for each intent of the batch one of
`RejectAtCap`, `RejectUnpriced`, `OpenPosition`, `QuarantineIntent`, `QuarantineAfterInsert`, then
`TurnToPositions`, `ManagePosition` for each open position, and `CommitCycle` or `AbandonCycle`.
`QuarantineAfterInsert` is the handler of `run_once` that catches what `open_intent` raises after
its insert: there is no savepoint, so the position row stays. `BindCanFail` switches it, because
`CanaryLedger` does not hold with it: the orphan is a position whose intent was never opened. What
still holds then is `BoundAtMostOnce`.

A writer needs the transaction lock: `EmitIntent` waits for `phase = "idle"`. Two adapters cannot
be in a transaction at the same time, so one adapter stands for any number of them.

### PaperBroker

Prices are distances from the entry in hundredths of the initial risk, so that both sides are one
case and the levels of `strategy.py` are constants (-100, 125, 225). `close_position` commits the
trade and then the position: `TakeExit` and `TakePartial` leave the second commit in `work`, and
`CutShort` (a kill, or an exception that `Runner.run` survives) loses it. `mfe`, the profit lock,
the shrinking risk and giveback are computed as in the code, with integer division.

### PriceContract

One symbol. The status row and the latest row are each replaced in two steps; `Baseline` is
`previous_final_canonical`; `SnapshotOk` and `AdapterPriced` are the two readers. The second one,
`canonical_price`, also refuses a price outside SYMBOL_BOUNDS (`Bounds`), which the daemon itself does not
check. `accepted` is a history variable that only properties read.

### RuntimeSupervisor

One enabled service with a wrapper. `rows` is the process list of the cycle, deliberately stale;
`st` the state in memory; `saved` the state file. Time is kept as ages, so `Tick` never ends and
liveness is not a matter of a clock that stops; the lists are oldest first, so that what leaves the
window is the beginning of a list (`OlderAll`).

The state file is overwritten in place, so a save is either `SaveState` or `SaveTorn` (a kill or a full disk
in `write_text`). `load_state` turns any file it cannot parse or read into an empty state: a torn one, which
is stored as that, and a whole one whose read fails (`LoadBlank`). Either way the restarts, the last start and
the cooldown are gone, not one start. `CycleRaises` ends a cycle before its save. `starts` (every start there was), `cuts` (cycles that raised)
and `blanks` (state files lost) are history variables; `MaxCuts` and `MaxBlanks` bound the last two.

### IntentChain

Four kinds of process meet over one database. `Promote` is a pass of the promotion controller
(`build_report()` and `write_outputs()`): what the brain likes is any set of keys, what the caps
leave of it is computed; the pass is atomic, so a midnight inside one is left out. `Validate`,
`Emit` and `Abandon` are the governance with `approve_id` and `emit_intent`: it validates over a
read-only connection and inserts over another one, and `draft` is what an operator holds between
the two. The adapter runs under its forever script and, now and then, by hand: `Start` reads the lock
file, `Unlink` and `Create` are the two steps by which an old lock is replaced (both adapters may
be between them), `Cycle` is the transaction with the list of intents that was read before it
began, `CycleFails` its rollback, `Crash` a kill that leaves the lock behind, `Release` the unlink at
the end. `Transact` gives every intent its verdict in the order of the list, settles the positions
whose exit is due (which is free) and reconciles the map rows. `OutsideClose` is the position
manager V11, which closes rows of the same table.

The counters of promotion and governance (`daily_contract_count`, `daily_intent_count`, and in both modules
`open_canaries_global` and `open_canaries_key`) return 0 when their SELECT raises. A pass and a validation
therefore come with the set of counts that could not be read (`unread`), and those limits then stop nothing;
`misreads` counts the failed reads of the two daily counts. `MaxUpsets` bounds them together with crashes,
rollbacks and runs by hand. Of the other reads of a validation, `recent_intent_for_key` raises and
nothing is validated, and `same_day_review_contract_exists` fails closed.

A contract is told apart by its key, its queue row and the pass whose timestamp is in it, which
is what the hash of the intent is taken from. Left out: the horizon in which a price is looked for, the
limit of 50 rows of the reconciliation, the map state BROKEN_POSITION_MISSING, exceptions inside
one bind, and other openers of the same table. Exceptions inside one bind include the adapter's own
counters of open canaries, which return 0 as well
(`src/joanbot/institutional/institutional_paper_canary_adapter_v17_8_1.py:576`, `:595`): `OpenCaps` says what holds
when the transaction can read the table that it is about to write.

### StateIntegrity

An operator's dry run copies a hash (`DryRun`); a second run builds the plan again and compares
(`Check`); then the transaction books and closes what was planned (`Apply`) without reading again.
That the runner is stopped first is a step of the operator's protocol
(`docs/STATE_INTEGRITY_V1.md`), not of the program, so the runner starts, stops, dies, opens and
takes exits at any time, and `breach` records that the protocol was not kept: a plan was checked
while the runner ran or another operator had one in hand, the runner was started while one was in
hand, or the runner was stopped between a trade and the update of its position. The last is
no mistake of the operator's: an exit that a kill cut in two is booked, its position is open,
and the reconciliation books it again. A position without sound entry, size and side, or without a
recent price, blocks the whole reconciliation. `build_plan`'s reads are one step; the baseline file is
not modelled (it is written before the commit and survives a rollback). Giveback exits touch no row
of the table and are left out.

### SingleOrder

Every statement of the V11 cycle commits by itself, so there is a step for each: `Feedback`, `Kpi`,
`Guard`, `Control` write their latest row, `Manage` and `WriteManaged` visit the open canary,
`FindRoom` and `Insert` open one; `Abort` ends a cycle anywhere. `ManagerCloses` is the position
manager, `Tick` a new UTC day. Edges, derivatives and regime are a free choice of `Guard` and
`Control`; results are hundredths of R. The UTC dates are kept as the number of canaries opened
today. The reads of the control plane and of the bridge are one step each: between two of them
the manager can only close, and midnight only make room. Failed reads that `q1` turns into
"nothing found", and a second runtime started by hand, are left out.

## 3. Runs

| run | question | bounds |
|---|---|---|
| `PipelineCore` | do caps, budgets, cooldown and the refinement hold for the system as intended? | 1 authority, 3 keys on 2 symbols, 3 intents, moments 0 to 2 with days of 2, batch of 1, 1 failed count |
| `PipelineRivals` | what is left with two authorities and failing statements, does the inductive invariant hold, and is every intent settled? | 2 authorities, 2 keys, 3 intents, 1 day, 1 attempt a day and 1 live intent allowed, 1 failed count |
| `PipelineInfra` | do infrastructure rejects consume budget? (they do) | 1 authority, 2 keys, 1 failed count |
| `BrokerPasses` | do bookkeeping, stops, givebacks, first exits and the inductive invariant survive cut-short passes? | 2 symbols, 2 positions, 1 crash, 7 prices around every level |
| `BrokerExits` | are exits taken after the partial exit? (they are not) | 1 position, no crash |
| `PriceFeed` | one daemon: recency, with its invariant, and jumps | 3 levels, of which 2 within the adapter's bounds, source age 1, row ages 2, 6 moments |
| `PriceRivals` | two daemons: does the price return? (recency is proved for any number of them) | 3 levels that are a jump apart, of which 2 within the adapter's bounds, ages 0 |
| `SupervisorSafety` | restart budget, grace and the inductive invariant, with a cycle that raises and a state file that is lost | 3 start-ups at a time, window 2, budget 2, cooldown 1, grace 1 |
| `SupervisorLiveness` | does a service come back, is a sick one tried again, do duplicates end? | 3 start-ups at a time, window 2, budget 1, cooldown 1, grace 0, 1 lost state file |
| `ChainCore` | caps, binding, daily limits and the inductive invariant with two operators and two adapters; does every intent get a verdict? | 2 keys, all caps 1, 3 intents, 2 passes, 1 moment later, 1 crash, rollback, failed count or run by hand |
| `Reconcile` | is a position closed and booked once, do resolved conflicts stay so, and does the inductive invariant hold? | 1 symbol, 2 operators, 3 legacy positions, 1 further one, 1 price row, 1 stop or rollback |
| `OneOrder` | one canary at a time and a day, losses cut, the inductive invariant, and what a cooldown ends in | results -1.00, 0.20, 1.50 R; 5 canaries; midnights and aborted cycles without bound |

Why these bounds are enough to be interesting: each cap and budget is smaller than the number of
intents, so it is reached and hit again; both a cap per symbol that two keys share and a global cap
over two symbols occur; the day ends within the run; batch size 1 makes the oldest row matter; the
price list has a price on, between and beyond all levels of a position; three start-ups are one
more than the two that are a duplicate. In `PipelineCore` and `PipelineRivals` the small caps differ
from the ones of `ADAPTER_CAPS` (2, 1, 1, 4) and of the authority on purpose: the proofs cover all
values. `ChainCore` has two operators and two adapters because the limits are about what a second one
adds; every cap is 1, so that the second intent of a key and of a day already meets it. The bounds with failed
reads are met exactly: the attempts of a day in `PipelineRivals`, the starts in `SupervisorSafety`, the reviews
of a day in `ChainCore`. The third intent of a day, which a failed count lets the governance emit, takes a third
promotion pass and is left to the theorem (`IntentsAreCapped`). In `Reconcile`
three positions of one symbol make three conflicts at once and the fourth is one the runner
opens after the apply. `OneOrder` keeps the real loss limit (2), floors and sample of the sum (3), and
shrinks the samples of the win rate, the long mean, the KPIs (from 5, 8, 10 to 3, 4, 4) and the
drawdown floor (from -400 to -100), so that each rule decides within five canaries.
`PriceContract` and `CanaryPipeline` have a clock that ends at `MaxNow`; a liveness property
there says what happens when nothing gets older any more, after any history up to then.

Every property has a mutant of the code (PROJECT.json "mutants") that TLC finds violating it: a
dropped gate, an off-by-one, a swapped commit, a missing rollback. The mutants stand beside what they
change, marked as such.

### Fairness

- `CanaryPipeline`: the adapter's loop goes on (weak fairness of `AdapterStep`), and only finitely
  many cycles are abandoned. Both are what the daemon loop and the supervisor give when the database
  is not broken for ever. Nothing is assumed of the authority.
- `PaperBroker`: passes go on (the loop of `Runner.run`, and `ops/watchdog.py`, or the operator
  with the start script, that starts it again).
- `PriceContract`: from some moment on the daemons stay up and the venue answers with fresh and
  consistent data, whatever the prices are. Before it, anything. The price then returns for the authority and
  the supervisor whatever it is, for the adapter if the market stays within the adapter's bounds.
- `IntentChain`: the adapter under its forever script goes on (`AdapterStep(Loop)`), and a lock file
  left behind grows old. Operators, promotion and runs by hand owe nothing.
- `StateIntegrity`, `SingleOrder`: none; only safety is claimed.
- `RuntimeSupervisor`: the supervisor cycles and time passes. Wrappers, workers, health and the
  lateral stack owe nothing.

## 4. Findings

- `PipelineInfra`: the authority promises that infrastructure rejections do not cost attempts or
  cooldown, but looks for their reason in the audit table of the V17.8.1 adapter, where the V24.4
  adapter writes nothing. Every rejection counts.
- `BrokerExits`: the partial exit sets the stop to the entry, and a position whose stop is its entry
  has no risk and is skipped by every later pass. It is never closed, neither at break-even nor at
  the second target.

Met while modelling, and stated only as behaviour of the models: a quarantine after the insert
leaves an open position that no audit row counts; each authority beyond
the first, and each failed read of the gate's own count, may overrun the daily, active or key budget by one
intent, and by no more; a state file that is torn or cannot be read forgets the whole restart budget, the
cooldown and the last starts at once, so that each lost file allows as many starts more as the
budget allows; the adapter has no price while the market is out of its bounds, though status and latest are
fine; a giveback
exit is not remembered (what bounds the damage is `GivebackIsLocked`); an accepted
price may jump by any amount after one refusal; two operators exceed the daily limit on intents by one,
and one promotion pass exceeds the daily cap on reviews by what it queues, and each failed read of the
count adds one intent or one pass; an adapter that works
from an old list under a broken lock may mark an intent rejected whose position is open (the
clause with `broken` in `VerdictsStand`); the control plane V11 tells the operator to
WAIT_FOR_CANARY_FEEDBACK_RECOVERY, KPI_RECOVERY_REQUIRED
(`src/joanbot/control/control_plane_v11.py:270`, `:275`), and no recovery is possible (`CooldownIsFinal`).

Read in the code and stated in no model, because no property modelled here depends on it:

- `src/joanbot/intelligence/evidence_registry_v1.py:60` creates `outcome_provenance_v1` with
  `exclude_reason TEXT NOT NULL`; `close_position` of the V17.8.1 adapter inserts `excluded_reason`,
  which the dynamic insert drops, and the failure is swallowed. A position is then CLOSED without the
  outcome row that `src/joanbot/institutional/promotion_controller_v17_6_1.py:343` requires
  ("position_must_write_outcome_provenance_v1_after_close").
- Any alpha gate row of V16, also one that allows, blocks V11: `recommended_action` is read at
  `src/joanbot/control/control_plane_v11.py:435` before it is assigned at 455, and the exception
  (462) is turned into BLOCKED_ALPHA_GATE_V16_APPLY_ERROR, where the comment at 446 says that V16 may reduce.
- The queue id that an intent of the V24 authority names may be the id of an evidence row
  (`src/tools/v24_0_quant_production_authority.py:162`, see "hazards"); nothing in V24 reads it.

## 5. Proofs

`CanaryPipeline_proofs` proves, for every value of the constants that satisfies
`ConstantsAssumption` (in particular any number of authorities, keys, symbols and intents, and any
caps):

- `InvariantHolds`: `Spec => []PipelineInv`, and from it `TypesHold`, `OpenCapsHold`,
  `DailyOpenCapHolds`, `BindingHolds`;
- `AttemptBudgetHolds`, `ActiveBudgetHolds`, `KeysCoolDownHolds`: what the three counting gates of
  the authority are worth with any number of authorities that count before the others commit, and of
  reads that fail;
- `SettledRowsAreFinal`: the action property `SettledIsFinal`;
- `PipelineImplementsLedger`: under `~BindCanFail`, `Spec => Ledger!LedgerSpec`, with the
  refinement mapping that forgets times, reasons, days and audits.

The caps and the binding are not inductive as they stand: `CommitCycle` publishes the uncommitted
tables, so they must hold of these too; the binding of an uncommitted opening needs that its intent
is still pending to everybody else; and that again needs that the transaction has seen every
commit since it began. `PipelineInv` adds exactly that: `CycleView` relates the uncommitted tables
to the committed ones (`Continues`), and the caps, the daily cap and `BoundOnce` are asserted of both
pairs of tables.

The budgets need more (`BudgetsHold`: `Spec => []BudgetInv`), since an authority inserts long after it counted. It
counts the gates in hand in: the intents of a day and the authorities that have passed the daily
gate and not yet inserted are together within the bound (`AttemptsInHand`), and so are the live
intents (`ActiveInHand`) and the recent ones of a key (`KeysInHand`). Whoever passes a gate has counted
what there is, so the sum grows by one only when it was below the limit; whoever passes on a failed
read has not, so the bound grows with it (`Slack`); and an insert turns an
authority in hand into an intent. Time passes between count and insert, so these parts speak of the
current moment and of every later one up to the bound `MaxNow`; with `TimesArePast` (no intent is from
the future) a new day or a later window only counts less. `BudgetInv` includes `PipelineInv`; TLC checks
both as one invariant of `PipelineRivals`, with two authorities that overrun each other. The proofs assume that
the set of authorities is finite and not empty.

The layout of the proof: lemmas about tables and counting (`TableLemmas`); a lemma for each
operation on tables (closing and opening keep the caps, refusing and binding keep the binding); a
lemma for each action; the invariance theorem; then the action property and the refinement.
For the refinement a second invariant (`AllAudited`: without failing statements every position has
its audit row) is proved along the same lines. The other proofs have the same layout.

`PriceContract_proofs`, from `ContractAssumption` and `RowAssumption`:

- `TypesHold` and `PricesAreRecent`, for any number of daemons that overwrite each other, collide
  and crash, any levels and age limits. `TradableIsRecent` speaks of the tables only. The invariant
  (`RecencyInv`) adds what is on its way there: a candidate is judged against the clock of its
  fetch, and stays right because no time passes while a candidate is held (`Tick`); from then on
  the result carries the moment of its check, and neither a delete nor a collision puts anything
  else in its place. `RowAssumption` says that no row is not a row.
- `JumpsAreGuarded`, for one daemon: its invariant (`JumpInv`) is that the row the next price is
  compared with is the last price accepted, unless a refusal or a crash came after it. With two
  daemons it is false (TLC shows it): both compare before either has published.

`PaperBroker_proofs`, from `BrokerAssumption` (any symbols, prices, numbers of positions and cuts):

- `BrokerTypesHold`, `ClosedPositionsAreBooked`, `RepeatsAreBounded` and `StopsTighten`. The bound
  on repeated trades is inductive only when it says where the one extra trade is: an exit that is
  stored, or booked and in hand (`FullDue`, `PartialDue`), is the one that no cut has to pay for.
  The row in hand has to belong to an open position the pass has left behind, must not take back a
  partial exit or loosen a stop, and closes only what is booked (`WorkInv`).

- `GivebacksAreLocked`: the action property that a giveback, however often it is repeated, is taken
  above a stop beyond the entry. Its invariant (`LockInv`) says of every row, stored or in hand, that its
  stop is at the entry or beyond, or is the one it was opened with and the row has never been far
  in profit: the excursion is stored together with the lock or not at all.

`IntentChain_proofs`, from `ChainAssumption` (any keys, operators, caps, times and numbers of upsets):

- `ChainInvariant`, and from it `TypeCorrect`, `CapsHold`, `IntentsAreBoundOnce`,
  `VerdictsAreTrue`, `IntentsAreCapped`, `ReviewsAreCapped`. The daily limit is inductive only with the
  contracts in hand counted in (`IntentBudget`): today's intents and the operators that hold a validated
  contract together stay within the bound, because whoever validates another one has counted the
  intents there are. Where a count could not be read the bound itself grows (`IntentRoom`, `ReviewRoom`): by
  one contract for a validation, by a whole pass for a promotion. The verdicts need what the lock gives while no lock was ever found stale
  (`LockInv`): one adapter is inside at most, and what its list names is still pending. `ChainInv`
  says this of the days TLC can enumerate and is what `ChainCore` checks. The proof uses its version for
  every day (`CalendarInv`), since a new day has to be within the bound when it begins.

`StateIntegrity_proofs`, from `IntegrityAssumption` (any symbols, operators, legacy positions):

- `IntegrityInvariant`, and from it `TypeCorrect`, `PositionsAreClosedOnce`, `ConflictsAreResolved`.
  The invariant adds that a trade comes before the update of its position (`Bookings`), that runner and
  operators take turns while the protocol is kept, each working from ids that are open
  (`TakingTurns`), and that a plan in hand still covers every conflict there is (`PlansCover`), protocol or
  not, because the runner closes positions and opens none of a symbol that has one.

`RuntimeSupervisor_proofs`, from `SupervisorAssumption` (any window, grace, budget and cooldown, any finite
set of start-ups, any number of cycles that raise and of state files that are lost):

- `SupervisorInvariant`, and from it `TypeCorrect`, `StartsAreBudgeted` and `GraceIsKept`. The supervisor
  counts the starts it remembers; the properties speak of the starts there were. `SupervisorInv` relates
  the two lists by `Covers(known, ages, c)`: counted from the newest, each age but for the first `c` has
  its like, at most as old, among the known ones. What a cycle works on, and the state file, cover all
  starts but for `Forgotten`: one for each cycle that raised and a full budget for each lost file. While a
  start is about to be saved the file misses that one too (`StartMissed`), and a cycle that raises makes
  this one more forgotten start. An empty list covers everything once a full budget more is
  forgotten, because the list before it had no more than that (`BlankCovers`); a start adds to both lists
  alike (`StartCovers`), missing more is weaker (`CoversMore`), and time drops from the known list nothing that
  stays in the other (`AgingCovers`). For the grace, no known start is younger than the last one
  (`LastStartIsLast`). The lists stay oldest first, which makes ageing a matter of indices: no induction over
  lists is needed.

`SingleOrder_proofs`, from `OrderAssumption` (any results, limits and samples):

- `OrderInvariant`, and from it `TypeCorrect`, `OneOrderAtATime` and `LossesAreLimited`; `CooldownStays` for
  the action property `CooldownIsFinal`. The single order is inductive with `RoomIsKept`: what the
  bridge found is still so when it inserts, because nobody else opens, and the day that may end in between only lowers the count.

  `LossesAreLimited` needs to know which results are still to change: only the latest canary can be
  open or in the bridge's hand (`LatestIsOpen`), whether the manager closes it, the bridge writes over
  it, or both. A cycle that was not told to cool down has at most that one loss to learn of, so at every
  insert the losses in a row are within the limit, and the new canary can add one (`LossesAreKnown`).

Only model-checked: all liveness (`PendingSettles` of both chains, `FirstExitsAreTaken`, `PriceReturns`, and
`ComesBack`, `KeepsTrying`, `DuplicatesEnd` of the supervisor), because the prover does not treat liveness under
fairness or ENABLED. Every invariant and every action property of the passing runs is proved, and TLC
checks every inductive invariant in a run too (`BudgetInv` with `PipelineInv`, `ChainInv`, `BrokerInv`,
`RecencyInv`, `SupervisorInv`, `IntegrityInv`, `OrderInv`). No module uses RECURSIVE.

## 6. Not modelled, and why

Most of the fifty thousand lines is not control: scores, posteriors and backtests over floating-point
samples, reports about them, superseded generations of the same, dashboards. A model of a
regression or of a report has no behaviour a model checker could get wrong in an interesting way, and
"free choice" is the faithful abstraction of it where its result is used. The share of lines mapped
stays small for that reason; what is left of control is in section 7.

Scores, evidence, sizes, pnl, fees: floating-point numbers no property here depends on. Audit rows
other than the one the daily cap counts, health rows, reports: written and not read by the pipeline.
Schema repair: start-up work on old databases. Corrupt rows and manual edits of the database.
The remaining components, with reasons, are in `PROJECT.json`.

## 7. Plan

1. The V11 and V17 writers and the pipeline over one position table: two open positions of a key
   left by another writer stop every cycle of the V24 adapter
   (`src/joanbot/institutional/canonical_schema_v24_6.py:163`).
2. The composition of `CanaryPipeline` with `PriceContract`: approvals by status, openings by
   latest, rejections in the delete window.
3. `RuntimeSupervisor` with disabled services and stacks that kill each other's daemons.
4. Forward tests and edge memory.
5. Proofs: the abstract specifications that other components lack (a rate limiter that the
   supervisor implements, a book of single closings for `StateIntegrity`), and the consequences of
   `CanaryLedger` for its readers.
