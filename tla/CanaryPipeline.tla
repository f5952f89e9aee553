--------------------------- MODULE CanaryPipeline ---------------------------
(***************************************************************************)
(* The V24 paper-canary pipeline: the quant authority                      *)
(* (tools/v24_0_quant_production_authority.py) approves keys and writes    *)
(* intents; the canonical adapter (tools/v24_4_canonical_paper_adapter.py) *)
(* turns pending intents into paper positions and closes them.  They are   *)
(* separate operating-system processes that share one SQLite database.     *)
(*                                                                         *)
(* The authority runs in autocommit: every statement is a transaction of   *)
(* its own, so its reads and its insert are separate steps.  The           *)
(* adapter runs one BEGIN IMMEDIATE transaction per cycle: its steps work  *)
(* on the uncommitted tables txIntents and txPositions, nobody else can    *)
(* write meanwhile, and readers see the last commit.  One transaction at a *)
(* time means that a second adapter process adds no behaviour: any number  *)
(* of them is covered.                                                     *)
(*                                                                         *)
(* Abstracted: the brain's scores and the evidence gates (an approval may  *)
(* be withheld for any reason), prices (a canonical price is there or not, *)
(* and it hits a level or not), sizes, pnl, dashboards and reports.        *)
(***************************************************************************)
EXTENDS Naturals, Sequences, FiniteSets

CONSTANTS
    Authorities,        \* authority processes (the supervisor wants one)
    Keys,               \* SYMBOL|SIDE|SETUP keys the brain can score
    Symbols,            \* traded symbols
    SymbolOf,           \* the symbol of a key
    DayLength,          \* ticks of the clock in a UTC day
    KeyCooldown,        \* KEY_COOLDOWN_MIN, in ticks
    ActiveWindow,       \* the 360 minutes of active_v24_intents, in ticks
    MaxOpenGlobal,      \* max_open_global = MAX_OPEN_GLOBAL
    MaxOpenPerSymbol,   \* max_open_per_symbol
    MaxOpenPerKey,      \* max_open_per_key = MAX_OPEN_PER_KEY
    MaxDailyOpens,      \* max_daily_valid_opens
    MaxDailyAttempts,   \* MAX_DAILY_V24_ATTEMPTS
    MaxActive,          \* MAX_ACTIVE_V24_INTENTS
    BatchLimit,         \* the LIMIT of pending_intents
    BindCanFail,        \* whether a statement after the position insert may raise
    MaxMisreads,        \* bound: counting statements that raise
    MaxNow,             \* bound: last tick of the clock
    MaxIntents          \* bound: intents ever emitted

ASSUME ConstantsAssumption ==
    /\ IsFiniteSet(Authorities) /\ Authorities # {}
    /\ SymbolOf \in [Keys -> Symbols]
    /\ DayLength \in Nat \ {0}
    /\ KeyCooldown \in Nat /\ ActiveWindow \in Nat
    /\ MaxOpenGlobal \in Nat /\ MaxOpenPerSymbol \in Nat /\ MaxOpenPerKey \in Nat
    /\ MaxDailyOpens \in Nat /\ MaxDailyAttempts \in Nat /\ MaxActive \in Nat
    /\ BatchLimit \in Nat /\ MaxNow \in Nat /\ MaxIntents \in Nat
    /\ BindCanFail \in BOOLEAN /\ MaxMisreads \in Nat

VARIABLES
    now,           \* wall clock
    intents,       \* the intent table: row id -> row
    positions,     \* the position table: row id -> row
    auth,          \* what each authority process holds in memory
    misreads,      \* history: how often each counting gate was passed unread
    phase,         \* where the adapter transaction is; "idle" when none is open
    txIntents,     \* the intent table as the open transaction sees it
    txPositions,   \* the position table as the open transaction sees it
    todo           \* row ids the cycle still has to visit in this phase

tables == <<intents, positions>>
adapterVars == <<phase, txIntents, txPositions, todo>>
vars == <<now, tables, auth, misreads, adapterVars>>

-----------------------------------------------------------------------------
(* Rows.                                                                   *)

IntentStatus == {"pending", "opened", "rejected", "quarantined"}

\* Why the adapter refused an intent, as its own audit table records it.
RejectReason == {"none", "cap", "price"}

Intent == [key : Keys, at : Nat, status : IntentStatus, reason : RejectReason]

\* `audited` says that the OPENED_PAPER_CANARY audit row of the position exists.
Position == [intent : Nat, key : Keys, day : Nat, open : BOOLEAN, audited : BOOLEAN]

\* What an authority process holds between two statements: the key it is about
\* to emit and how far it got with it.
Resting == [step |-> "idle"]

AuthorityState ==
    {Resting} \cup [step : {"screened", "counted", "placed", "approved"}, key : Keys]

\* The gates that count intents, each named for the step it leads to.
Gate == {"counted", "placed", "approved"}

Day(t) == t \div DayLength

-----------------------------------------------------------------------------
(* What the two processes count.  I is an intent table, P a position table.*)

Pending(I) == {i \in DOMAIN I : I[i].status = "pending"}

OpenIds(P) == {p \in DOMAIN P : P[p].open}

OpenOfSymbol(P, s) == {p \in OpenIds(P) : SymbolOf[P[p].key] = s}

OpenOfKey(P, k) == {p \in OpenIds(P) : P[p].key = k}

DailyValidOpens(P, d) == {p \in DOMAIN P : P[p].audited /\ P[p].day = d}

\* Rows of institutional_paper_canary_adapter_audit_v17_8_1 about V24 intents.
\* That table belongs to the V17.8.1 adapter, which the V24 spine disables; the
\* V24.4 adapter writes its reasons to another table.
LegacyAudit == {}

InfraRejected(i) == intents[i].status = "rejected" /\ i \in LegacyAudit

Counted == {i \in DOMAIN intents : ~InfraRejected(i)}

\* Mutant: a refused intent is never an attempt.
AttemptsTodayUnlessRefused == {i \in Counted : /\ Day(intents[i].at) = Day(now)
                                               /\ intents[i].status # "rejected"}

AttemptsToday == {i \in Counted : Day(intents[i].at) = Day(now)}

ActiveIntents == {i \in Counted : /\ now - intents[i].at <= ActiveWindow
                                  /\ intents[i].status \in {"pending", "opened"}}

\* Mutant: an attempt exactly as old as the cooldown is forgotten.
RecentKeyAttemptsStrict(k) == {i \in Counted : /\ intents[i].key = k
                                               /\ now - intents[i].at < KeyCooldown}

RecentKeyAttempts(k) == {i \in Counted : /\ intents[i].key = k
                                         /\ now - intents[i].at <= KeyCooldown}

-----------------------------------------------------------------------------
(* The authority.                                                          *)

\* run_once() decides on up to twelve candidates and emits the best approval.
\* A candidate that is not the one emitted leaves nothing that is read again, so
\* the model follows the emitted one only.  decide() on it begins with the brain,
\* score and price gates, which may block any key, and the two gates that count
\* open positions.
ScreenKey(a, k) ==
    /\ auth[a] = Resting
    /\ Cardinality(OpenIds(positions)) < MaxOpenGlobal
    /\ Cardinality(OpenOfKey(positions, k)) < MaxOpenPerKey
    /\ auth' = [auth EXCEPT ![a] = [step |-> "screened", key |-> k]]
    /\ UNCHANGED <<now, tables, misreads, adapterVars>>

\* The SELECT of a gate raises: its handler returns 0, so that the gate lets pass
\* whatever the table holds.
Misread(gate) ==
    /\ misreads["counted"] + misreads["placed"] + misreads["approved"] < MaxMisreads
    /\ misreads' = [misreads EXCEPT ![gate] = @ + 1]

\* The gates of decide() that count intents: three statements, each of which sees
\* whatever the others have committed by then, or raises.
PassGate(a, from, room, to) ==
    /\ auth[a].step = from
    /\ \/ room /\ UNCHANGED misreads
       \/ Misread(to)
    /\ auth' = [auth EXCEPT ![a].step = to]
    /\ UNCHANGED <<now, tables, adapterVars>>

CountAttempts(a) ==
    PassGate(a, "screened", Cardinality(AttemptsToday) < MaxDailyAttempts, "counted")

\* Mutant: the gate on live intents is missing.
CountActiveLoosely(a) == PassGate(a, "counted", TRUE, "placed")

CountActive(a) ==
    PassGate(a, "counted", Cardinality(ActiveIntents) < MaxActive, "placed")

ApproveKey(a) ==
    PassGate(a, "placed", RecentKeyAttempts(auth[a].key) = {}, "approved")

\* The insert of emit_intent().  The contract row that create_queue_contract()
\* wrote just before is read by no process of the pipeline.
EmitIntent(a) ==
    /\ phase = "idle"
    /\ auth[a].step = "approved"
    /\ Len(intents) < MaxIntents
    /\ intents' = Append(intents, [key |-> auth[a].key, at |-> now,
                                   status |-> "pending", reason |-> "none"])
    /\ auth' = [auth EXCEPT ![a] = Resting]
    /\ UNCHANGED <<now, positions, misreads, adapterVars>>

\* The cycle ends without an emission: a later gate blocked the key, the insert
\* was ignored (the same key, contract and size were emitted that day), a
\* statement raised (a lock that timed out, for one), or the process was killed.
AuthorityQuit(a) ==
    /\ auth[a] # Resting
    /\ auth' = [auth EXCEPT ![a] = Resting]
    /\ UNCHANGED <<now, tables, misreads, adapterVars>>

-----------------------------------------------------------------------------
(* The adapter: one transaction per cycle, visited row by row in id order. *)

\* assert_no_open_key_duplicates(), which also runs inside ensure_runtime_schema.
NoOpenKeyDuplicates(P) ==
    \A p, q \in OpenIds(P) : P[p].key = P[q].key => p = q

IsNext(i) == i \in todo /\ \A j \in todo : i <= j

\* Mutant: quarantined rows are fetched again.
RetryBatch(I) ==
    LET due == {i \in DOMAIN I : I[i].status \in {"pending", "quarantined"}}
    IN  {i \in due : Cardinality({j \in due : j < i}) < BatchLimit}

\* The first BatchLimit pending rows by id.
PendingBatch(I) ==
    {i \in Pending(I) : Cardinality({j \in Pending(I) : j < i}) < BatchLimit}

BeginCycle ==
    /\ phase = "idle"
    /\ NoOpenKeyDuplicates(positions)
    /\ phase' = "intents"
    /\ txIntents' = intents
    /\ txPositions' = positions
    /\ todo' = PendingBatch(intents)
    /\ UNCHANGED <<now, tables, auth, misreads>>

\* Mutants: no daily cap, no cap per symbol.
CapReachedWithoutDaily(k) ==
    \/ Cardinality(OpenIds(txPositions)) >= MaxOpenGlobal
    \/ Cardinality(OpenOfSymbol(txPositions, SymbolOf[k])) >= MaxOpenPerSymbol
    \/ Cardinality(OpenOfKey(txPositions, k)) >= MaxOpenPerKey

CapReachedWithoutSymbol(k) ==
    \/ Cardinality(OpenIds(txPositions)) >= MaxOpenGlobal
    \/ Cardinality(OpenOfKey(txPositions, k)) >= MaxOpenPerKey
    \/ Cardinality(DailyValidOpens(txPositions, Day(now))) >= MaxDailyOpens

\* The four cap checks of open_intent(), on the uncommitted tables.
CapReached(k) ==
    \/ Cardinality(OpenIds(txPositions)) >= MaxOpenGlobal
    \/ Cardinality(OpenOfSymbol(txPositions, SymbolOf[k])) >= MaxOpenPerSymbol
    \/ Cardinality(OpenOfKey(txPositions, k)) >= MaxOpenPerKey
    \/ Cardinality(DailyValidOpens(txPositions, Day(now))) >= MaxDailyOpens

Settled(row, status, reason) == [row EXCEPT !.status = status, !.reason = reason]

\* The update of the intent row that ends its visit.
Settle(i, status, reason) ==
    /\ txIntents' = [txIntents EXCEPT ![i] = Settled(@, status, reason)]
    /\ todo' = todo \ {i}
    /\ UNCHANGED <<now, tables, auth, misreads, phase>>

InsertPosition(i, audited) ==
    txPositions' = Append(txPositions, [intent |-> i, key |-> txIntents[i].key,
                                        day |-> Day(now), open |-> TRUE,
                                        audited |-> audited])

Visiting(i) == phase = "intents" /\ IsNext(i)

\* Mutant: an intent at a cap is skipped and stays pending.
SkipAtCap(i) ==
    /\ Visiting(i)
    /\ CapReached(txIntents[i].key)
    /\ todo' = todo \ {i}
    /\ UNCHANGED <<now, tables, auth, misreads, phase, txIntents, txPositions>>

\* reject_intent() from one of the cap checks.
RejectAtCap(i) ==
    /\ Visiting(i)
    /\ CapReached(txIntents[i].key)
    /\ Settle(i, "rejected", "cap")
    /\ UNCHANGED txPositions

\* reject_intent() because canonical_price() found no usable price.
RejectUnpriced(i) ==
    /\ Visiting(i)
    /\ ~CapReached(txIntents[i].key)
    /\ Settle(i, "rejected", "price")
    /\ UNCHANGED txPositions

\* open_intent() to its end: position, intent and audit row in one transaction.
OpenPosition(i) ==
    /\ Visiting(i)
    /\ ~CapReached(txIntents[i].key)
    /\ NoOpenKeyDuplicates(txPositions)
    /\ InsertPosition(i, TRUE)
    /\ Settle(i, "opened", "none")

\* open_intent() raised before it inserted anything: quarantine_intent_error().
QuarantineIntent(i) ==
    /\ Visiting(i)
    /\ Settle(i, "quarantined", "none")
    /\ UNCHANGED txPositions

\* Mutant: the intent whose position is already there stays pending.
RetryAfterInsert(i) ==
    /\ BindCanFail
    /\ Visiting(i)
    /\ ~CapReached(txIntents[i].key)
    /\ InsertPosition(i, FALSE)
    /\ todo' = todo \ {i}
    /\ UNCHANGED <<now, tables, auth, misreads, phase, txIntents>>

\* open_intent() raised after the insert: the intent is quarantined, but without
\* a savepoint the position row stays in the transaction, and no audit row
\* counts it.
QuarantineAfterInsert(i) ==
    /\ BindCanFail
    /\ Visiting(i)
    /\ ~CapReached(txIntents[i].key)
    /\ InsertPosition(i, FALSE)
    /\ Settle(i, "quarantined", "none")

TurnToPositions ==
    /\ phase = "intents"
    /\ todo = {}
    /\ phase' = "positions"
    /\ todo' = OpenIds(txPositions)
    /\ UNCHANGED <<now, tables, auth, misreads, txIntents, txPositions>>

Marked(row, hit) == [row EXCEPT !.open = @ /\ ~hit]

\* manage_position(): mark to market, skip, or close at the stop or the target.
\* A position this very transaction opened still sees its entry price, which is
\* neither.
ManagePosition(p) ==
    /\ phase = "positions"
    /\ IsNext(p)
    /\ \E hit \in BOOLEAN :
          /\ hit => p \in DOMAIN positions
          /\ txPositions' = [txPositions EXCEPT ![p] = Marked(@, hit)]
    /\ todo' = todo \ {p}
    /\ UNCHANGED <<now, tables, auth, misreads, phase, txIntents>>

\* Mutant: the updates of the intents are not in the transaction that commits.
CommitPositionsOnly ==
    /\ phase = "positions"
    /\ todo = {}
    /\ positions' = txPositions
    /\ phase' = "idle"
    /\ txIntents' = <<>>
    /\ txPositions' = <<>>
    /\ UNCHANGED <<now, intents, auth, misreads, todo>>

CommitCycle ==
    /\ phase = "positions"
    /\ todo = {}
    /\ intents' = txIntents
    /\ positions' = txPositions
    /\ phase' = "idle"
    /\ txIntents' = <<>>
    /\ txPositions' = <<>>
    /\ UNCHANGED <<now, auth, misreads, todo>>

\* Mutant: what the cycle inserted so far is not rolled back.
AbandonWithoutRollback ==
    /\ phase # "idle"
    /\ positions' = txPositions
    /\ phase' = "idle"
    /\ txIntents' = <<>>
    /\ txPositions' = <<>>
    /\ todo' = {}
    /\ UNCHANGED <<now, intents, auth, misreads>>

\* An exception outside the per-row handlers (ROLLBACK, then only an audit row
\* and a health row are written), or a kill in mid-transaction.
AbandonCycle ==
    /\ phase # "idle"
    /\ phase' = "idle"
    /\ txIntents' = <<>>
    /\ txPositions' = <<>>
    /\ todo' = {}
    /\ UNCHANGED <<now, tables, auth, misreads>>

Tick ==
    /\ now < MaxNow
    /\ now' = now + 1
    /\ UNCHANGED <<tables, auth, misreads, adapterVars>>

-----------------------------------------------------------------------------
Init ==
    /\ now = 0
    /\ intents = <<>>
    /\ positions = <<>>
    /\ auth = [a \in Authorities |-> Resting]
    /\ misreads = [g \in Gate |-> 0]
    /\ phase = "idle"
    /\ txIntents = <<>>
    /\ txPositions = <<>>
    /\ todo = {}

AuthorityStep(a) ==
    \/ \E k \in Keys : ScreenKey(a, k)
    \/ CountAttempts(a)
    \/ CountActive(a)
    \/ ApproveKey(a)
    \/ EmitIntent(a)
    \/ AuthorityQuit(a)

VisitIntent(i) ==
    \/ RejectAtCap(i)
    \/ RejectUnpriced(i)
    \/ OpenPosition(i)
    \/ QuarantineIntent(i)
    \/ QuarantineAfterInsert(i)

AdapterStep ==
    \/ BeginCycle
    \/ \E i \in todo : VisitIntent(i)
    \/ TurnToPositions
    \/ \E p \in todo : ManagePosition(p)
    \/ CommitCycle

Next ==
    \/ Tick
    \/ \E a \in Authorities : AuthorityStep(a)
    \/ AdapterStep
    \/ AbandonCycle

Spec == Init /\ [][Next]_vars

\* The daemon loop of the adapter sleeps, runs a cycle and survives exceptions,
\* and the supervisor starts it again when it died.  Only finitely many cycles
\* are lost.
Fairness ==
    /\ WF_vars(AdapterStep)
    /\ <>[][Tick \/ (\E a \in Authorities : AuthorityStep(a)) \/ AdapterStep]_vars

FairSpec == Spec /\ Fairness

-----------------------------------------------------------------------------
(* Properties.                                                             *)

TypeOK ==
    /\ now \in Nat /\ now <= MaxNow
    /\ intents \in Seq(Intent)
    /\ positions \in Seq(Position)
    /\ auth \in [Authorities -> AuthorityState]
    /\ misreads \in [Gate -> Nat]
    /\ phase \in {"idle", "intents", "positions"}
    /\ txIntents \in Seq(Intent)
    /\ txPositions \in Seq(Position)
    /\ todo \in SUBSET Nat

WithinOpenCaps(P) ==
    /\ Cardinality(OpenIds(P)) <= MaxOpenGlobal
    /\ \A s \in Symbols : Cardinality(OpenOfSymbol(P, s)) <= MaxOpenPerSymbol
    /\ \A k \in Keys : Cardinality(OpenOfKey(P, k)) <= MaxOpenPerKey

\* Whatever the authorities emit, and wherever a cycle is cut short, the open
\* positions that anybody can read respect the three caps that kernel_contract
\* calls the final safety of the adapter.
OpenCaps == WithinOpenCaps(positions)

WithinDailyCap(P) ==
    \A p \in DOMAIN P : Cardinality(DailyValidOpens(P, P[p].day)) <= MaxDailyOpens

\* No UTC day ever sees more audited openings than max_daily_valid_opens, also
\* when a cycle runs over midnight or is rolled back and run again.
DailyOpenCap == WithinDailyCap(positions)

\* The pipeline as its readers see it implements CanaryLedger: settled intents
\* are final, intent and position are bound in one visible step or not at all
\* over every crash and rollback, closed positions stay closed, caps hold.
Ledger == INSTANCE CanaryLedger WITH
    ledger <- [i \in DOMAIN intents |-> [key |-> intents[i].key,
                                         status |-> intents[i].status]],
    book <- [p \in DOMAIN positions |-> [intent |-> positions[p].intent,
                                         key |-> positions[p].key,
                                         open |-> positions[p].open]]

ImplementsLedger == Ledger!LedgerSpec

BoundOnce(I, P) ==
    /\ \A p, q \in DOMAIN P : P[p].intent = P[q].intent => p = q
    /\ \A p \in DOMAIN P :
          /\ P[p].intent \in DOMAIN I
          /\ P[p].key = I[P[p].intent].key
          /\ I[P[p].intent].status = IF P[p].audited THEN "opened" ELSE "quarantined"
    /\ \A i \in DOMAIN I :
          I[i].status = "opened" => \E p \in DOMAIN P : P[p].intent = i

\* Even when a statement raises after the position insert and the handler
\* commits what was done so far: an intent has at most one position, of its own
\* key; an opened intent has one; and an unaudited position belongs to a
\* quarantined intent.
BoundAtMostOnce == BoundOnce(intents, positions)

\* A settled intent is never reopened, re-rejected or revived, and rows of
\* either table are never deleted; a closed position stays closed.
SettledIsFinal ==
    [][/\ \A i \in DOMAIN intents :
             /\ i \in DOMAIN intents'
             /\ intents[i].status # "pending" => intents'[i] = intents[i]
       /\ \A p \in DOMAIN positions :
             /\ p \in DOMAIN positions'
             /\ positions'[p].open => positions[p].open
      ]_<<intents, positions>>

\* The gates of an authority are read before its insert and not in a transaction,
\* and a gate whose read fails lets pass.  So a budget may be overrun by one intent
\* for every further process and by one for every failed read of its own gate, and
\* by no more: the attempts of a day ...
Slack(gate) == Cardinality(Authorities) + misreads[gate]

SameDay(i) == {j \in DOMAIN intents : Day(intents[j].at) = Day(intents[i].at)}

AttemptBudget ==
    \A i \in DOMAIN intents : Cardinality(SameDay(i)) < MaxDailyAttempts + Slack("counted")

\* ... the live intents at any time ...
ActiveBudget == Cardinality(ActiveIntents) < MaxActive + Slack("placed")

\* ... and the intents of one key within any cooldown, which one authority whose
\* reads succeed keeps apart.
Within(i) == {j \in DOMAIN intents : /\ intents[j].key = intents[i].key
                                     /\ intents[j].at >= intents[i].at
                                     /\ intents[j].at - intents[i].at <= KeyCooldown}

KeysCoolDown == \A i \in DOMAIN intents : Cardinality(Within(i)) <= Slack("approved")

\* Every emitted intent is settled one day: neither the batch limit, nor caps,
\* nor missing prices, nor lost cycles leave one pending for ever.
PendingSettles ==
    \A i \in 1..MaxIntents :
        i \in Pending(intents) ~> i \in DOMAIN intents \ Pending(intents)

\* "Rejections caused by infrastructure/data freshness must not consume alpha
\* budget": an intent refused for lack of a price is not an attempt of its key.
InfraRejectsAreFree ==
    \A k \in Keys : \A i \in RecentKeyAttempts(k) : intents[i].reason # "price"

-----------------------------------------------------------------------------
(* The inductive invariant behind the safety properties above.             *)

\* Row by row, Q is P with some positions closed and others appended.
Continues(Q, P) ==
    /\ DOMAIN P \subseteq DOMAIN Q
    /\ \A p \in DOMAIN P : /\ Q[p].intent = P[p].intent
                           /\ Q[p].key = P[p].key
                           /\ Q[p].day = P[p].day
                           /\ Q[p].audited = P[p].audited
                           /\ Q[p].open => P[p].open

\* What an open transaction may have changed since the last commit: it settled
\* pending intents, closed positions, and appended open positions for intents
\* that are still pending to everybody else.
CycleView ==
    /\ phase = "idle" => txIntents = <<>> /\ txPositions = <<>> /\ todo = {}
    /\ phase # "idle" =>
          /\ DOMAIN txIntents = DOMAIN intents
          /\ \A i \in DOMAIN intents :
                /\ txIntents[i].key = intents[i].key
                /\ intents[i].status # "pending" => txIntents[i] = intents[i]
          /\ Continues(txPositions, positions)
          /\ \A p \in DOMAIN txPositions \ DOMAIN positions :
                txPositions[p].open /\ txPositions[p].intent \in Pending(intents)
    /\ phase = "intents" => todo \subseteq Pending(txIntents)
    /\ phase = "positions" => todo \subseteq DOMAIN txPositions

\* The caps and the binding hold of the committed tables because they hold of
\* the uncommitted ones at every step of a cycle, and the transaction has seen
\* every commit since it began.
PipelineInv ==
    /\ TypeOK
    /\ CycleView
    /\ WithinOpenCaps(positions) /\ WithinOpenCaps(txPositions)
    /\ WithinDailyCap(positions) /\ WithinDailyCap(txPositions)
    /\ BoundOnce(intents, positions) /\ BoundOnce(txIntents, txPositions)

\* A gate that was passed is as good as an intent: whoever passed it counts against
\* its budget until the intent is there, for every day to come, and against the key
\* while a cooldown runs.
Counting == {a \in Authorities : auth[a].step \in {"counted", "placed", "approved"}}

Placing == {a \in Authorities : auth[a].step \in {"placed", "approved"}}

ApprovedFor(k) == {a \in Authorities : auth[a].step = "approved" /\ auth[a].key = k}

OfDay(d) == {j \in DOMAIN intents : Day(intents[j].at) = d}

TimesArePast ==
    /\ \A i \in DOMAIN intents : intents[i].at <= now
    /\ phase # "idle" => \A i \in DOMAIN intents : txIntents[i].at = intents[i].at

AttemptsInHand ==
    \A t \in now .. MaxNow :
        Cardinality(OfDay(Day(t))) + Cardinality(Counting)
            < MaxDailyAttempts + Slack("counted")

ActiveInHand ==
    Cardinality(ActiveIntents) + Cardinality(Placing) < MaxActive + Slack("placed")

KeysInHand ==
    \A i \in DOMAIN intents : now - intents[i].at <= KeyCooldown =>
        Cardinality(Within(i)) + Cardinality(ApprovedFor(intents[i].key))
            <= Slack("approved")

\* The budgets with what is in hand counted in: no gate of the authority lets through
\* more than it counted room for, one for each authority that passes beside it, and
\* one for each read of its own that failed.
BudgetInv ==
    /\ PipelineInv
    /\ TimesArePast /\ AttemptsInHand /\ ActiveInHand /\ KeysInHand
    /\ AttemptBudget /\ KeysCoolDown
=============================================================================
