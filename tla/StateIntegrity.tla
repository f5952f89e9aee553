--------------------------- MODULE StateIntegrity ---------------------------
(***************************************************************************)
(* The reconciliation of legacy positions (joanbot/ops/                    *)
(* state_integrity_v1.py) beside the runner, whose paper broker            *)
(* (joanbot/execution/broker.py) writes the same two tables.               *)
(*                                                                         *)
(* An operator makes a dry run, reads the plan and applies it by its hash. *)
(* Applying builds the plan again, compares the hash, and only then begins *)
(* the transaction that books and closes what was planned: nothing is read *)
(* again in it.  That the runner is stopped meanwhile is a step of the     *)
(* operator's protocol (docs/STATE_INTEGRITY_V1.md), not of the program.   *)
(*                                                                         *)
(* The hash stands for the content it is taken from.  Prices are the       *)
(* number of their row; sizes are whether the first partial exit was       *)
(* taken; what the payload says besides is left out.                       *)
(***************************************************************************)
EXTENDS Integers, Sequences, FiniteSets

CONSTANTS
    Symbols,
    Operators,      \* people who run the reconciliation, each in a process of theirs
    None,           \* no hash copied, no plan in hand
    MaxLegacy,      \* bound: open positions that predate the execution contract
    MaxPositions,   \* bound: positions ever opened
    MaxMarks,       \* bound: price rows of a symbol
    MaxUpsets       \* bound: stops of the runner and applies that do not commit

ASSUME IntegrityAssumption ==
    /\ MaxLegacy \in Nat /\ MaxPositions \in Nat /\ MaxMarks \in Nat /\ MaxUpsets \in Nat

VARIABLES
    positions,   \* the position table
    booked,      \* position -> its trades that close it, by who wrote them
    mark,        \* symbol -> its latest price row, and whether it is recent enough
    running,     \* the runner runs
    wallet,      \* ids the runner loaded as open and has yet to visit in this pass
    work,        \* the id whose close the runner has booked and not written, or 0
    hash,        \* operator -> the plan whose hash it copied from a dry run
    plan,        \* operator -> the plan its process checked and is about to apply
    applied,     \* history: a plan was applied
    breach,      \* history: the apply protocol was not kept
    upsets       \* history: stops and rollbacks

tableVars == <<positions, booked>>
runnerVars == <<running, wallet, work>>
operatorVars == <<hash, plan, applied>>
vars == <<tableVars, mark, runnerVars, operatorVars, breach, upsets>>

\* sound: entry, size and side make sense; part: the first partial exit was taken.
Position == [symbol : Symbols, open : BOOLEAN, sound : BOOLEAN, part : BOOLEAN]
Legacy == [symbol : Symbols, open : {TRUE}, sound : BOOLEAN, part : {FALSE}]

Booked == [strategy : Nat, reconciliation : Nat]
Unbooked == [strategy |-> 0, reconciliation |-> 0]
Closings(p) == booked[p].strategy + booked[p].reconciliation

-----------------------------------------------------------------------------
(* build_plan() and its hash.                                              *)

OpenIds == {p \in DOMAIN positions : positions[p].open}

\* detect_conflicts(): more than one open position of a symbol, whatever their sides.
Conflicting(p, q) == p # q /\ positions[p].symbol = positions[q].symbol
InConflict == {p \in OpenIds : \E q \in OpenIds : Conflicting(p, q)}

MarkOf(p) == mark[positions[p].symbol]

\* NO_MARK_PRICE, STALE_MARK_PRICE, BAD_NUMERIC_STATE or BAD_SIDE.
Blocked == {p \in InConflict :
              MarkOf(p).row = 0 \/ ~MarkOf(p).recent \/ ~positions[p].sound}

\* canonical_plan(): what the hash tells apart.
Close(p) == [id |-> p, row |-> MarkOf(p).row, part |-> positions[p].part]
CurrentPlan == [closes |-> {Close(p) : p \in InConflict \ Blocked}, blocked |-> Blocked]

Planned(o) == {c.id : c \in plan[o].closes}

-----------------------------------------------------------------------------
(* The operator: main().                                                   *)

InHand == {o \in Operators : plan[o] # None}

\* Mutant: what is blocked is left out of what the operator is shown.
DryRunOfCloses(o) ==
    /\ plan[o] = None
    /\ hash' = [hash EXCEPT ![o] = [closes |-> CurrentPlan.closes]]
    /\ UNCHANGED <<tableVars, mark, runnerVars, plan, applied, breach, upsets>>

\* Without --apply; REFUSE_APPLY_WITHOUT_PLAN_HASH shows the hash just as well.
DryRun(o) ==
    /\ plan[o] = None
    /\ hash' = [hash EXCEPT ![o] = CurrentPlan]
    /\ UNCHANGED <<tableVars, mark, runnerVars, plan, applied, breach, upsets>>

\* Mutant: the blocked items are left out instead of refused.
ApplicableInPart(o) ==
    /\ hash[o] # None
    /\ hash[o] = CurrentPlan
    /\ CurrentPlan.closes # {}

\* REFUSE_PLAN_HASH_MISMATCH, REFUSE_APPLY_BLOCKED_ITEMS, REFUSE_APPLY_EMPTY_PLAN.
Applicable(o) ==
    /\ hash[o] # None
    /\ hash[o] = CurrentPlan
    /\ CurrentPlan.blocked = {}
    /\ CurrentPlan.closes # {}

\* With --apply and the copied hash: the plan is built again and checked.
Check(o) ==
    /\ plan[o] = None
    /\ Applicable(o)
    /\ plan' = [plan EXCEPT ![o] = CurrentPlan]
    /\ breach' = (breach \/ running \/ InHand # {})
    /\ UNCHANGED <<tableVars, mark, runnerVars, hash, applied, upsets>>

\* apply_plan(): a trade for every planned close whatever became of its position, and
\* an update of the positions that are still open.
Apply(o) ==
    /\ plan[o] # None
    /\ booked' = [p \in DOMAIN booked |->
                    IF p \in Planned(o) THEN [booked[p] EXCEPT !.reconciliation = @ + 1]
                                        ELSE booked[p]]
    /\ positions' = [p \in DOMAIN positions |->
                       IF p \in Planned(o) THEN [positions[p] EXCEPT !.open = FALSE]
                                           ELSE positions[p]]
    /\ plan' = [plan EXCEPT ![o] = None]
    /\ applied' = TRUE
    /\ UNCHANGED <<mark, runnerVars, hash, breach, upsets>>

Upset == upsets < MaxUpsets /\ upsets' = upsets + 1

\* Mutant: no transaction around the statements.
FailHalfWay(o) ==
    /\ plan[o] # None
    /\ Upset
    /\ \E part \in SUBSET Planned(o) :
         booked' = [p \in DOMAIN booked |->
                      IF p \in part THEN [booked[p] EXCEPT !.reconciliation = @ + 1]
                                    ELSE booked[p]]
    /\ plan' = [plan EXCEPT ![o] = None]
    /\ UNCHANGED <<positions, mark, runnerVars, hash, applied, breach>>

\* The process dies or the database stays locked: the transaction is rolled back.
Fail(o) ==
    /\ plan[o] # None
    /\ Upset
    /\ plan' = [plan EXCEPT ![o] = None]
    /\ UNCHANGED <<tableVars, mark, runnerVars, hash, applied, breach>>

-----------------------------------------------------------------------------
(* The runner: one pass of ProfitGuard.manage() after another, and openings *)
(* between them.  Every statement commits by itself.                       *)

Start ==
    /\ ~running
    /\ running' = TRUE
    /\ breach' = (breach \/ InHand # {})
    /\ UNCHANGED <<tableVars, mark, wallet, work, operatorVars, upsets>>

\* Stopping does not wait for the end of a pass.  Between the trade and the update of
\* its position it leaves the two apart.
Stop ==
    /\ running
    /\ Upset
    /\ running' = FALSE /\ wallet' = {} /\ work' = 0
    /\ breach' = (breach \/ work # 0)
    /\ UNCHANGED <<tableVars, mark, operatorVars>>

Between == running /\ work = 0

BeginPass ==
    /\ Between /\ wallet = {}
    /\ wallet' = OpenIds
    /\ UNCHANGED <<tableVars, mark, running, work, operatorVars, breach, upsets>>

\* Stop or second target: close_position() books...
BookExit(p) ==
    /\ Between /\ p \in wallet /\ ~positions[p].part
    /\ booked' = [booked EXCEPT ![p].strategy = @ + 1]
    /\ wallet' = wallet \ {p}
    /\ work' = p
    /\ UNCHANGED <<positions, mark, running, operatorVars, breach, upsets>>

\* ...and closes the row, whatever its status.
WriteExit ==
    /\ running /\ work # 0
    /\ positions' = [positions EXCEPT ![work].open = FALSE]
    /\ work' = 0
    /\ UNCHANGED <<booked, mark, running, wallet, operatorVars, breach, upsets>>

\* Mutant: the payload is written back with the status it was loaded with.
WritePartOpen(p) ==
    /\ Between /\ p \in wallet /\ ~positions[p].part
    /\ positions' = [positions EXCEPT ![p].part = TRUE, ![p].open = TRUE]
    /\ wallet' = wallet \ {p}
    /\ UNCHANGED <<booked, mark, running, work, operatorVars, breach, upsets>>

\* The first target: the payload is written back, open or not.  With its stop at the
\* entry the position is skipped from then on.
WritePart(p) ==
    /\ Between /\ p \in wallet /\ ~positions[p].part
    /\ positions' = [positions EXCEPT ![p].part = TRUE]
    /\ wallet' = wallet \ {p}
    /\ UNCHANGED <<booked, mark, running, work, operatorVars, breach, upsets>>

\* No exit is due: nothing the hash looks at is written.
Skip(p) ==
    /\ Between /\ p \in wallet
    /\ wallet' = wallet \ {p}
    /\ UNCHANGED <<tableVars, mark, running, work, operatorVars, breach, upsets>>

\* open_from_decision(): the execution contract wants no open position of the symbol.
Open(s) ==
    /\ Between /\ wallet = {}
    /\ Len(positions) < MaxPositions
    /\ \A p \in OpenIds : positions[p].symbol # s
    /\ positions' = Append(positions, [symbol |-> s, open |-> TRUE, sound |-> TRUE,
                                       part |-> FALSE])
    /\ booked' = Append(booked, Unbooked)
    /\ UNCHANGED <<mark, runnerVars, operatorVars, breach, upsets>>

-----------------------------------------------------------------------------
(* The collectors of prices.                                               *)

MarkArrives(s) ==
    /\ mark[s].row < MaxMarks
    /\ mark' = [mark EXCEPT ![s] = [row |-> @.row + 1, recent |-> TRUE]]
    /\ UNCHANGED <<tableVars, runnerVars, operatorVars, breach, upsets>>

\* --max-age-min passes.
MarkAges(s) ==
    /\ mark[s].recent
    /\ mark' = [mark EXCEPT ![s] = [row |-> @.row, recent |-> FALSE]]
    /\ UNCHANGED <<tableVars, runnerVars, operatorVars, breach, upsets>>

-----------------------------------------------------------------------------

Init ==
    /\ \E n \in 0 .. MaxLegacy : positions \in [1 .. n -> Legacy]
    /\ booked = [p \in DOMAIN positions |-> Unbooked]
    /\ mark = [s \in Symbols |-> [row |-> 0, recent |-> FALSE]]
    /\ running \in BOOLEAN /\ wallet = {} /\ work = 0
    /\ hash = [o \in Operators |-> None]
    /\ plan = [o \in Operators |-> None]
    /\ applied = FALSE /\ breach = FALSE /\ upsets = 0

Next ==
    \/ \E o \in Operators : DryRun(o) \/ Check(o) \/ Apply(o) \/ Fail(o)
    \/ Start \/ Stop \/ BeginPass \/ WriteExit
    \/ \E p \in wallet : BookExit(p) \/ WritePart(p) \/ Skip(p)
    \/ \E s \in Symbols : Open(s) \/ MarkArrives(s) \/ MarkAges(s)

Spec == Init /\ [][Next]_vars

-----------------------------------------------------------------------------
(* Properties.                                                             *)

Plan == [closes : SUBSET [id : Nat, row : Nat, part : BOOLEAN], blocked : SUBSET Nat]

TypeOK ==
    /\ positions \in Seq(Position)
    /\ booked \in Seq(Booked) /\ Len(booked) = Len(positions)
    /\ mark \in [Symbols -> [row : Nat, recent : BOOLEAN]]
    /\ running \in BOOLEAN
    /\ wallet \subseteq DOMAIN positions /\ work \in DOMAIN positions \cup {0}
    /\ hash \in [Operators -> Plan \cup {None}]
    /\ plan \in [Operators -> Plan \cup {None}]
    /\ applied \in BOOLEAN /\ breach \in BOOLEAN /\ upsets \in Nat

\* No position is closed without a trade that books it; and while the apply protocol is
\* kept, a position is booked exactly when it is closed, and once: rollbacks, repeated
\* applies and plans from before the runner was stopped change nothing of it.
ClosedOnce ==
    \A p \in DOMAIN positions :
        /\ ~positions[p].open => Closings(p) > 0
        /\ ~breach /\ p # work => Closings(p) = IF positions[p].open THEN 0 ELSE 1

\* Once a plan has been applied no symbol ever has two open positions again, protocol
\* or not: a plan covers every conflict there is, and the runner makes no new one.
ConflictsStayResolved ==
    applied => \A p, q \in OpenIds : ~Conflicting(p, q)

-----------------------------------------------------------------------------
(* The inductive invariant behind the invariants above.                    *)

\* A trade comes before the update of its position.
Bookings ==
    /\ \A p \in DOMAIN positions : ~positions[p].open => Closings(p) > 0
    /\ work # 0 => Closings(work) > 0
    /\ ~running => wallet = {} /\ work = 0

\* While the protocol is kept the runner and one operator take turns, and each works
\* from ids that are open.
TakingTurns ==
    ~breach =>
        /\ InHand # {} => ~running
        /\ \A o1, o2 \in InHand : o1 = o2
        /\ \A o \in InHand : Planned(o) \subseteq OpenIds
        /\ \A p \in wallet : p # work /\ positions[p].open
        /\ work # 0 => positions[work].open /\ Closings(work) = 1
        /\ \A p \in DOMAIN positions \ {work} :
              Closings(p) = IF positions[p].open THEN 0 ELSE 1

\* A plan in hand covers every conflict there is.
PlansCover ==
    \A o \in InHand :
        /\ Planned(o) \subseteq DOMAIN positions
        /\ \A p, q \in OpenIds : Conflicting(p, q) => p \in Planned(o)

IntegrityInv == TypeOK /\ Bookings /\ TakingTurns /\ PlansCover /\ ConflictsStayResolved
=============================================================================
