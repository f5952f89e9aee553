---------------------------- MODULE SingleOrder ----------------------------
(***************************************************************************)
(* The single order of V11: the institutional runtime V11 (one cycle after *)
(* another of feedback, KPI, overlap guard, control plane and bridge)      *)
(* beside the position manager V11, a one-shot process of the V16 watchdog *)
(* that closes canaries in the same table.                                 *)
(*                                                                         *)
(* Every statement of the runtime commits by itself, so the manager may    *)
(* close a canary between any two of them.  What the evidence chain makes  *)
(* of the edges, the derivatives and the regime is a free choice, and so   *)
(* are the prices: an outcome is one of a few results in hundredths of R.  *)
(* The dates of opening are kept as the number of canaries opened on the   *)
(* current UTC day, which is all that is ever asked of them.               *)
(***************************************************************************)
EXTENDS Integers, Sequences, FiniteSets, Functions

CONSTANTS
    Outcomes,       \* net results, hundredths of R
    EntryNet,       \* the result a new row is given: its costs
    LossLimit,      \* losses in a row that cool down: 2
    SumFrom, SumFloor,      \* least sample of the sum of the last five, 3, and its floor, -120
    RateFrom,       \* least sample of the win rate of the last five: 5
    LongFrom, LongFloor,    \* least sample of the mean of the last twenty, 8, and its floor, -5
    KpiFrom, DrawdownFloor, \* least sample of the KPIs, 10, and the drawdown they bear, -400
    None,           \* the bridge has no row in hand
    MaxRows         \* bound: canaries ever opened

ASSUME OrderAssumption ==
    /\ Outcomes \subseteq Int /\ EntryNet \in Int
    /\ LossLimit \in Nat \ {0}
    /\ {SumFrom, RateFrom, LongFrom, KpiFrom} \subseteq Nat \ {0}
    /\ {SumFloor, LongFloor, DrawdownFloor} \subseteq Int
    /\ None \notin [id : Nat, close : BOOLEAN, net : Outcomes]
    /\ MaxRows \in Nat

VARIABLES
    rows,         \* paper_micro_canary_positions_v11
    openedToday,  \* canaries opened on the current UTC day
    cooling,      \* the latest feedback row says CANARY_COOLDOWN
    weak,         \* the latest KPI row is one that stops new canaries
    clear,        \* the latest row of the overlap guard allows the pipeline
    allow,        \* the latest row of the control plane allows a canary
    pc,           \* where the runtime stands in cycle_once()
    held          \* what manage_open() is about to write

verdictVars == <<cooling, weak, clear, allow>>
vars == <<rows, openedToday, verdictVars, pc, held>>

Row == [open : BOOLEAN, net : Outcomes \union {EntryNet}]
Write == [id : Nat, close : BOOLEAN, net : Outcomes]
Stages == {"feedback", "kpi", "guard", "control", "manage", "write",
           "open", "insert", "report", "reportKpi"}

-----------------------------------------------------------------------------
(* What the closed canaries say.                                           *)

OpenIds == {r \in DOMAIN rows : rows[r].open}

\* Mutant: one canary too many a day.
DayIsAlmostFree == openedToday <= 1
\* The day's one canary is still to be opened.
DayIsFree == openedToday < 1

\* Results of the closed canaries, by id.
ResultsIn(table) ==
    LET closed == SelectSeq(table, LAMBDA row : ~row.open)
    IN  [k \in DOMAIN closed |-> closed[k].net]
Results == ResultsIn(rows)

SumOf(results) == FoldFunction(LAMBDA x, y : x + y, 0, results)
Latest(n) ==
    LET len == Len(Results)
    IN  SubSeq(Results, IF len > n THEN len - n + 1 ELSE 1, len)
WinsOf(results) == Cardinality({k \in DOMAIN results : results[k] > 0})

\* The closed ones of the first m canaries after which nothing was won.
LossesThrough(m) ==
    {r \in 1..m : /\ ~rows[r].open
                  /\ \A q \in r..m : ~rows[q].open => rows[q].net < 0}

\* The losses in a row with which the closed canaries end.
LossStreak == Cardinality(LossesThrough(Len(rows)))

\* MicroCanaryOutcomeFeedbackV11.refresh(): the four reasons to cool down.
CoolingDown ==
    LET five == Latest(5)
        twenty == Latest(20)
    IN  \/ LossStreak >= LossLimit
        \/ Len(five) >= SumFrom /\ SumOf(five) <= SumFloor
        \/ Len(five) >= RateFrom /\ WinsOf(five) * 100 < 40 * Len(five)
        \/ Len(twenty) >= LongFrom /\ SumOf(twenty) <= LongFloor * Len(twenty)

\* MicroCanaryKPIEngineV11.refresh(): expectancy, profit factor and drawdown.
KpiBlocks ==
    LET n == Len(Results)
        Gains == SumOf([k \in 1..n |-> IF Results[k] > 0 THEN Results[k] ELSE 0])
        Losses == Gains - SumOf(Results)
    IN  /\ n >= KpiFrom
        /\ \/ Gains <= Losses
           \/ 100 * Gains < 115 * Losses
           \/ \E i, j \in 1..n : SumOf(SubSeq(Results, i, j)) <= DrawdownFloor

-----------------------------------------------------------------------------
(* The cycle of the runtime: cycle_once().                                 *)

Feedback ==
    /\ pc \in {"feedback", "report"}
    /\ cooling' = CoolingDown
    /\ pc' = IF pc = "feedback" THEN "kpi" ELSE "reportKpi"
    /\ UNCHANGED <<rows, openedToday, weak, clear, allow, held>>

Kpi ==
    /\ pc \in {"kpi", "reportKpi"}
    /\ weak' = KpiBlocks
    /\ pc' = IF pc = "kpi" THEN "guard" ELSE "feedback"
    /\ UNCHANGED <<rows, openedToday, cooling, clear, allow, held>>

\* Open positions of the runner, of V9 and of V10 are a free choice.
Guard ==
    /\ pc = "guard"
    /\ \E others \in BOOLEAN : clear' = (~others /\ Cardinality(OpenIds) <= 1)
    /\ pc' = "control"
    /\ UNCHANGED <<rows, openedToday, cooling, weak, allow, held>>

\* Every row of the V16 gate blocks: one that lets pass, too, because
\* recommended_action has no value on that branch and the handler blocks.
Decide(permits) ==
    /\ pc = "control"
    /\ \E evidence \in BOOLEAN, gate \in {"absent", "blocks", "passes"} :
         allow' = (permits /\ evidence /\ gate = "absent")
    /\ pc' = "manage"
    /\ UNCHANGED <<rows, openedToday, cooling, weak, clear, held>>

\* Mutants: a control plane that does not read the feedback, or the KPIs.
ControlUnfed == Decide(clear /\ OpenIds = {} /\ DayIsFree /\ ~weak)
ControlUnmeasured == Decide(clear /\ OpenIds = {} /\ DayIsFree /\ ~cooling)
Control == Decide(clear /\ OpenIds = {} /\ DayIsFree /\ ~cooling /\ ~weak)

\* Mutant: the bridge goes on when it finds no open canary.
ManageAnyway ==
    /\ pc = "manage"
    /\ \E close \in BOOLEAN, net \in Outcomes :
         held' = [id |-> Cardinality(OpenIds), close |-> close, net |-> net]
    /\ pc' = "write"
    /\ UNCHANGED <<rows, openedToday, verdictVars>>

\* manage_open() reads the latest open canary and works out its result ...
Manage ==
    /\ pc = "manage"
    /\ \E id \in OpenIds, close \in BOOLEAN, net \in Outcomes :
         /\ \A other \in OpenIds : other <= id
         /\ held' = [id |-> id, close |-> close, net |-> net]
    /\ pc' = "write"
    /\ UNCHANGED <<rows, openedToday, verdictVars>>

\* ... and writes it by id, whatever has become of the row.
WriteManaged ==
    /\ pc = "write"
    /\ rows' = [rows EXCEPT ![held.id] =
                  [open |-> @.open /\ ~held.close, net |-> held.net]]
    /\ held' = None
    /\ pc' = "open"
    /\ UNCHANGED <<openedToday, verdictVars>>

\* No open canary, or no price for it.
LeaveUnmanaged ==
    /\ pc = "manage"
    /\ pc' = "open"
    /\ UNCHANGED <<rows, openedToday, verdictVars, held>>

\* maybe_open(): the bridge asks again for itself.
FindRoom ==
    /\ pc = "open"
    /\ allow /\ OpenIds = {} /\ DayIsFree
    /\ pc' = "insert"
    /\ UNCHANGED <<rows, openedToday, verdictVars, held>>

\* It is not allowed to, has no room, or has no price or side.
LeaveUnopened ==
    /\ pc = "open"
    /\ pc' = "report"
    /\ UNCHANGED <<rows, openedToday, verdictVars, held>>

Insert ==
    /\ pc = "insert"
    /\ Len(rows) < MaxRows
    /\ rows' = Append(rows, [open |-> TRUE, net |-> EntryNet])
    /\ openedToday' = openedToday + 1
    /\ pc' = "report"
    /\ UNCHANGED <<verdictVars, held>>

\* run() catches what a cycle raises and begins another; so does a restart.
Abort ==
    /\ pc # "feedback"
    /\ pc' = "feedback"
    /\ held' = None
    /\ UNCHANGED <<rows, openedToday, verdictVars>>

-----------------------------------------------------------------------------
(* The position manager, and the clock.                                    *)

\* Its update asks again whether the row is open, so that it read the rows
\* earlier makes no difference.
ManagerCloses ==
    /\ \E id \in OpenIds, net \in Outcomes :
         rows' = [rows EXCEPT ![id] = [open |-> FALSE, net |-> net]]
    /\ UNCHANGED <<openedToday, verdictVars, pc, held>>

Tick ==
    /\ openedToday' = 0
    /\ UNCHANGED <<rows, verdictVars, pc, held>>

-----------------------------------------------------------------------------

Init ==
    /\ rows = <<>> /\ openedToday = 0
    /\ cooling = FALSE /\ weak = FALSE /\ clear = FALSE /\ allow = FALSE
    /\ pc = "feedback" /\ held = None

Next ==
    \/ Feedback \/ Kpi \/ Guard \/ Control
    \/ Manage \/ WriteManaged \/ LeaveUnmanaged
    \/ FindRoom \/ LeaveUnopened \/ Insert
    \/ Abort \/ ManagerCloses \/ Tick

Spec == Init /\ [][Next]_vars

-----------------------------------------------------------------------------
(* Properties.                                                             *)

\* The types of the variables; the bridge has a row of the table in hand
\* exactly while it is about to write.
TypeOK ==
    /\ rows \in Seq(Row) /\ Len(rows) <= MaxRows /\ openedToday \in Nat
    /\ {cooling, weak, clear, allow} \subseteq BOOLEAN
    /\ pc \in Stages
    /\ held \in Write \union {None}
    /\ pc = "write" <=> held # None
    /\ pc = "write" => held.id \in DOMAIN rows

\* The single order: never two open canaries, and never two opened on one UTC
\* day, though the counts are read, twice, by statements that commit one by
\* one, the day may end between the count and the insert, the manager closes
\* rows meanwhile and a cycle may end anywhere.
OneOrder ==
    /\ Cardinality(OpenIds) <= 1
    /\ openedToday <= 1

\* Losses are cut: the cooldown is decided on a feedback row that may miss the
\* last loss (the manager closes a canary between feedback and control), and a
\* row the manager closed may be written over; even so one loss more than the
\* limit is the most that V11 ever takes in a row.
LossesAreCut == LossStreak <= LossLimit + 1

\* What the bridge found is still so when it inserts: nobody else opens.
RoomIsKept == pc = "insert" => OpenIds = {} /\ DayIsFree

\* Only the latest canary can be open or in hand, so only its result is still to
\* change, and a canary that is open leaves no room for another.
LatestIsOpen ==
    /\ OpenIds \subseteq {Len(rows)}
    /\ pc = "write" => held.id = Len(rows) /\ ~allow
    /\ pc \in {"manage", "open"} /\ allow => OpenIds = {}

\* A cycle that was not told to cool down has at most one loss to learn of, that of
\* the canary that was open; when it may open another, the losses are within the
\* limit, and so they were when the latest was opened.
LossesAreKnown ==
    /\ Cardinality(LossesThrough(Len(rows) - 1)) <= LossLimit
    /\ pc \in {"kpi", "guard", "control"} /\ ~cooling =>
          LossStreak + Cardinality(OpenIds) <= LossLimit
    /\ pc \in {"manage", "open"} /\ allow => LossStreak <= LossLimit
    /\ pc = "insert" => LossStreak <= LossLimit

\* The inductive invariant of the cycle.
OrderInv == TypeOK /\ OneOrder /\ RoomIsKept /\ LatestIsOpen /\ LossesAreKnown

\* V11 is out of the market: nothing is open, the closed canaries cool it down
\* or fail the KPIs, and the cycle in progress has nothing older in hand.
Retired ==
    /\ OpenIds = {}
    /\ CoolingDown \/ KpiBlocks
    /\ pc \notin {"write", "insert"}
    /\ pc # "feedback" => cooling = CoolingDown
    /\ pc \notin {"feedback", "kpi"} => weak = KpiBlocks
    /\ pc \notin {"feedback", "kpi", "guard", "control"} => ~allow

\* A cooldown is for good: once nothing is open, V11 never writes a canary again.
\* The feedback and the KPIs are functions of closed canaries only, so without
\* a new canary they never change, though the control plane tells the operator
\* to wait for a recovery (WAIT_FOR_CANARY_FEEDBACK_RECOVERY).
CooldownIsFinal == [][Retired => Retired' /\ UNCHANGED rows]_vars

=============================================================================
