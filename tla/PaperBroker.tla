----------------------------- MODULE PaperBroker -----------------------------
(***************************************************************************)
(* The paper broker of the runner (joanbot/runner.py): PaperBroker and     *)
(* ProfitGuard of joanbot/execution/broker.py behind evaluate_execution()  *)
(* of joanbot/execution/contract.py.                                       *)
(*                                                                         *)
(* One process, one thread.  Every SQL statement commits by itself         *)
(* (Database.execute), so a run that is cut short between the insert of a  *)
(* trade and the update of its position leaves the two apart: the model    *)
(* keeps these statements apart and lets the process die in between.       *)
(*                                                                         *)
(* A price is its distance from the entry in the direction of the trade,   *)
(* in hundredths of the initial risk, so LONG and SHORT are one case: the  *)
(* entry is 0, the stop starts at -100, and the targets of strategy.py are *)
(* at 125 and 225.  Slippage, fees and sizes are left out.                 *)
(***************************************************************************)
EXTENDS Integers, Sequences, FiniteSets

CONSTANTS
    Symbols,
    Prices,         \* prices the market may show
    NoPrice,        \* the market has none for the symbol
    MaxPositions,   \* bound: positions ever opened
    MaxCount,       \* bound: where the count of trades of a kind saturates
    MaxCrashes      \* bound: times the process dies

ASSUME BrokerAssumption ==
    /\ Prices \subseteq Int /\ 0 \in Prices /\ NoPrice \notin Int
    /\ MaxPositions \in Nat /\ MaxCount \in Nat \ {0} /\ MaxCrashes \in Nat

VARIABLES
    positions,   \* the position table: id -> row
    trades,      \* the trade table: position id -> how many of each kind
    price,       \* Runner.prices
    todo,        \* ids that manage() still has to visit in this pass
    work,        \* the close in hand: its trade is written, its position is not
    crashes      \* history: how often the process died

vars == <<positions, trades, price, todo, work, crashes>>

StopAtEntry == 0
InitialStop == -100
Tp1 == 125
Tp2 == 225

\* STOP_LOSS and TAKE_PROFIT_2 close all of a position, TAKE_PROFIT_1_PARTIAL and
\* GIVEBACK_PROTECTION a part of it.
Kinds == {"full", "partial", "giveback"}

Position == [symbol : Symbols, status : {"OPEN", "CLOSED"}, stop : Int,
             tp1_done : BOOLEAN, mfe : Nat]

NoWork == [pos |-> 0]

-----------------------------------------------------------------------------
(* Opening.                                                                *)

Open(p) == positions[p].status = "OPEN"

\* evaluate_execution() on a well-formed OPEN decision: no position of the symbol.
ExecutionAllowed(s) == \A p \in DOMAIN positions : Open(p) => positions[p].symbol # s

\* open_from_decision(), between two passes of the loop.
OpenFromDecision(s) ==
    /\ todo = {} /\ work = NoWork
    /\ Len(positions) < MaxPositions
    /\ ExecutionAllowed(s)
    /\ positions' = Append(positions, [symbol |-> s, status |-> "OPEN",
                                       stop |-> InitialStop, tp1_done |-> FALSE,
                                       mfe |-> 0])
    /\ trades' = Append(trades, [k \in Kinds |-> 0])
    /\ price' = [price EXCEPT ![s] = 0]
    /\ UNCHANGED <<todo, work, crashes>>

\* step_market().
MarketMoves(s) ==
    /\ todo = {} /\ work = NoWork
    /\ \E d \in Prices \cup {NoPrice} : price' = [price EXCEPT ![s] = d]
    /\ UNCHANGED <<positions, trades, todo, work, crashes>>

-----------------------------------------------------------------------------
(* ProfitGuard.manage(), position by position.                             *)

BeginPass ==
    /\ todo = {} /\ work = NoWork
    /\ todo' = {p \in DOMAIN positions : Open(p)}
    /\ todo' # {}
    /\ UNCHANGED <<positions, trades, price, work, crashes>>

PriceOf(p) == price[positions[p].symbol]

\* risk_abs: the distance of the entry from the stop as it stands now.
Risk(p) == IF positions[p].stop < 0 THEN -positions[p].stop ELSE positions[p].stop

Larger(x, y) == IF x < y THEN y ELSE x

R(p) == (100 * PriceOf(p)) \div Risk(p)

\* Mutant: the last excursion instead of the largest.
LastR(p) == R(p)

\* mfe_r after this visit.
Mfe(p) == Larger(positions[p].mfe, R(p))

StopHit(p) == PriceOf(p) <= positions[p].stop
Tp2Hit(p) == PriceOf(p) >= Tp2
Tp1Due(p) == PriceOf(p) >= Tp1 /\ ~positions[p].tp1_done

\* Mutant: the stop of the lock replaces the stop instead of raising it.
LockedStopAlways(p) == IF Mfe(p) >= 70 THEN (Risk(p) * 15) \div 100
                                       ELSE positions[p].stop

\* The profit lock.
LockedStop(p) == IF Mfe(p) >= 70 THEN Larger(positions[p].stop, (Risk(p) * 15) \div 100)
                                 ELSE positions[p].stop

\* Mutant: the threshold of the excursion forgotten.
GiveBackDueEarly(p) == 100 * R(p) < 45 * Mfe(p)

GiveBackDue(p) == Mfe(p) >= 120 /\ 100 * R(p) < 45 * Mfe(p)

\* The row a visit leaves behind.
Managed(p, stop, tp1_done) ==
    [positions[p] EXCEPT !.stop = stop, !.tp1_done = tp1_done, !.mfe = Mfe(p)]

Visiting(p) ==
    /\ work = NoWork
    /\ p \in todo /\ \A q \in todo : p <= q
    /\ PriceOf(p) # NoPrice

Visited(p) == todo' = todo \ {p}

\* The insert of close_position() into trades.
RecordTrade(p, kind) ==
    trades' = [trades EXCEPT ![p][kind] = IF @ < MaxCount THEN @ + 1 ELSE @]

SkipPosition(p) ==
    /\ work = NoWork
    /\ p \in todo /\ \A q \in todo : p <= q
    /\ PriceOf(p) = NoPrice \/ Risk(p) = 0
    /\ Visited(p)
    /\ UNCHANGED <<positions, trades, price, work, crashes>>

\* Mutant: the position is marked closed and only then the trade is written.
CloseBeforeTrade(p) ==
    /\ Visiting(p) /\ Risk(p) > 0
    /\ StopHit(p) \/ Tp2Hit(p)
    /\ positions' = [positions EXCEPT ![p].status = "CLOSED"]
    /\ Visited(p)
    /\ UNCHANGED <<trades, price, work, crashes>>

\* STOP_LOSS before TAKE_PROFIT_2: the trade, then the position.
TakeExit(p) ==
    /\ Visiting(p) /\ Risk(p) > 0
    /\ StopHit(p) \/ Tp2Hit(p)
    /\ RecordTrade(p, "full")
    /\ work' = [pos |-> p, row |-> [positions[p] EXCEPT !.status = "CLOSED"]]
    /\ Visited(p)
    /\ UNCHANGED <<positions, price, crashes>>

\* Mutant: the partial exit leaves its mark in memory only.
TakePartialUnsaved(p) ==
    /\ Visiting(p) /\ Risk(p) > 0
    /\ ~StopHit(p) /\ ~Tp2Hit(p) /\ Tp1Due(p)
    /\ RecordTrade(p, "partial")
    /\ Visited(p)
    /\ UNCHANGED <<positions, price, work, crashes>>

\* TAKE_PROFIT_1_PARTIAL: the trade, then the payload with the stop at the entry.
TakePartial(p) ==
    /\ Visiting(p) /\ Risk(p) > 0
    /\ ~StopHit(p) /\ ~Tp2Hit(p) /\ Tp1Due(p)
    /\ RecordTrade(p, "partial")
    /\ work' = [pos |-> p, row |-> Managed(p, StopAtEntry, TRUE)]
    /\ Visited(p)
    /\ UNCHANGED <<positions, price, crashes>>

\* GIVEBACK_PROTECTION: the trade only; what the visit computed is not stored.
GiveBack(p) ==
    /\ Visiting(p) /\ Risk(p) > 0
    /\ ~StopHit(p) /\ ~Tp2Hit(p) /\ ~Tp1Due(p) /\ GiveBackDue(p)
    /\ RecordTrade(p, "giveback")
    /\ Visited(p)
    /\ UNCHANGED <<positions, price, work, crashes>>

\* Nothing to take: the payload is stored, the profit lock included.
MarkPosition(p) ==
    /\ Visiting(p) /\ Risk(p) > 0
    /\ ~StopHit(p) /\ ~Tp2Hit(p) /\ ~Tp1Due(p) /\ ~GiveBackDue(p)
    /\ positions' = [positions EXCEPT ![p] = Managed(p, LockedStop(p), @.tp1_done)]
    /\ Visited(p)
    /\ UNCHANGED <<trades, price, work, crashes>>

\* Mutant: only the payload of a closed position is stored, not its status.
StorePayload ==
    /\ work # NoWork
    /\ positions' = [positions EXCEPT ![work.pos] = [work.row EXCEPT !.status = "OPEN"]]
    /\ work' = NoWork
    /\ UNCHANGED <<trades, price, todo, crashes>>

\* The update of the position row that follows the trade.
StorePosition ==
    /\ work # NoWork
    /\ positions' = [positions EXCEPT ![work.pos] = work.row]
    /\ work' = NoWork
    /\ UNCHANGED <<trades, price, todo, crashes>>

\* The pass is cut short: the process is killed, or a statement raises and run()
\* starts the loop over.  What the pass had in memory is lost, and with the process
\* the prices too.
CutShort ==
    /\ todo # {} \/ work # NoWork
    /\ crashes < MaxCrashes
    /\ crashes' = crashes + 1
    /\ todo' = {}
    /\ work' = NoWork
    /\ price' \in {price, [s \in Symbols |-> NoPrice]}
    /\ UNCHANGED <<positions, trades>>

-----------------------------------------------------------------------------
Init ==
    /\ positions = <<>>
    /\ trades = <<>>
    /\ price = [s \in Symbols |-> NoPrice]
    /\ todo = {}
    /\ work = NoWork
    /\ crashes = 0

Visit(p) ==
    \/ SkipPosition(p)
    \/ TakeExit(p)
    \/ TakePartial(p)
    \/ GiveBack(p)
    \/ MarkPosition(p)

PassStep ==
    \/ BeginPass
    \/ \E p \in todo : Visit(p)
    \/ StorePosition

Next ==
    \/ \E s \in Symbols : OpenFromDecision(s) \/ MarketMoves(s)
    \/ PassStep
    \/ CutShort

Spec == Init /\ [][Next]_vars

\* The loop of Runner.run() comes round to step_positions() for ever, and the
\* watchdog (or whoever runs the start script) starts the process again when it
\* died.
FairSpec == Spec /\ WF_vars(PassStep)

-----------------------------------------------------------------------------
(* Properties.                                                             *)

TypeOK ==
    /\ positions \in Seq(Position)
    /\ trades \in Seq([Kinds -> 0 .. MaxCount])
    /\ DOMAIN trades = DOMAIN positions
    /\ price \in [Symbols -> Prices \cup {NoPrice}]
    /\ todo \subseteq DOMAIN positions
    /\ work # NoWork => work.pos \in DOMAIN positions /\ work.row \in Position
    /\ crashes \in 0 .. MaxCrashes

\* The wallet is the sum of the trades: wherever a pass is cut short, a position
\* that is no longer open has the trade that realised its result.
ClosedIsBooked == \A p \in DOMAIN positions : ~Open(p) => trades[p]["full"] > 0

\* Booking an exit and storing it are two commits.  A trade is booked a second
\* time only for a pass that was cut short between them: never more often than
\* the process died.
RepeatsNeedACut ==
    \A p \in DOMAIN positions :
        /\ trades[p]["full"] <= 1 + crashes
        /\ trades[p]["partial"] <= 1 + crashes

\* Until the partial exit a stop only ever moves in the direction of the trade,
\* though the risk that the lock is computed from shrinks with every move.
StopsOnlyTighten ==
    [][\A p \in DOMAIN positions :
          positions'[p].tp1_done \/ positions'[p].stop >= positions[p].stop]_positions

\* A giveback exit is stored nowhere and is taken again by every later pass.  Each one
\* is taken above a stop that lies beyond the entry: an earlier visit has stored the
\* excursion together with the profit lock, and at the lock the whole position goes.
GivebackIsLocked ==
    [][\A p \in DOMAIN trades :
          trades'[p]["giveback"] # trades[p]["giveback"] =>
              positions[p].stop > StopAtEntry /\ PriceOf(p) > positions[p].stop]_trades

AtExit(p) ==
    /\ Open(p)
    /\ PriceOf(p) # NoPrice
    /\ StopHit(p) \/ Tp2Hit(p)

\* Before the partial exit, a position does not stay open for ever while its
\* price stays beyond its stop or its second target.
FirstExitsAreTaken ==
    \A p \in 1 .. MaxPositions :
        ~<>[](p \in DOMAIN positions /\ ~positions[p].tp1_done /\ AtExit(p))

\* "ProfitGuard: TP1 parcial, TP2, SL, break-even": nor after the partial exit.
ExitsAreTaken ==
    \A p \in 1 .. MaxPositions : ~<>[](p \in DOMAIN positions /\ AtExit(p))

-----------------------------------------------------------------------------
(* The inductive invariant behind the invariants above.                    *)

\* A pass still has to visit open positions only.
TodoIsOpen == \A p \in todo : Open(p)

\* The row in hand belongs to an open position that the pass has left behind, does
\* not take back a partial exit or loosen a stop, and closes only what is booked.
WorkInv ==
    work # NoWork =>
        /\ Open(work.pos)
        /\ work.pos \notin todo
        /\ positions[work.pos].tp1_done => work.row.tp1_done
        /\ work.row.tp1_done \/ work.row.stop >= positions[work.pos].stop
        /\ work.row.status = "CLOSED" => trades[work.pos]["full"] > 0

\* An exit of the kind is stored, or booked and in hand.
FullDue(p) ==
    ~Open(p) \/ (work # NoWork /\ work.pos = p /\ work.row.status = "CLOSED")
PartialDue(p) ==
    positions[p].tp1_done \/ (work # NoWork /\ work.pos = p /\ work.row.tp1_done)

\* Every trade but the one of the exit that is stored or in hand was lost from the
\* position by a cut.
FullCount(p) ==
    /\ trades[p]["full"] <= 1 + crashes
    /\ ~FullDue(p) => trades[p]["full"] <= crashes
PartialCount(p) ==
    /\ trades[p]["partial"] <= 1 + crashes
    /\ ~PartialDue(p) => trades[p]["partial"] <= crashes

BrokerInv ==
    /\ TypeOK
    /\ TodoIsOpen
    /\ WorkInv
    /\ ClosedIsBooked
    /\ \A p \in DOMAIN positions : FullCount(p) /\ PartialCount(p)
=============================================================================
