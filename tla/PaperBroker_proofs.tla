------------------------- MODULE PaperBroker_proofs -------------------------
(***************************************************************************)
(* Proofs about PaperBroker: what the wallet and the stops keep, wherever  *)
(* a pass of ProfitGuard.manage() is cut short and however often.          *)
(***************************************************************************)
EXTENDS PaperBroker, TableLemmas

-----------------------------------------------------------------------------
(* Lemmas about the helpers.                                               *)

\* Writing a trade adds one to a count, or leaves it where it saturated.
LEMMA TradeWritten ==
    ASSUME TypeOK, NEW p \in DOMAIN positions, NEW kind \in Kinds, RecordTrade(p, kind)
    PROVE  /\ trades' \in Seq([Kinds -> 0 .. MaxCount])
           /\ DOMAIN trades' = DOMAIN trades
           /\ trades'[p][kind] > 0
           /\ trades'[p][kind] <= trades[p][kind] + 1
           /\ \A k \in Kinds \ {kind} : trades'[p][k] = trades[p][k]
           /\ \A q \in DOMAIN trades \ {p} : trades'[q] = trades[q]
<1> DEFINE n == IF trades[p][kind] < MaxCount THEN trades[p][kind] + 1 ELSE trades[p][kind]
           row == [trades[p] EXCEPT ![kind] = n]
<1>1. trades \in Seq([Kinds -> 0 .. MaxCount]) /\ p \in DOMAIN trades
  BY DEF TypeOK
<1>2. trades[p] \in [Kinds -> 0 .. MaxCount]
  BY <1>1
<1>3. trades' = [trades EXCEPT ![p] = row]
  BY DEF RecordTrade
<1>4. n \in 0 .. MaxCount /\ n > 0 /\ n <= trades[p][kind] + 1
  BY <1>2, BrokerAssumption
<1> HIDE DEF n
<1>5. /\ row \in [Kinds -> 0 .. MaxCount]
      /\ row[kind] = n
      /\ \A k \in Kinds \ {kind} : row[k] = trades[p][k]
  BY <1>2, <1>4
<1> HIDE DEF row
<1>6. QED
  BY <1>1, <1>3, <1>4, <1>5, ReplaceRow

\* The row that a visit computes is a row of the same position, with a stop that is
\* no looser.
LEMMA VisitComputes ==
    ASSUME TypeOK, NEW p \in DOMAIN positions, Visiting(p), Risk(p) > 0
    PROVE  /\ Mfe(p) \in Nat
           /\ LockedStop(p) \in Int
           /\ LockedStop(p) >= positions[p].stop
<1>1. positions[p] \in Position
  BY DEF TypeOK
<1>2. PriceOf(p) \in Int
  BY <1>1, BrokerAssumption DEF PriceOf, TypeOK, Visiting, Position
<1>3. Risk(p) \in Nat \ {0}
  BY <1>1 DEF Risk, Position
<1>4. R(p) \in Int
  BY <1>2, <1>3 DEF R
<1>5. Mfe(p) \in Nat
  BY <1>1, <1>4 DEF Mfe, Larger, Position
<1>6. (Risk(p) * 15) \div 100 \in Int
  BY <1>3
<1>7. QED
  BY <1>1, <1>5, <1>6 DEF LockedStop, Larger, Position

\* A row that a visit leaves behind is a row, with the parts it does not touch.
LEMMA ManagedRow ==
    ASSUME TypeOK, NEW p \in DOMAIN positions, Mfe(p) \in Nat,
           NEW stop \in Int, NEW done \in BOOLEAN
    PROVE  /\ Managed(p, stop, done) \in Position
           /\ Managed(p, stop, done).status = positions[p].status
           /\ Managed(p, stop, done).stop = stop
           /\ Managed(p, stop, done).tp1_done = done
<1>1. positions[p] \in Position
  BY DEF TypeOK
<1>2. QED
  BY <1>1 DEF Managed, Position

\* A position is in hand, or nothing is.
LEMMA InHand ==
    ASSUME TypeOK, NEW p \in DOMAIN positions, NEW row
    PROVE  [pos |-> p, row |-> row] # NoWork
<1>1. p \in Nat \ {0}
  BY LenProperties DEF TypeOK
<1>2. [pos |-> p, row |-> row].pos # NoWork.pos
  BY <1>1 DEF NoWork
<1>3. QED
  BY <1>2

\* What a visit finds: an open position and no row in hand.
LEMMA Found ==
    ASSUME BrokerInv, NEW p \in todo
    PROVE  /\ p \in DOMAIN positions /\ p \in DOMAIN trades
           /\ Open(p)
           /\ positions[p] \in Position
           /\ trades[p] \in [Kinds -> 0 .. MaxCount]
BY DEF BrokerInv, TypeOK, TodoIsOpen

-----------------------------------------------------------------------------
(* Every action keeps the invariant.                                       *)

\* Initially there is nothing.
LEMMA InitHolds == Init => BrokerInv
<1>1. Init => TypeOK
  BY BrokerAssumption, EmptySeq DEF Init, TypeOK
<1>2. Init => DOMAIN positions = {}
  BY DEF Init
<1>3. QED
  BY <1>1, <1>2 DEF Init, BrokerInv, TodoIsOpen, WorkInv, ClosedIsBooked

\* A new position is open, and has no trade.
LEMMA OpenKeeps ==
    ASSUME BrokerInv, NEW s \in Symbols, OpenFromDecision(s)
    PROVE  BrokerInv'
<1> DEFINE row == [symbol |-> s, status |-> "OPEN", stop |-> InitialStop,
                   tp1_done |-> FALSE, mfe |-> 0]
           none == [k \in Kinds |-> 0]
<1>0. PICK new : new = Len(positions) + 1
  OBVIOUS
<1>1. /\ positions' = Append(positions, row)
      /\ trades' = Append(trades, none)
      /\ UNCHANGED <<todo, work, crashes>>
      /\ price' = [price EXCEPT ![s] = 0]
      /\ todo = {} /\ work = NoWork
  BY DEF OpenFromDecision
<1>2. row \in Position /\ row.status = "OPEN"
  BY DEF Position, InitialStop
<1>3. none \in [Kinds -> 0 .. MaxCount] /\ none["full"] = 0 /\ none["partial"] = 0
  BY BrokerAssumption DEF Kinds
<1>4. /\ positions \in Seq(Position)
      /\ trades \in Seq([Kinds -> 0 .. MaxCount])
      /\ Len(trades) = Len(positions)
      /\ DOMAIN trades = DOMAIN positions
  BY LenProperties DEF BrokerInv, TypeOK
<1> HIDE DEF row, none
<1>5. /\ positions' \in Seq(Position)
      /\ DOMAIN positions' = DOMAIN positions \cup {new}
      /\ positions'[new] = row
      /\ \A q \in DOMAIN positions : positions'[q] = positions[q]
  BY <1>0, <1>1, <1>2, <1>4, AppendRow
<1>6. /\ trades' \in Seq([Kinds -> 0 .. MaxCount])
      /\ DOMAIN trades' = DOMAIN trades \cup {new}
      /\ trades'[new] = none
      /\ \A q \in DOMAIN trades : trades'[q] = trades[q]
  BY <1>0, <1>1, <1>3, <1>4, AppendRow
<1>7. TypeOK'
  <2>1. price' \in [Symbols -> Prices \cup {NoPrice}]
    BY <1>1, BrokerAssumption DEF BrokerInv, TypeOK
  <2>2. QED
    BY <2>1, <1>1, <1>4, <1>5, <1>6 DEF BrokerInv, TypeOK
<1>8. TodoIsOpen' /\ WorkInv'
  BY <1>1 DEF TodoIsOpen, WorkInv
<1>9. ClosedIsBooked'
  BY <1>2, <1>4, <1>5, <1>6 DEF ClosedIsBooked, BrokerInv, Open
<1>10. \A q \in DOMAIN positions' : (FullCount(q) /\ PartialCount(q))'
  <2>1. FullCount(new)' /\ PartialCount(new)'
    BY <1>1, <1>3, <1>6 DEF FullCount, PartialCount, BrokerInv, TypeOK
  <2>2. ASSUME NEW q \in DOMAIN positions
        PROVE  (FullCount(q) /\ PartialCount(q))'
    BY <1>1, <1>4, <1>5, <1>6
       DEF FullCount, PartialCount, FullDue, PartialDue, BrokerInv, Open
  <2>3. QED
    BY <1>5, <2>1, <2>2
<1>11. QED
  BY <1>7, <1>8, <1>9, <1>10 DEF BrokerInv

\* The market does not touch the tables, nor does a skipped position or the start of
\* a pass.
LEMMA TablesStay ==
    ASSUME BrokerInv, UNCHANGED <<positions, trades, work, crashes>>,
           price' \in [Symbols -> Prices \cup {NoPrice}],
           todo' \subseteq {p \in DOMAIN positions : Open(p)},
           work # NoWork => work.pos \notin todo'
    PROVE  BrokerInv'
<1>1. TypeOK' /\ TodoIsOpen' /\ WorkInv' /\ ClosedIsBooked'
  BY DEF BrokerInv, TypeOK, TodoIsOpen, WorkInv, ClosedIsBooked, Open
<1>2. \A q \in DOMAIN positions' : (FullCount(q) /\ PartialCount(q))'
  BY DEF BrokerInv, FullCount, PartialCount, FullDue, PartialDue, Open
<1>3. QED
  BY <1>1, <1>2 DEF BrokerInv

\* The three actions that leave the tables alone.
LEMMA QuietKeeps ==
    ASSUME BrokerInv,
           \/ \E s \in Symbols : MarketMoves(s)
           \/ BeginPass
           \/ \E p \in todo : SkipPosition(p)
    PROVE  BrokerInv'
<1>1. CASE \E s \in Symbols : MarketMoves(s)
  BY <1>1, TablesStay DEF MarketMoves, BrokerInv, TypeOK
<1>2. CASE BeginPass
  BY <1>2, TablesStay DEF BeginPass, BrokerInv, TypeOK
<1>3. CASE \E p \in todo : SkipPosition(p)
  BY <1>3, TablesStay DEF SkipPosition, Visited, BrokerInv, TypeOK, TodoIsOpen, WorkInv
<1>4. QED
  BY <1>1, <1>2, <1>3

\* The trade of an exit is written with nothing in hand: the position it belongs to is
\* not due, so one more trade stays within the bound, and the row in hand makes it due.
LEMMA BookedKeeps ==
    ASSUME BrokerInv, NEW p \in todo, work = NoWork,
           NEW kind \in {"full", "partial"}, NEW row \in Position,
           RecordTrade(p, kind), Visited(p),
           work' = [pos |-> p, row |-> row],
           UNCHANGED <<positions, price, crashes>>,
           positions[p].tp1_done => row.tp1_done,
           row.tp1_done \/ row.stop >= positions[p].stop,
           kind = "full" <=> row.status = "CLOSED",
           kind = "partial" => row.tp1_done /\ ~positions[p].tp1_done
    PROVE  BrokerInv'
<1>1. /\ p \in DOMAIN positions /\ p \in DOMAIN trades
      /\ Open(p)
      /\ trades[p] \in [Kinds -> 0 .. MaxCount]
  BY Found
<1>2. /\ TypeOK
      /\ kind \in Kinds
  BY DEF BrokerInv, Kinds
<1>3. /\ trades' \in Seq([Kinds -> 0 .. MaxCount])
      /\ DOMAIN trades' = DOMAIN trades
      /\ trades'[p][kind] > 0
      /\ trades'[p][kind] <= trades[p][kind] + 1
      /\ \A k \in Kinds \ {kind} : trades'[p][k] = trades[p][k]
      /\ \A q \in DOMAIN trades \ {p} : trades'[q] = trades[q]
  BY <1>1, <1>2, TradeWritten
<1>4. work' # NoWork /\ work'.pos = p /\ work'.row = row
  BY <1>1, <1>2, InHand
<1>5. TypeOK'
  <2>1. (work # NoWork => work.pos \in DOMAIN positions /\ work.row \in Position)'
    BY <1>1, <1>4
  <2>2. QED
    BY <1>2, <1>3, <2>1 DEF TypeOK, Visited
<1>6. TodoIsOpen' /\ p \notin todo'
  BY DEF BrokerInv, TodoIsOpen, Visited, Open
<1>7. WorkInv'
  BY <1>1, <1>3, <1>4, <1>6 DEF WorkInv, Open
<1>8. ClosedIsBooked'
  BY <1>1, <1>2, <1>3 DEF BrokerInv, ClosedIsBooked, Open, TypeOK
<1>9. (FullCount(p) /\ PartialCount(p))'
  <2>1. /\ trades[p]["full"] \in Int /\ trades[p]["partial"] \in Int
        /\ crashes \in Int
        /\ trades'[p]["full"] \in Int /\ trades'[p]["partial"] \in Int
    <3>1. trades'[p] \in [Kinds -> 0 .. MaxCount]
      BY <1>1, <1>3
    <3>2. "full" \in Kinds /\ "partial" \in Kinds
      BY DEF Kinds
    <3>3. crashes \in Int
      BY <1>2 DEF TypeOK
    <3>4. QED
      BY <1>1, <3>1, <3>2, <3>3
  <2>2. ~FullDue(p) /\ (PartialDue(p) <=> positions[p].tp1_done)
    BY <1>1 DEF FullDue, PartialDue
  <2>3. FullCount(p) /\ PartialCount(p)
    BY <1>1 DEF BrokerInv
  <2>4. CASE kind = "full"
    <3>1. FullDue(p)' /\ (PartialDue(p) => PartialDue(p)')
      BY <1>4, <2>2, <2>4 DEF FullDue, PartialDue
    <3>2. trades'[p]["partial"] = trades[p]["partial"]
      BY <1>3, <2>4 DEF Kinds
    <3>3. QED
      BY <1>3, <2>1, <2>2, <2>3, <2>4, <3>1, <3>2 DEF FullCount, PartialCount
  <2>5. CASE kind = "partial"
    <3>1. PartialDue(p)'
      BY <1>4, <2>5 DEF PartialDue
    <3>2. trades'[p]["full"] = trades[p]["full"]
      BY <1>3, <2>5 DEF Kinds
    <3>3. QED
      BY <1>3, <2>1, <2>2, <2>3, <2>5, <3>1, <3>2 DEF FullCount, PartialCount
  <2>6. QED
    BY <2>4, <2>5
<1>10. ASSUME NEW q \in DOMAIN positions, q # p
       PROVE  (FullCount(q) /\ PartialCount(q))'
  <2>1. FullCount(q) /\ PartialCount(q) /\ trades'[q] = trades[q]
    BY <1>2, <1>3, <1>10 DEF BrokerInv, TypeOK
  <2>2. (FullDue(q) => FullDue(q)') /\ (PartialDue(q) => PartialDue(q)')
    BY DEF FullDue, PartialDue, Open
  <2>3. QED
    BY <2>1, <2>2 DEF FullCount, PartialCount
<1>11. QED
  BY <1>5, <1>6, <1>7, <1>8, <1>9, <1>10 DEF BrokerInv

\* A stop loss or a second target.
LEMMA ExitKeeps ==
    ASSUME BrokerInv, NEW p \in todo, TakeExit(p)
    PROVE  BrokerInv'
<1> DEFINE row == [positions[p] EXCEPT !.status = "CLOSED"]
<1>1. positions[p] \in Position
  BY Found
<1>2. /\ row \in Position /\ row.status = "CLOSED"
      /\ row.tp1_done = positions[p].tp1_done
      /\ row.stop = positions[p].stop /\ row.stop \in Int
  BY <1>1 DEF Position
<1>3. /\ work = NoWork /\ RecordTrade(p, "full") /\ Visited(p)
      /\ work' = [pos |-> p, row |-> row]
      /\ UNCHANGED <<positions, price, crashes>>
  BY DEF TakeExit, Visiting
<1> HIDE DEF row
<1>4. QED
  BY <1>2, <1>3, BookedKeeps

\* A first target.
LEMMA PartialKeeps ==
    ASSUME BrokerInv, NEW p \in todo, TakePartial(p)
    PROVE  BrokerInv'
<1> DEFINE row == Managed(p, StopAtEntry, TRUE)
<1>1. /\ TypeOK /\ p \in DOMAIN positions /\ Open(p)
      /\ Mfe(p) \in Nat
  BY Found, VisitComputes DEF BrokerInv, TakePartial
<1>2. StopAtEntry \in Int
  BY DEF StopAtEntry
<1>3. row \in Position /\ row.status = "OPEN" /\ row.tp1_done = TRUE
  BY <1>1, <1>2, ManagedRow DEF Open
<1>4. /\ work = NoWork /\ RecordTrade(p, "partial") /\ Visited(p)
      /\ work' = [pos |-> p, row |-> row]
      /\ UNCHANGED <<positions, price, crashes>>
      /\ ~positions[p].tp1_done
  BY DEF TakePartial, Visiting, Tp1Due
<1> HIDE DEF row
<1>5. QED
  BY <1>3, <1>4, BookedKeeps

\* A giveback writes a trade that no bound speaks of.
LEMMA GiveBackKeeps ==
    ASSUME BrokerInv, NEW p \in todo, GiveBack(p)
    PROVE  BrokerInv'
<1>1. /\ p \in DOMAIN positions /\ p \in DOMAIN trades /\ TypeOK
      /\ "giveback" \in Kinds /\ "full" \in Kinds /\ "partial" \in Kinds
  BY Found DEF BrokerInv, Kinds
<1>2. /\ RecordTrade(p, "giveback") /\ Visited(p)
      /\ UNCHANGED <<positions, price, work, crashes>>
      /\ work = NoWork
  BY DEF GiveBack, Visiting
<1>3. /\ trades' \in Seq([Kinds -> 0 .. MaxCount])
      /\ DOMAIN trades' = DOMAIN trades
      /\ \A k \in Kinds \ {"giveback"} : trades'[p][k] = trades[p][k]
      /\ \A q \in DOMAIN trades \ {p} : trades'[q] = trades[q]
  BY <1>1, <1>2, TradeWritten
<1>4. \A q \in DOMAIN trades : /\ trades'[q]["full"] = trades[q]["full"]
                               /\ trades'[q]["partial"] = trades[q]["partial"]
  BY <1>1, <1>3 DEF Kinds
<1>5. TypeOK'
  BY <1>1, <1>2, <1>3 DEF TypeOK, Visited
<1>6. TodoIsOpen' /\ WorkInv'
  BY <1>2 DEF BrokerInv, TodoIsOpen, Visited, Open, WorkInv
<1>7. ClosedIsBooked'
  BY <1>1, <1>2, <1>4 DEF BrokerInv, ClosedIsBooked, Open, TypeOK
<1>8. \A q \in DOMAIN positions' : (FullCount(q) /\ PartialCount(q))'
  BY <1>1, <1>2, <1>4
     DEF BrokerInv, TypeOK, FullCount, PartialCount, FullDue, PartialDue, Open
<1>9. QED
  BY <1>5, <1>6, <1>7, <1>8 DEF BrokerInv

\* A row that is stored without a trade stays open, and keeps its partial exit.
LEMMA MarkKeeps ==
    ASSUME BrokerInv, NEW p \in todo, MarkPosition(p)
    PROVE  BrokerInv'
<1> DEFINE row == Managed(p, LockedStop(p), positions[p].tp1_done)
<1>1. /\ TypeOK /\ p \in DOMAIN positions /\ Open(p)
      /\ positions[p] \in Position
      /\ Mfe(p) \in Nat /\ LockedStop(p) \in Int
  BY Found, VisitComputes DEF BrokerInv, MarkPosition
<1>2. row \in Position /\ row.status = "OPEN" /\ row.tp1_done = positions[p].tp1_done
  BY <1>1, ManagedRow DEF Open, Position
<1>3. /\ positions' = [positions EXCEPT ![p] = row]
      /\ Visited(p)
      /\ UNCHANGED <<trades, price, work, crashes>>
      /\ work = NoWork
  BY <1>1 DEF MarkPosition, Visiting
<1> HIDE DEF row
<1>4. /\ positions' \in Seq(Position)
      /\ DOMAIN positions' = DOMAIN positions
      /\ positions'[p] = row
      /\ \A q \in DOMAIN positions : q # p => positions'[q] = positions[q]
  BY <1>1, <1>2, <1>3, ReplaceRow DEF TypeOK
<1>5. \A q \in DOMAIN positions : /\ Open(q)' <=> Open(q)
                                  /\ positions'[q].tp1_done = positions[q].tp1_done
  BY <1>1, <1>2, <1>4 DEF Open
<1>6. TypeOK'
  BY <1>1, <1>3, <1>4 DEF TypeOK, Visited
<1>7. TodoIsOpen' /\ WorkInv' /\ ClosedIsBooked'
  BY <1>1, <1>3, <1>4, <1>5
     DEF BrokerInv, TypeOK, TodoIsOpen, Visited, WorkInv, ClosedIsBooked
<1>8. \A q \in DOMAIN positions' : (FullCount(q) /\ PartialCount(q))'
  BY <1>3, <1>4, <1>5
     DEF BrokerInv, FullCount, PartialCount, FullDue, PartialDue
<1>9. QED
  BY <1>6, <1>7, <1>8 DEF BrokerInv

\* The row in hand is stored: what was due in hand is due in the table.
LEMMA StoreKeeps ==
    ASSUME BrokerInv, StorePosition
    PROVE  BrokerInv'
<1> DEFINE p == work.pos
           row == work.row
<1>1. /\ work # NoWork /\ TypeOK
      /\ p \in DOMAIN positions /\ row \in Position
      /\ Open(p) /\ p \notin todo
      /\ positions[p].tp1_done => row.tp1_done
      /\ row.status = "CLOSED" => trades[p]["full"] > 0
  BY DEF StorePosition, BrokerInv, TypeOK, WorkInv
<1>2. /\ positions' = [positions EXCEPT ![p] = row]
      /\ work' = NoWork
      /\ UNCHANGED <<trades, price, todo, crashes>>
  BY DEF StorePosition
<1>3. /\ positions' \in Seq(Position)
      /\ DOMAIN positions' = DOMAIN positions
      /\ positions'[p] = row
      /\ \A q \in DOMAIN positions : q # p => positions'[q] = positions[q]
  BY <1>1, <1>2, ReplaceRow DEF TypeOK
<1>4. TypeOK'
  BY <1>1, <1>2, <1>3 DEF TypeOK
<1>5. TodoIsOpen' /\ WorkInv'
  BY <1>1, <1>2, <1>3 DEF BrokerInv, TypeOK, TodoIsOpen, WorkInv, Open
<1>6. ClosedIsBooked'
  <2>1. row.status \in {"OPEN", "CLOSED"}
    BY <1>1 DEF Position
  <2>2. QED
    BY <1>1, <1>2, <1>3, <2>1 DEF BrokerInv, ClosedIsBooked, Open
<1>7. ASSUME NEW q \in DOMAIN positions
      PROVE  (FullCount(q) /\ PartialCount(q))'
  <2>1. FullCount(q) /\ PartialCount(q)
    BY <1>7 DEF BrokerInv
  <2>2. (FullDue(q) => FullDue(q)') /\ (PartialDue(q) => PartialDue(q)')
    BY <1>1, <1>2, <1>3 DEF FullDue, PartialDue, Open
  <2>3. QED
    BY <1>2, <2>1, <2>2 DEF FullCount, PartialCount
<1>8. QED
  BY <1>3, <1>4, <1>5, <1>6, <1>7 DEF BrokerInv

\* A cut loses what was in hand, and pays for it with one of the crashes.
LEMMA CutKeeps ==
    ASSUME BrokerInv, CutShort
    PROVE  BrokerInv'
<1>1. /\ TypeOK /\ crashes \in Nat /\ crashes < MaxCrashes /\ crashes' = crashes + 1
      /\ todo' = {} /\ work' = NoWork
      /\ UNCHANGED <<positions, trades>>
      /\ price' \in {price, [s \in Symbols |-> NoPrice]}
  BY DEF CutShort, BrokerInv, TypeOK
<1>2. TypeOK'
  BY <1>1, BrokerAssumption DEF TypeOK
<1>3. TodoIsOpen' /\ WorkInv' /\ ClosedIsBooked'
  BY <1>1 DEF BrokerInv, TodoIsOpen, WorkInv, ClosedIsBooked, Open
<1>4. ASSUME NEW q \in DOMAIN positions
      PROVE  (FullCount(q) /\ PartialCount(q))'
  <2>1. FullCount(q) /\ PartialCount(q)
    BY <1>4 DEF BrokerInv
  <2>2. trades[q]["full"] \in Int /\ trades[q]["partial"] \in Int
    BY <1>1 DEF TypeOK, Kinds
  <2>3. QED
    BY <1>1, <2>1, <2>2 DEF FullCount, PartialCount
<1>5. QED
  BY <1>1, <1>2, <1>3, <1>4 DEF BrokerInv

\* Every step keeps the invariant.
LEMMA StepKeeps == BrokerInv /\ [Next]_vars => BrokerInv'
<1> SUFFICES ASSUME BrokerInv, [Next]_vars PROVE BrokerInv'
  OBVIOUS
<1>1. CASE \E s \in Symbols : OpenFromDecision(s)
  BY <1>1, OpenKeeps
<1>2. CASE \E s \in Symbols : MarketMoves(s)
  BY <1>2, QuietKeeps
<1>3. CASE BeginPass
  BY <1>3, QuietKeeps
<1>4. ASSUME NEW p \in todo, Visit(p) PROVE BrokerInv'
  BY <1>4, QuietKeeps, ExitKeeps, PartialKeeps, GiveBackKeeps, MarkKeeps DEF Visit
<1>5. CASE StorePosition
  BY <1>5, StoreKeeps
<1>6. CASE CutShort
  BY <1>6, CutKeeps
<1>7. CASE UNCHANGED vars
  <2>1. UNCHANGED <<positions, trades, work, crashes, price, todo>>
    BY <1>7 DEF vars
  <2>2. QED
    BY <2>1, TablesStay DEF BrokerInv, TypeOK, TodoIsOpen, WorkInv
<1>8. QED
  BY <1>1, <1>2, <1>3, <1>4, <1>5, <1>6, <1>7 DEF Next, PassStep

-----------------------------------------------------------------------------
(* The profit lock and the giveback.                                       *)

\* A row that has once been far enough in profit has its stop moved to the entry or
\* beyond; until then the stop is the one it was opened with.
Locked(row) ==
    \/ row.stop >= StopAtEntry
    \/ row.stop = InitialStop /\ row.mfe < 70

\* That holds of the stored rows and of the row in hand.
LockInv ==
    /\ \A p \in DOMAIN positions : Locked(positions[p])
    /\ work # NoWork => Locked(work.row)

\* A visit with nothing to take stores an excursion only together with the lock.
LEMMA MarkLocks ==
    ASSUME BrokerInv, NEW p \in todo, Locked(positions[p]), MarkPosition(p)
    PROVE  Locked(Managed(p, LockedStop(p), positions[p].tp1_done))
<1>1. /\ TypeOK /\ p \in DOMAIN positions /\ positions[p] \in Position
      /\ Mfe(p) \in Nat /\ LockedStop(p) \in Int
  BY Found, VisitComputes DEF BrokerInv, MarkPosition
<1>2. positions[p].stop \in Int /\ positions[p].mfe \in Nat
  BY <1>1 DEF Position
<1> DEFINE row == Managed(p, LockedStop(p), positions[p].tp1_done)
<1>3. row.stop = LockedStop(p) /\ row.mfe = Mfe(p)
  BY <1>1 DEF Managed, Position
<1> HIDE DEF row
<1>4. CASE positions[p].stop >= StopAtEntry
  <2>1. LockedStop(p) >= positions[p].stop
    BY <1>1, VisitComputes DEF MarkPosition
  <2>2. QED
    BY <1>1, <1>2, <1>3, <1>4, <2>1 DEF Locked, StopAtEntry, row
<1>5. CASE positions[p].stop = InitialStop
  <2>0. positions[p].stop = 0 - 100
    BY <1>5 DEF InitialStop
  <2>1. Risk(p) = 100
    <3>1. positions[p].stop < 0
      BY <2>0
    <3>2. Risk(p) = -positions[p].stop
      BY <3>1 DEF Risk
    <3>3. positions[p].stop + Risk(p) = 0
      BY <1>2, <3>2
    <3>4. Risk(p) \in Int
      BY <1>2, <3>2
    <3>5. QED
      BY <2>0, <3>3, <3>4
  <2>2. CASE Mfe(p) >= 70
    <3>1. LockedStop(p) = 15
      BY <1>5, <2>1, <2>2 DEF LockedStop, Larger, InitialStop
    <3>2. QED
      BY <1>3, <3>1 DEF Locked, StopAtEntry, row
  <2>3. CASE ~(Mfe(p) >= 70)
    <3>1. LockedStop(p) = InitialStop
      BY <1>5, <2>3 DEF LockedStop
    <3>2. QED
      BY <1>1, <1>3, <2>3, <3>1 DEF Locked, row
  <2>4. QED
    BY <2>2, <2>3
<1>6. QED
  BY <1>4, <1>5 DEF Locked

\* Initially there is nothing to lock.
LEMMA LockInit == Init => LockInv
<1>1. Init => DOMAIN positions = {}
  BY DEF Init
<1>2. QED
  BY <1>1 DEF Init, LockInv

\* Every step keeps the lock; it is the visit that matters, the rest copies rows.
LEMMA LockKeeps == BrokerInv /\ LockInv /\ [Next]_vars => LockInv'
<1> SUFFICES ASSUME BrokerInv, LockInv, [Next]_vars PROVE LockInv'
  OBVIOUS
<1>0. /\ TypeOK /\ positions \in Seq(Position)
      /\ \A p \in DOMAIN positions : positions[p] \in Position /\ Locked(positions[p])
  BY DEF BrokerInv, TypeOK, LockInv
<1>1. CASE \E s \in Symbols : OpenFromDecision(s)
  <2>1. PICK s \in Symbols : OpenFromDecision(s)
    BY <1>1
  <2> DEFINE row == [symbol |-> s, status |-> "OPEN", stop |-> InitialStop,
                     tp1_done |-> FALSE, mfe |-> 0]
  <2>2. row \in Position /\ Locked(row)
    BY DEF Position, Locked, InitialStop
  <2>3. positions' = Append(positions, row) /\ work = NoWork /\ UNCHANGED work
    BY <2>1 DEF OpenFromDecision
  <2> HIDE DEF row
  <2>4. PICK new : new = Len(positions) + 1
    OBVIOUS
  <2>5. /\ DOMAIN positions' = DOMAIN positions \cup {new}
        /\ positions'[new] = row
        /\ \A q \in DOMAIN positions : positions'[q] = positions[q]
    BY <1>0, <2>2, <2>3, <2>4, AppendRow
  <2>6. QED
    BY <1>0, <2>2, <2>3, <2>5 DEF LockInv
<1>2. ASSUME NEW p \in todo, TakeExit(p) PROVE LockInv'
  <2> DEFINE row == [positions[p] EXCEPT !.status = "CLOSED"]
  <2>1. /\ p \in DOMAIN positions /\ UNCHANGED positions
        /\ work' = [pos |-> p, row |-> row]
    BY <1>2, Found DEF TakeExit
  <2>2. Locked(row)
    BY <1>0, <2>1 DEF Locked, Position
  <2>3. QED
    BY <1>0, <2>1, <2>2 DEF LockInv
<1>3. ASSUME NEW p \in todo, TakePartial(p) PROVE LockInv'
  <2> DEFINE row == Managed(p, StopAtEntry, TRUE)
  <2>1. /\ p \in DOMAIN positions /\ UNCHANGED positions
        /\ work' = [pos |-> p, row |-> row]
    BY <1>3, Found DEF TakePartial
  <2>2. Locked(row)
    BY <1>0, <2>1 DEF Locked, Managed, Position, StopAtEntry
  <2>3. QED
    BY <1>0, <2>1, <2>2 DEF LockInv
<1>4. ASSUME NEW p \in todo, MarkPosition(p) PROVE LockInv'
  <2> DEFINE row == Managed(p, LockedStop(p), positions[p].tp1_done)
  <2>1. /\ p \in DOMAIN positions /\ Mfe(p) \in Nat /\ LockedStop(p) \in Int
        /\ work = NoWork /\ UNCHANGED work
    BY <1>0, <1>4, Found, VisitComputes DEF MarkPosition, Visiting
  <2>2. Locked(row)
    BY <1>0, <1>4, <2>1, MarkLocks
  <2>3. row \in Position
    BY <1>0, <2>1, ManagedRow DEF Position
  <2>4. positions' = [positions EXCEPT ![p] = row]
    BY <1>4, <2>1 DEF MarkPosition
  <2> HIDE DEF row
  <2>5. /\ DOMAIN positions' = DOMAIN positions
        /\ positions'[p] = row
        /\ \A q \in DOMAIN positions : q # p => positions'[q] = positions[q]
    BY <1>0, <2>1, <2>3, <2>4, ReplaceRow
  <2>6. QED
    BY <1>0, <2>1, <2>2, <2>5 DEF LockInv
<1>5. CASE StorePosition
  <2>1. /\ work.pos \in DOMAIN positions /\ work.row \in Position /\ Locked(work.row)
        /\ positions' = [positions EXCEPT ![work.pos] = work.row]
        /\ work' = NoWork
    BY <1>0, <1>5 DEF StorePosition, TypeOK, LockInv
  <2>2. /\ DOMAIN positions' = DOMAIN positions
        /\ positions'[work.pos] = work.row
        /\ \A q \in DOMAIN positions : q # work.pos => positions'[q] = positions[q]
    BY <1>0, <2>1, ReplaceRow
  <2>3. QED
    BY <1>0, <2>1, <2>2 DEF LockInv
<1>6. CASE UNCHANGED positions /\ (UNCHANGED work \/ work' = NoWork)
  BY <1>6 DEF LockInv
<1>7. QED
  BY <1>1, <1>2, <1>3, <1>4, <1>5, <1>6
     DEF Next, PassStep, Visit, MarketMoves, BeginPass, SkipPosition, GiveBack,
         CutShort, vars

-----------------------------------------------------------------------------
(* The theorems.                                                           *)

\* The inductive invariant of the broker.
THEOREM BrokerInvHolds == Spec => []BrokerInv
BY InitHolds, StepKeeps, PTL DEF Spec

\* Every variable keeps its type.
THEOREM BrokerTypesHold == Spec => []TypeOK
<1>1. BrokerInv => TypeOK
  BY DEF BrokerInv
<1>2. QED
  BY <1>1, BrokerInvHolds, PTL

\* Wherever the passes of manage() are cut short, a closed position has its trade.
THEOREM ClosedPositionsAreBooked == Spec => []ClosedIsBooked
<1>1. BrokerInv => ClosedIsBooked
  BY DEF BrokerInv
<1>2. QED
  BY <1>1, BrokerInvHolds, PTL

\* An exit is booked again only for a cut between its two commits.
THEOREM RepeatsAreBounded == Spec => []RepeatsNeedACut
<1>1. BrokerInv => RepeatsNeedACut
  BY DEF BrokerInv, RepeatsNeedACut, FullCount, PartialCount
<1>2. QED
  BY <1>1, BrokerInvHolds, PTL

\* Whatever a step does to a position whose partial exit is not taken after it, it does
\* not loosen its stop.
THEOREM StopsTighten == Spec => StopsOnlyTighten
<1> DEFINE Tighter == \A p \in DOMAIN positions :
                         positions'[p].tp1_done \/ positions'[p].stop >= positions[p].stop
<1>1. ASSUME BrokerInv, [Next]_vars PROVE [Tighter]_positions
  <2>1. \A p \in DOMAIN positions : positions[p] \in Position /\ positions[p].stop \in Int
    <3>1. \A p \in DOMAIN positions : positions[p] \in Position
      BY <1>1 DEF BrokerInv, TypeOK
    <3>2. QED
      BY <3>1 DEF Position
  <2>2. CASE UNCHANGED positions
    BY <2>2
  <2>3. CASE \E s \in Symbols : OpenFromDecision(s)
    <3>1. PICK s \in Symbols : OpenFromDecision(s)
      BY <2>3
    <3> DEFINE row == [symbol |-> s, status |-> "OPEN", stop |-> InitialStop,
                       tp1_done |-> FALSE, mfe |-> 0]
    <3>2. row \in Position /\ positions \in Seq(Position)
          /\ positions' = Append(positions, row)
      BY <1>1, <3>1 DEF Position, InitialStop, BrokerInv, TypeOK, OpenFromDecision
    <3> HIDE DEF row
    <3>3. \A p \in DOMAIN positions : positions'[p] = positions[p]
      BY <3>2, AppendRow
    <3>4. QED
      BY <2>1, <3>3
  <2>4. ASSUME NEW p \in todo, MarkPosition(p) PROVE Tighter
    <3> DEFINE row == Managed(p, LockedStop(p), positions[p].tp1_done)
    <3>1. /\ TypeOK /\ p \in DOMAIN positions
          /\ Mfe(p) \in Nat /\ LockedStop(p) \in Int
          /\ LockedStop(p) >= positions[p].stop
      BY <1>1, <2>4, Found, VisitComputes DEF BrokerInv, MarkPosition
    <3>2. row \in Position /\ row.stop = LockedStop(p)
      BY <2>1, <3>1, ManagedRow DEF Position
    <3>3. positions' = [positions EXCEPT ![p] = row]
      BY <2>4, <3>1 DEF MarkPosition
    <3> HIDE DEF row
    <3>4. /\ positions'[p] = row
          /\ \A q \in DOMAIN positions : q # p => positions'[q] = positions[q]
      BY <3>1, <3>2, <3>3, ReplaceRow DEF TypeOK
    <3>5. QED
      BY <2>1, <3>1, <3>2, <3>4
  <2>5. CASE StorePosition
    <3>1. /\ TypeOK /\ work.pos \in DOMAIN positions /\ work.row \in Position
          /\ work.row.tp1_done \/ work.row.stop >= positions[work.pos].stop
          /\ positions' = [positions EXCEPT ![work.pos] = work.row]
      BY <1>1, <2>5 DEF StorePosition, BrokerInv, TypeOK, WorkInv
    <3>2. /\ positions'[work.pos] = work.row
          /\ \A q \in DOMAIN positions : q # work.pos => positions'[q] = positions[q]
      BY <3>1, ReplaceRow DEF TypeOK
    <3>3. QED
      BY <2>1, <3>1, <3>2
  <2>6. QED
    BY <1>1, <2>2, <2>3, <2>4, <2>5
       DEF Next, PassStep, Visit, MarketMoves, BeginPass, SkipPosition, TakeExit,
           TakePartial, GiveBack, CutShort, vars
<1>2. QED
  BY <1>1, BrokerInvHolds, PTL DEF Spec, StopsOnlyTighten
\* However often a giveback is taken again, it is taken beyond the entry: above a stop
\* that the profit lock has moved there.
THEOREM GivebacksAreLocked == Spec => GivebackIsLocked
<1> DEFINE Taken(p) == trades'[p]["giveback"] # trades[p]["giveback"]
           Beyond(p) == positions[p].stop > StopAtEntry /\ PriceOf(p) > positions[p].stop
           AllBeyond == \A p \in DOMAIN trades : Taken(p) => Beyond(p)
<1>1. ASSUME BrokerInv, LockInv, [Next]_vars PROVE [AllBeyond]_trades
  <2>1. TypeOK /\ DOMAIN trades = DOMAIN positions
    BY <1>1 DEF BrokerInv, TypeOK
  <2>2. ASSUME NEW p \in todo, GiveBack(p) PROVE AllBeyond
    <3>1. /\ p \in DOMAIN positions /\ positions[p] \in Position
          /\ Visiting(p) /\ Risk(p) > 0
          /\ ~StopHit(p) /\ GiveBackDue(p)
      BY <1>1, <2>2, Found DEF GiveBack
    <3>2. /\ positions[p].stop \in Int /\ positions[p].mfe \in Nat
          /\ PriceOf(p) \in Int
      BY <2>1, <3>1, BrokerAssumption DEF PriceOf, TypeOK, Visiting, Position
    <3>3. R(p) \in Int
      BY <3>1, <3>2 DEF R, Risk
    <3>4. positions[p].mfe >= 120
      BY <3>1, <3>2, <3>3 DEF GiveBackDue, Mfe, Larger
    <3>5. positions[p].stop >= StopAtEntry
      BY <1>1, <3>1, <3>2, <3>4 DEF LockInv, Locked
    <3>6. positions[p].stop # StopAtEntry
      BY <3>1 DEF Risk, StopAtEntry
    <3>7. Beyond(p)
      BY <3>1, <3>2, <3>5, <3>6 DEF StopHit, StopAtEntry
    <3>8. \A q \in DOMAIN trades : q # p => ~Taken(q)
      BY <2>1, <2>2, <3>1, TradeWritten DEF GiveBack, Kinds
    <3>9. QED
      BY <3>7, <3>8
  <2>3. ASSUME NEW p \in todo, NEW kind \in {"full", "partial"}, RecordTrade(p, kind)
        PROVE  AllBeyond
    <3>1. p \in DOMAIN positions /\ "giveback" \in Kinds /\ kind \in Kinds
          /\ kind # "giveback"
      BY <1>1, Found DEF Kinds
    <3>2. \A q \in DOMAIN trades : ~Taken(q)
      BY <2>1, <2>3, <3>1, TradeWritten
    <3>3. QED
      BY <3>2
  <2>4. CASE \E s \in Symbols : OpenFromDecision(s)
    <3>1. /\ trades \in Seq([Kinds -> 0 .. MaxCount])
          /\ trades' = Append(trades, [k \in Kinds |-> 0])
      BY <2>1, <2>4 DEF OpenFromDecision, TypeOK
    <3>2. [k \in Kinds |-> 0] \in [Kinds -> 0 .. MaxCount]
      BY BrokerAssumption
    <3> DEFINE none == [k \in Kinds |-> 0]
    <3> HIDE DEF none
    <3>3. \A q \in DOMAIN trades : trades'[q] = trades[q]
      BY <3>1, <3>2, AppendRow DEF none
    <3>4. QED
      BY <3>3
  <2>5. CASE UNCHANGED trades
    BY <2>5
  <2> HIDE DEF AllBeyond
  <2>6. QED
    BY <1>1, <2>2, <2>3, <2>4, <2>5
       DEF Next, PassStep, Visit, MarketMoves, BeginPass, SkipPosition, TakeExit,
           TakePartial, MarkPosition, StorePosition, CutShort, vars
<1>2. AllBeyond <=> (\A p \in DOMAIN trades :
          trades'[p]["giveback"] # trades[p]["giveback"] =>
              positions[p].stop > StopAtEntry /\ PriceOf(p) > positions[p].stop)
  OBVIOUS
<1>3. Spec => []LockInv
  BY LockInit, LockKeeps, BrokerInvHolds, PTL DEF Spec
<1>4. QED
  BY <1>1, <1>2, <1>3, BrokerInvHolds, PTL DEF Spec, GivebackIsLocked
=============================================================================
