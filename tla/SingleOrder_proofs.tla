------------------------- MODULE SingleOrder_proofs -------------------------
(***************************************************************************)
(* Proofs about SingleOrder, whatever the results of the canaries and the  *)
(* samples the verdicts ask for: there is one order at a time and one a    *)
(* day, losses are cut, and a cooldown with nothing open is for good.      *)
(***************************************************************************)
EXTENDS SingleOrder, TableLemmas

-----------------------------------------------------------------------------
(* The inductive invariant, in two layers: the second tells of the losses. *)

RoomInv == TypeOK /\ OneOrder /\ RoomIsKept

-----------------------------------------------------------------------------
(* Lemmas.                                                                 *)

\* The verdicts are verdicts.
LEMMA VerdictsAreBoolean == CoolingDown \in BOOLEAN /\ KpiBlocks \in BOOLEAN
<1>1. CoolingDown \in BOOLEAN
  BY Zenon DEF CoolingDown
<1>2. KpiBlocks \in BOOLEAN
  BY Zenon DEF KpiBlocks
<1>3. QED
  BY <1>1, <1>2

\* The verdicts, and what is open, are functions of the table.
LEMMA VerdictsOfTheTable ==
    ASSUME UNCHANGED rows
    PROVE  OpenIds' = OpenIds /\ CoolingDown' = CoolingDown /\ KpiBlocks' = KpiBlocks
<1>1. OpenIds' = OpenIds
  BY Zenon DEF OpenIds
<1>2. Results' = Results
  BY Zenon DEF Results
<1>3. CoolingDown' = CoolingDown
  <2>1. LossStreak' = LossStreak
    BY Zenon DEF LossStreak, LossesThrough
  <2>2. QED
    BY <1>2, <2>1, Zenon DEF CoolingDown, Latest
<1>4. KpiBlocks' = KpiBlocks
  BY <1>2, Zenon DEF KpiBlocks
<1>5. QED
  BY <1>1, <1>3, <1>4

\* A row that is closed, or written over as open as it was, opens nothing.
LEMMA NothingOpens ==
    ASSUME TypeOK, NEW id \in DOMAIN rows, NEW row \in Row,
           row.open => rows[id].open, rows' = [rows EXCEPT ![id] = row]
    PROVE  /\ rows' \in Seq(Row) /\ DOMAIN rows' = DOMAIN rows /\ Len(rows') = Len(rows)
           /\ OpenIds' \subseteq OpenIds
<1>1. rows \in Seq(Row)
  BY DEF TypeOK
<1>2. /\ rows' \in Seq(Row) /\ DOMAIN rows' = DOMAIN rows
      /\ rows'[id] = row /\ \A j \in DOMAIN rows : j # id => rows'[j] = rows[j]
  BY <1>1, ReplaceRow
<1>3. Len(rows') = Len(rows)
  BY <1>1, <1>2, LenProperties
<1>4. OpenIds' \subseteq OpenIds
  BY <1>2 DEF OpenIds
<1>5. QED
  BY <1>2, <1>3, <1>4

\* Fewer open canaries keep the single order.
LEMMA FewerOpen ==
    ASSUME TypeOK, OneOrder, OpenIds' \subseteq OpenIds
    PROVE  Cardinality(OpenIds') <= 1
<1>1. IsFiniteSet(OpenIds)
  BY RowsAreFinite, OpenIds \subseteq DOMAIN rows DEF TypeOK, OpenIds
<1>2. QED
  BY <1>1, CountNoMore, 1 \in Nat DEF OneOrder

-----------------------------------------------------------------------------
(* The invariant is inductive.                                             *)

\* The initial states.
LEMMA InitInv == ASSUME Init PROVE RoomInv
<1>1. OpenIds = {}
  BY DEF Init, OpenIds
<1>2. TypeOK
  <2>1. rows \in Seq(Row) /\ Len(rows) <= MaxRows /\ openedToday \in Nat
    BY OrderAssumption DEF Init
  <2>2. {cooling, weak, clear, allow} \subseteq BOOLEAN
    BY DEF Init
  <2>3. pc \in Stages /\ pc # "write" /\ held = None
    BY DEF Init, Stages
  <2>4. QED
    BY <2>1, <2>2, <2>3 DEF TypeOK
<1>3. OneOrder
  BY <1>1, FS_EmptySet DEF Init, OneOrder
<1>4. RoomIsKept
  BY DEF Init, RoomIsKept
<1>5. QED
  BY <1>2, <1>3, <1>4 DEF RoomInv

\* A stage that leaves the table, the day's count and the row in hand alone.
LEMMA StageInv ==
    ASSUME RoomInv, UNCHANGED <<rows, openedToday, held>>,
           {cooling, weak, clear, allow}' \subseteq BOOLEAN,
           pc' \in Stages, pc # "write", pc' # "write",
           pc' = "insert" => OpenIds = {} /\ DayIsFree
    PROVE  RoomInv'
<1>1. OpenIds' = OpenIds
  BY VerdictsOfTheTable
<1>2. TypeOK'
  BY DEF RoomInv, TypeOK
<1>3. OneOrder'
  BY <1>1 DEF RoomInv, OneOrder
<1>4. RoomIsKept'
  BY <1>1 DEF RoomIsKept, DayIsFree
<1>5. QED
  BY <1>2, <1>3, <1>4 DEF RoomInv

\* Every step of the runtime, of the manager and of the clock.
LEMMA NextInv == ASSUME RoomInv, [Next]_vars PROVE RoomInv'
<1> USE DEF RoomInv
<1> USE OrderAssumption
<1>t. {cooling, weak, clear, allow} \subseteq BOOLEAN
  BY DEF TypeOK
<1>1. CASE Feedback
  <2>1. {cooling, weak, clear, allow}' \subseteq BOOLEAN
    BY <1>1, <1>t, VerdictsAreBoolean DEF Feedback
  <2>2. /\ UNCHANGED <<rows, openedToday, held>> /\ pc' \in Stages
        /\ pc # "write" /\ pc' # "write" /\ pc' # "insert"
    BY <1>1 DEF Feedback, Stages
  <2>3. QED
    BY <2>1, <2>2, StageInv
<1>2. CASE Kpi
  <2>1. {cooling, weak, clear, allow}' \subseteq BOOLEAN
    BY <1>2, <1>t, VerdictsAreBoolean DEF Kpi
  <2>2. /\ UNCHANGED <<rows, openedToday, held>> /\ pc' \in Stages
        /\ pc # "write" /\ pc' # "write" /\ pc' # "insert"
    BY <1>2 DEF Kpi, Stages
  <2>3. QED
    BY <2>1, <2>2, StageInv
<1>3. CASE Guard
  <2>1. {cooling, weak, clear, allow}' \subseteq BOOLEAN
    BY <1>3, <1>t DEF Guard
  <2>2. /\ UNCHANGED <<rows, openedToday, held>> /\ pc' \in Stages
        /\ pc # "write" /\ pc' # "write" /\ pc' # "insert"
    BY <1>3 DEF Guard, Stages
  <2>3. QED
    BY <2>1, <2>2, StageInv
<1>4. CASE Control
  <2>1. {cooling, weak, clear, allow}' \subseteq BOOLEAN
    BY <1>4, <1>t DEF Control, Decide
  <2>2. /\ UNCHANGED <<rows, openedToday, held>> /\ pc' \in Stages
        /\ pc # "write" /\ pc' # "write" /\ pc' # "insert"
    BY <1>4 DEF Control, Decide, Stages
  <2>3. QED
    BY <2>1, <2>2, StageInv
<1>5. CASE Manage
  <2>1. PICK id \in OpenIds, close \in BOOLEAN, net \in Outcomes :
           held' = [id |-> id, close |-> close, net |-> net]
    BY <1>5 DEF Manage
  <2>2. id \in DOMAIN rows /\ id \in Nat
    BY LenProperties DEF OpenIds, TypeOK
  <2>3. held' \in Write /\ held' # None /\ held'.id = id
    BY <2>1, <2>2 DEF Write
  <2>4. UNCHANGED <<rows, openedToday, verdictVars>> /\ pc' = "write"
    BY <1>5 DEF Manage
  <2>5. TypeOK'
    BY <2>2, <2>3, <2>4 DEF TypeOK, Stages, verdictVars
  <2>6. OneOrder' /\ RoomIsKept'
    BY <2>4, VerdictsOfTheTable DEF OneOrder, RoomIsKept
  <2>7. QED
    BY <2>5, <2>6
<1>6. CASE WriteManaged
  <2>1. PICK id : id = held.id
    OBVIOUS
  <2>2. PICK row : row = [open |-> rows[id].open /\ ~held.close, net |-> held.net]
    OBVIOUS
  <2>3. /\ pc = "write" /\ pc' = "open" /\ held' = None
        /\ UNCHANGED <<openedToday, verdictVars>>
        /\ rows' = [rows EXCEPT ![id] = row]
    BY <1>6, <2>1, <2>2 DEF WriteManaged
  <2>4. held \in Write /\ id \in DOMAIN rows
    BY <2>1, <2>3 DEF TypeOK
  <2>5. row \in Row /\ (row.open => rows[id].open)
    BY <2>2, <2>4 DEF Row, Write
  <2>6. /\ rows' \in Seq(Row) /\ DOMAIN rows' = DOMAIN rows /\ Len(rows') = Len(rows)
        /\ OpenIds' \subseteq OpenIds
    BY <2>3, <2>4, <2>5, NothingOpens
  <2>7. TypeOK'
    BY <2>3, <2>6 DEF TypeOK, Stages, verdictVars
  <2>8. OneOrder' /\ RoomIsKept'
    BY <2>3, <2>6, FewerOpen DEF OneOrder, RoomIsKept
  <2>9. QED
    BY <2>7, <2>8
<1>7. CASE LeaveUnmanaged
  <2>1. /\ UNCHANGED <<rows, openedToday, held, verdictVars>> /\ pc' \in Stages
        /\ pc # "write" /\ pc' # "write" /\ pc' # "insert"
    BY <1>7 DEF LeaveUnmanaged, Stages
  <2>2. QED
    BY <1>t, <2>1, StageInv DEF verdictVars
<1>8. CASE FindRoom
  <2>1. /\ UNCHANGED <<rows, openedToday, held, verdictVars>> /\ pc' \in Stages
        /\ pc # "write" /\ pc' # "write" /\ OpenIds = {} /\ DayIsFree
    BY <1>8 DEF FindRoom, Stages
  <2>2. QED
    BY <1>t, <2>1, StageInv DEF verdictVars
<1>9. CASE LeaveUnopened
  <2>1. /\ UNCHANGED <<rows, openedToday, held, verdictVars>> /\ pc' \in Stages
        /\ pc # "write" /\ pc' # "write" /\ pc' # "insert"
    BY <1>9 DEF LeaveUnopened, Stages
  <2>2. QED
    BY <1>t, <2>1, StageInv DEF verdictVars
<1>10. CASE Insert
  <2>1. PICK row : row = [open |-> TRUE, net |-> EntryNet]
    OBVIOUS
  <2>2. row \in Row
    BY <2>1 DEF Row
  <2>3. /\ pc = "insert" /\ pc' = "report" /\ Len(rows) < MaxRows
        /\ rows' = Append(rows, row) /\ openedToday' = openedToday + 1
        /\ UNCHANGED <<verdictVars, held>>
    BY <1>10, <2>1 DEF Insert
  <2>4. /\ rows' \in Seq(Row) /\ Len(rows') = Len(rows) + 1
        /\ DOMAIN rows' = DOMAIN rows \union {Len(rows) + 1}
        /\ \A j \in DOMAIN rows : rows'[j] = rows[j]
    BY <2>2, <2>3, AppendRow, AppendProperties DEF TypeOK
  <2>5. TypeOK'
    BY <2>3, <2>4, LenProperties DEF TypeOK, Stages, verdictVars
  <2>6. OpenIds' \subseteq {Len(rows) + 1}
    BY <2>3, <2>4 DEF RoomIsKept, OpenIds
  <2>7. Cardinality(OpenIds') <= 1
    <3>1. OpenIds' = {} \/ OpenIds' = {Len(rows) + 1}
      BY <2>6
    <3>2. Cardinality({}) = 0 /\ Cardinality({Len(rows) + 1}) = 1
      BY FS_EmptySet, FS_Singleton
    <3>3. PICK n : n = Cardinality(OpenIds')
      OBVIOUS
    <3>4. n = 0 \/ n = 1
      BY <3>1, <3>2, <3>3, Zenon
    <3>5. QED
      BY <3>3, <3>4
  <2>8. openedToday' <= 1
    BY <2>3 DEF RoomIsKept, DayIsFree, TypeOK
  <2>9. QED
    BY <2>3, <2>5, <2>7, <2>8 DEF OneOrder, RoomIsKept
<1>11. CASE Abort
  <2>1. /\ UNCHANGED <<rows, openedToday, verdictVars>> /\ pc' = "feedback" /\ held' = None
    BY <1>11 DEF Abort
  <2>2. TypeOK'
    BY <2>1 DEF TypeOK, Stages, verdictVars
  <2>3. OneOrder' /\ RoomIsKept'
    BY <2>1, VerdictsOfTheTable DEF OneOrder, RoomIsKept
  <2>4. QED
    BY <2>2, <2>3
<1>12. CASE ManagerCloses
  <2>1. PICK id \in OpenIds, net \in Outcomes :
           rows' = [rows EXCEPT ![id] = [open |-> FALSE, net |-> net]]
    BY <1>12 DEF ManagerCloses
  <2>2. PICK row : row = [open |-> FALSE, net |-> net]
    OBVIOUS
  <2>3. row \in Row /\ ~row.open /\ id \in DOMAIN rows
    BY <2>2 DEF Row, OpenIds
  <2>4. rows' = [rows EXCEPT ![id] = row] /\ UNCHANGED <<openedToday, verdictVars, pc, held>>
    BY <1>12, <2>1, <2>2 DEF ManagerCloses
  <2>5. /\ rows' \in Seq(Row) /\ DOMAIN rows' = DOMAIN rows /\ Len(rows') = Len(rows)
        /\ OpenIds' \subseteq OpenIds
    BY <2>3, <2>4, NothingOpens
  <2>6. TypeOK'
    BY <2>4, <2>5 DEF TypeOK, verdictVars
  <2>7. OneOrder'
    BY <2>4, <2>5, FewerOpen DEF OneOrder
  <2>8. RoomIsKept'
    BY <2>4, <2>5 DEF RoomIsKept, DayIsFree
  <2>9. QED
    BY <2>6, <2>7, <2>8
<1>13. CASE Tick
  <2>1. openedToday' = 0 /\ UNCHANGED <<rows, verdictVars, pc, held>>
    BY <1>13 DEF Tick
  <2>2. TypeOK'
    BY <2>1 DEF TypeOK, verdictVars
  <2>3. OneOrder' /\ RoomIsKept'
    BY <2>1, VerdictsOfTheTable DEF OneOrder, RoomIsKept, DayIsFree
  <2>4. QED
    BY <2>2, <2>3
<1>14. CASE UNCHANGED vars
  <2>1. UNCHANGED <<rows, openedToday, pc, held, cooling, weak, clear, allow>>
    BY <1>14 DEF vars, verdictVars
  <2>2. TypeOK'
    BY <2>1 DEF TypeOK
  <2>3. OneOrder' /\ RoomIsKept'
    BY <2>1, VerdictsOfTheTable DEF OneOrder, RoomIsKept, DayIsFree
  <2>4. QED
    BY <2>2, <2>3
<1>15. QED
  BY <1>1, <1>2, <1>3, <1>4, <1>5, <1>6, <1>7, <1>8, <1>9, <1>10, <1>11, <1>12,
     <1>13, <1>14 DEF Next

-----------------------------------------------------------------------------
(* The losses.                                                             *)

LossInv == RoomInv /\ LatestIsOpen /\ LossesAreKnown

\* The streaks are counts.
LEMMA StreaksAreNumbers ==
    ASSUME NEW m \in Int
    PROVE  IsFiniteSet(LossesThrough(m)) /\ Cardinality(LossesThrough(m)) \in Nat
<1>1. LossesThrough(m) \in SUBSET (1 .. m)
  BY DEF LossesThrough
<1>2. IsFiniteSet(1 .. m)
  BY FS_Interval
<1>3. QED
  BY <1>1, <1>2, FS_Subset, FS_CardinalityType

\* The latest canary adds at most one loss.
LEMMA LatestAddsOne ==
    ASSUME NEW m \in Nat
    PROVE  Cardinality(LossesThrough(m)) <= Cardinality(LossesThrough(m - 1)) + 1
<1> DEFINE A == LossesThrough(m)
           B == LossesThrough(m - 1)
<1>1. A \in SUBSET (B \union {m})
  <2>1. SUFFICES ASSUME NEW r \in A, r # m PROVE r \in B
    OBVIOUS
  <2>2. r \in 1 .. m - 1 /\ \A q \in r .. m - 1 : q \in r .. m
    BY <2>1 DEF LossesThrough
  <2>3. QED
    BY <2>2 DEF LossesThrough
<1>2. IsFiniteSet(B) /\ Cardinality(B) \in Nat /\ Cardinality(A) \in Nat
  BY StreaksAreNumbers
<1> HIDE DEF A, B
<1>3. /\ IsFiniteSet(B \union {m})
      /\ Cardinality(B \union {m}) \in Nat /\ Cardinality(B \union {m}) <= Cardinality(B) + 1
  <2>1. /\ IsFiniteSet(B \union {m})
        /\ Cardinality(B \union {m})
             = IF m \in B THEN Cardinality(B) ELSE Cardinality(B) + 1
    BY <1>2, FS_AddElement
  <2>2. QED
    BY <1>2, <2>1
<1>4. Cardinality(A) <= Cardinality(B \union {m})
  BY <1>1, <1>3, FS_Subset
<1>5. QED
  BY <1>2, <1>3, <1>4 DEF A, B

\* While the latest canary is open, its result does not count yet.
LEMMA OpenIsNoLoss ==
    ASSUME NEW m \in Nat \ {0}, rows[m].open
    PROVE  LossesThrough(m) = LossesThrough(m - 1)
<1>1. \A r \in 1 .. m : r \in 1 .. m - 1 \/ r = m
  OBVIOUS
<1>2. \A r \in 1 .. m - 1 : \A q \in r .. m : q \in r .. m - 1 \/ q = m
  OBVIOUS
<1>3. \A r \in 1 .. m - 1 : r \in 1 .. m /\ \A q \in r .. m - 1 : q \in r .. m
  OBVIOUS
<1>4. LossesThrough(m) \subseteq LossesThrough(m - 1)
  BY <1>1, <1>3 DEF LossesThrough
<1>5. LossesThrough(m - 1) \subseteq LossesThrough(m)
  BY <1>2, <1>3 DEF LossesThrough
<1>6. QED
  BY <1>4, <1>5

\* The losses through a row depend on the rows up to it.
LEMMA LossesOfRows ==
    ASSUME NEW m \in Int, \A q \in 1 .. m : rows'[q] = rows[q]
    PROVE  LossesThrough(m)' = LossesThrough(m)
<1>1. \A r \in 1 .. m : \A q \in r .. m : q \in 1 .. m
  OBVIOUS
<1>2. QED
  BY <1>1 DEF LossesThrough

\* What V11 may have lost in a row.
LEMMA LossesAreBounded ==
    ASSUME LossInv
    PROVE  LossesAreCut
<1>1. Len(rows) \in Nat
  BY LenProperties DEF LossInv, RoomInv, TypeOK
<1>2. /\ Cardinality(LossesThrough(Len(rows))) \in Nat
      /\ Cardinality(LossesThrough(Len(rows) - 1)) \in Nat
  BY <1>1, StreaksAreNumbers
<1>3. QED
  BY <1>1, <1>2, LatestAddsOne, OrderAssumption DEF LossInv, LossesAreKnown, LossesAreCut, LossStreak

\* The initial states.
LEMMA InitLosses == ASSUME Init PROVE LossInv
<1>1. rows = << >> /\ Len(rows) = 0 /\ OpenIds = {} /\ pc = "feedback"
  BY DEF Init, OpenIds
<1>2. LossesThrough(Len(rows) - 1) = {}
  BY <1>1 DEF LossesThrough
<1>3. Cardinality(LossesThrough(Len(rows) - 1)) <= LossLimit
  <2>1. Cardinality(LossesThrough(Len(rows) - 1)) = 0
    BY <1>2, FS_EmptySet, Zenon
  <2>2. LossLimit \in Nat
    BY OrderAssumption
  <2>3. QED
    BY <2>1, <2>2
<1>4. QED
  BY <1>1, <1>3, InitInv DEF LossInv, LatestIsOpen, LossesAreKnown

\* Writing over the latest canary, closed or as open as it was, leaves the losses
\* before it as they were.
LEMMA LatestChanges ==
    ASSUME LossInv, NEW row \in Row, Len(rows) \in DOMAIN rows,
           row.open => rows[Len(rows)].open,
           rows' = [rows EXCEPT ![Len(rows)] = row]
    PROVE  /\ Len(rows') = Len(rows) /\ OpenIds' \subseteq OpenIds
           /\ Cardinality(LossesThrough(Len(rows) - 1))' <= LossLimit
<1>1. /\ TypeOK /\ rows \in Seq(Row) /\ Len(rows) \in Nat /\ DOMAIN rows = 1 .. Len(rows)
  BY LenProperties DEF LossInv, RoomInv, TypeOK
<1>2. Len(rows') = Len(rows) /\ OpenIds' \subseteq OpenIds
  BY <1>1, NothingOpens
<1>3. PICK m \in Int : m = Len(rows) - 1
  <2>1. Len(rows) - 1 \in Int
    BY <1>1
  <2>2. QED
    BY <2>1, Zenon
<1>4. \A q \in 1 .. m : rows'[q] = rows[q]
  BY <1>1, <1>3, ReplaceRow
<1>5. LossesThrough(m)' = LossesThrough(m)
  BY <1>4, LossesOfRows
<1>6. Cardinality(LossesThrough(m))' <= LossLimit
  BY <1>3, <1>5 DEF LossInv, LossesAreKnown
<1>7. QED
  BY <1>2, <1>3, <1>6

\* A step that leaves the table and the row in hand alone.
LEMMA QuietLosses ==
    ASSUME LossInv, RoomInv', UNCHANGED rows,
           pc' = "write" => held'.id = Len(rows) /\ ~allow',
           pc' \in {"manage", "open"} /\ allow' => OpenIds = {} /\ LossStreak <= LossLimit,
           pc' \in {"kpi", "guard", "control"} /\ ~cooling' =>
              LossStreak + Cardinality(OpenIds) <= LossLimit,
           pc' = "insert" => LossStreak <= LossLimit
    PROVE  LossInv'
<1>1. OpenIds' = OpenIds /\ rows' = rows /\ Len(rows') = Len(rows)
  BY VerdictsOfTheTable
<1>2. LossStreak' = LossStreak
  BY <1>1 DEF LossStreak, LossesThrough
<1>3. Cardinality(LossesThrough(Len(rows) - 1))' = Cardinality(LossesThrough(Len(rows) - 1))
  BY <1>1 DEF LossesThrough
<1>4. LatestIsOpen'
  BY <1>1 DEF LossInv, LatestIsOpen
<1>5. LossesAreKnown'
  BY <1>1, <1>2, <1>3 DEF LossInv, LossesAreKnown
<1>6. QED
  BY <1>4, <1>5 DEF LossInv

\* Every step keeps what is known of the losses.
LEMMA NextLosses == ASSUME LossInv, [Next]_vars PROVE LossInv'
<1>1. RoomInv'
  BY NextInv DEF LossInv
<1>2. /\ rows \in Seq(Row) /\ Len(rows) \in Nat /\ DOMAIN rows = 1 .. Len(rows)
      /\ LossLimit \in Nat /\ pc \in Stages
      /\ cooling \in BOOLEAN /\ allow \in BOOLEAN
  BY LenProperties, OrderAssumption DEF LossInv, RoomInv, TypeOK
<1>3. /\ LossStreak \in Nat /\ Cardinality(OpenIds) \in Nat
      /\ Cardinality(LossesThrough(Len(rows) - 1)) \in Nat
  <2>1. Len(rows) \in Int /\ Len(rows) - 1 \in Int
    BY <1>2
  <2>2. LossStreak \in Nat
    BY <2>1, StreaksAreNumbers DEF LossStreak
  <2>3. Cardinality(LossesThrough(Len(rows) - 1)) \in Nat
    BY <2>1, StreaksAreNumbers
  <2>4. OpenIds \subseteq DOMAIN rows /\ IsFiniteSet(DOMAIN rows)
    BY <1>2, RowsAreFinite DEF OpenIds
  <2>5. Cardinality(OpenIds) \in Nat
    BY <2>4, FS_Subset, FS_CardinalityType
  <2>6. QED
    BY <2>2, <2>3, <2>5
<1>4. Cardinality(OpenIds) <= 1
  BY DEF LossInv, RoomInv, OneOrder
<1>5. OpenIds = {} => Cardinality(OpenIds) = 0
  BY FS_EmptySet
<1>6. CASE Feedback
  <2>1. UNCHANGED rows /\ pc' \in {"kpi", "reportKpi"} /\ cooling' = CoolingDown
    BY <1>6 DEF Feedback
  <2>2. ~CoolingDown => LossStreak < LossLimit
    BY <1>2, <1>3 DEF CoolingDown
  <2>3. ~cooling' => LossStreak + Cardinality(OpenIds) <= LossLimit
    BY <1>2, <1>3, <1>4, <2>1, <2>2
  <2>4. QED
    BY <1>1, <2>1, <2>3, QuietLosses
<1>7. CASE Kpi
  <2>1. UNCHANGED <<rows, cooling>> /\ pc' \in {"guard", "feedback"}
        /\ (pc' = "guard" => pc = "kpi")
    BY <1>7 DEF Kpi
  <2>2. pc' \in {"kpi", "guard", "control"} /\ ~cooling' =>
           LossStreak + Cardinality(OpenIds) <= LossLimit
    BY <2>1 DEF LossInv, LossesAreKnown
  <2>3. QED
    BY <1>1, <2>1, <2>2, QuietLosses
<1>8. CASE Guard
  <2>1. UNCHANGED <<rows, cooling>> /\ pc' = "control" /\ pc = "guard"
    BY <1>8 DEF Guard
  <2>2. ~cooling' => LossStreak + Cardinality(OpenIds) <= LossLimit
    BY <2>1 DEF LossInv, LossesAreKnown
  <2>3. QED
    BY <1>1, <2>1, <2>2, QuietLosses
<1>9. CASE Control
  <2>1. /\ UNCHANGED rows /\ pc' = "manage" /\ pc = "control"
        /\ allow' => OpenIds = {} /\ ~cooling
    BY <1>9 DEF Control, Decide
  <2>2. allow' => LossStreak <= LossLimit
    BY <1>3, <1>5, <2>1 DEF LossInv, LossesAreKnown
  <2>3. QED
    BY <1>1, <2>1, <2>2, QuietLosses
<1>10. CASE Manage
  <2>1. PICK id \in OpenIds, close \in BOOLEAN, net \in Outcomes :
           held' = [id |-> id, close |-> close, net |-> net]
    BY <1>10 DEF Manage
  <2>2. UNCHANGED <<rows, allow>> /\ pc = "manage" /\ pc' = "write"
    BY <1>10 DEF Manage, verdictVars
  <2>3. held'.id = Len(rows) /\ ~allow'
    BY <2>1, <2>2 DEF LossInv, LatestIsOpen
  <2>4. QED
    BY <1>1, <2>2, <2>3, QuietLosses
<1>11. CASE WriteManaged
  <2>1. /\ pc = "write" /\ pc' = "open" /\ held.id = Len(rows) /\ ~allow /\ allow' = allow
        /\ held \in Write /\ Len(rows) \in DOMAIN rows
    BY <1>11 DEF WriteManaged, verdictVars, LossInv, LatestIsOpen, RoomInv, TypeOK
  <2>2. PICK row : row = [open |-> rows[Len(rows)].open /\ ~held.close, net |-> held.net]
    OBVIOUS
  <2>3. /\ row \in Row /\ (row.open => rows[Len(rows)].open)
        /\ rows' = [rows EXCEPT ![Len(rows)] = row]
    BY <1>11, <2>1, <2>2 DEF WriteManaged, Row, Write
  <2>4. /\ Len(rows') = Len(rows) /\ OpenIds' \subseteq OpenIds
        /\ Cardinality(LossesThrough(Len(rows) - 1))' <= LossLimit
    BY <2>1, <2>3, LatestChanges
  <2>5. LatestIsOpen'
    BY <2>1, <2>4 DEF LossInv, LatestIsOpen
  <2>6. LossesAreKnown'
    BY <2>1, <2>4 DEF LossesAreKnown
  <2>7. QED
    BY <1>1, <2>5, <2>6 DEF LossInv
<1>12. CASE LeaveUnmanaged
  <2>1. UNCHANGED <<rows, allow>> /\ pc = "manage" /\ pc' = "open"
    BY <1>12 DEF LeaveUnmanaged, verdictVars
  <2>2. allow' => OpenIds = {} /\ LossStreak <= LossLimit
    BY <2>1 DEF LossInv, LatestIsOpen, LossesAreKnown
  <2>3. QED
    BY <1>1, <2>1, <2>2, QuietLosses
<1>13. CASE FindRoom
  <2>1. UNCHANGED rows /\ pc = "open" /\ pc' = "insert" /\ allow
    BY <1>13 DEF FindRoom
  <2>2. LossStreak <= LossLimit
    BY <2>1 DEF LossInv, LossesAreKnown
  <2>3. QED
    BY <1>1, <2>1, <2>2, QuietLosses
<1>14. CASE LeaveUnopened
  <2>1. UNCHANGED rows /\ pc' = "report"
    BY <1>14 DEF LeaveUnopened
  <2>2. QED
    BY <1>1, <2>1, QuietLosses
<1>15. CASE Insert
  <2>1. PICK row : row = [open |-> TRUE, net |-> EntryNet]
    OBVIOUS
  <2>2. /\ row \in Row /\ rows' = Append(rows, row) /\ pc = "insert" /\ pc' = "report"
        /\ OpenIds = {}
    BY <1>15, <2>1 DEF Insert, Row, LossInv, RoomInv, RoomIsKept
  <2>3. /\ Len(rows') = Len(rows) + 1 /\ DOMAIN rows' = 1 .. Len(rows) + 1
        /\ \A j \in 1 .. Len(rows) : rows'[j] = rows[j]
    BY <1>2, <2>2, AppendProperties, AppendRow
  <2>4. OpenIds' \subseteq {Len(rows')}
    BY <1>2, <2>2, <2>3 DEF OpenIds
  <2>5. PICK m \in Nat : m = Len(rows)
    BY <1>2
  <2>6. LossesThrough(m)' = LossesThrough(m)
    BY <2>3, <2>5, LossesOfRows
  <2>7. Len(rows') - 1 = m
    BY <2>3, <2>5
  <2>8. Cardinality(LossesThrough(m)) <= LossLimit
    BY <2>2, <2>5 DEF LossInv, LossesAreKnown, LossStreak
  <2>9. Cardinality(LossesThrough(Len(rows) - 1))' <= LossLimit
    BY <2>6, <2>7, <2>8
  <2>10. LatestIsOpen' /\ LossesAreKnown'
    BY <2>2, <2>4, <2>9 DEF LatestIsOpen, LossesAreKnown
  <2>11. QED
    BY <1>1, <2>10 DEF LossInv
<1>16. CASE Abort
  <2>1. UNCHANGED rows /\ pc' = "feedback"
    BY <1>16 DEF Abort
  <2>2. QED
    BY <1>1, <2>1, QuietLosses
<1>17. CASE ManagerCloses
  <2>1. PICK id \in OpenIds, net \in Outcomes :
           rows' = [rows EXCEPT ![id] = [open |-> FALSE, net |-> net]]
    BY <1>17 DEF ManagerCloses
  <2>2. PICK row : row = [open |-> FALSE, net |-> net]
    OBVIOUS
  <2>3. /\ row \in Row /\ ~row.open /\ id = Len(rows) /\ id \in DOMAIN rows /\ rows[id].open
        /\ rows' = [rows EXCEPT ![id] = row]
        /\ UNCHANGED <<cooling, allow, pc, held>>
    BY <1>17, <2>1, <2>2 DEF ManagerCloses, Row, OpenIds, LossInv, LatestIsOpen, verdictVars
  <2>4. /\ Len(rows') = Len(rows) /\ OpenIds' \subseteq OpenIds
        /\ Cardinality(LossesThrough(Len(rows) - 1))' <= LossLimit
    BY <2>3, LatestChanges
  <2>5. OpenIds # {} /\ OpenIds = {Len(rows)} /\ Cardinality(OpenIds) = 1
    <3>1. OpenIds # {} /\ OpenIds \subseteq {Len(rows)}
      BY <2>1 DEF LossInv, LatestIsOpen
    <3>2. OpenIds = {Len(rows)}
      BY <3>1
    <3>3. QED
      BY <3>1, <3>2, FS_Singleton
  <2>6. OpenIds' = {} /\ Cardinality(OpenIds') = 0
    <3>1. id \notin OpenIds'
      BY <1>2, <2>3, ReplaceRow DEF OpenIds
    <3>2. OpenIds' = {}
      BY <2>3, <2>4, <2>5, <3>1
    <3>3. QED
      BY <3>2, FS_EmptySet
  <2>7. LossStreak' <= LossStreak + 1 /\ LossStreak' \in Nat
    <3>1. PICK m \in Nat \ {0} : m = Len(rows)
      BY <1>2, <2>3
    <3>2. LossesThrough(m) = LossesThrough(m - 1)
      BY <2>3, <3>1, OpenIsNoLoss
    <3>3. \A q \in 1 .. m - 1 : rows'[q] = rows[q]
      BY <1>2, <2>3, <3>1, ReplaceRow
    <3>4. LossesThrough(m - 1)' = LossesThrough(m - 1)
      BY <3>3, LossesOfRows
    <3>5. LossesThrough(m)' \in SUBSET (LossesThrough(m) \union {m})
      <4>1. SUFFICES ASSUME NEW r \in LossesThrough(m)', r # m PROVE r \in LossesThrough(m - 1)'
        BY <3>2, <3>4
      <4>2. r \in 1 .. m - 1 /\ \A q \in r .. m - 1 : q \in r .. m
        BY <4>1 DEF LossesThrough
      <4>3. QED
        BY <4>2 DEF LossesThrough
    <3>6. /\ IsFiniteSet(LossesThrough(m)) /\ Cardinality(LossesThrough(m)) \in Nat
          /\ LossesThrough(m)' \in SUBSET (1 .. m)
      BY StreaksAreNumbers DEF LossesThrough
    <3>7. PICK A : A = LossesThrough(m)
      OBVIOUS
    <3>8. PICK B : B = LossesThrough(m)'
      OBVIOUS
    <3>9. /\ IsFiniteSet(A \union {m})
          /\ Cardinality(A \union {m}) = IF m \in A THEN Cardinality(A) ELSE Cardinality(A) + 1
      BY <3>6, <3>7, FS_AddElement
    <3>10. Cardinality(B) <= Cardinality(A \union {m}) /\ IsFiniteSet(B)
      BY <3>5, <3>7, <3>8, <3>9, FS_Subset
    <3>11. Cardinality(B) \in Nat /\ Cardinality(A) \in Nat /\ Cardinality(B) <= Cardinality(A) + 1
      BY <3>6, <3>7, <3>9, <3>10, FS_CardinalityType
    <3>12. LossStreak = Cardinality(A) /\ LossStreak' = Cardinality(B)
      BY <2>4, <3>1, <3>7, <3>8 DEF LossStreak
    <3>13. QED
      BY <3>11, <3>12
  <2>8. LatestIsOpen'
    BY <2>3, <2>4, <2>6 DEF LossInv, LatestIsOpen
  <2>9. pc \in {"kpi", "guard", "control"} /\ ~cooling => LossStreak' + 0 <= LossLimit
    <3>1. SUFFICES ASSUME pc \in {"kpi", "guard", "control"}, ~cooling
                   PROVE  LossStreak' + 0 <= LossLimit
      OBVIOUS
    <3>2. LossStreak + Cardinality(OpenIds) <= LossLimit
      BY <3>1 DEF LossInv, LossesAreKnown
    <3>3. LossStreak + 1 <= LossLimit
      BY <2>5, <3>2
    <3>4. \A x, y \in Nat : x <= y + 1 /\ y + 1 <= LossLimit => x + 0 <= LossLimit
      BY <1>2
    <3>5. QED
      BY <1>3, <2>7, <3>3, <3>4
  <2>10. ~(pc \in {"manage", "open"} /\ allow) /\ pc # "insert"
    BY <2>5 DEF LossInv, LatestIsOpen, RoomInv, RoomIsKept
  <2>11. LossesAreKnown'
    BY <2>3, <2>4, <2>6, <2>9, <2>10 DEF LossesAreKnown
  <2>12. QED
    BY <1>1, <2>8, <2>11 DEF LossInv
<1>18. CASE Tick \/ UNCHANGED vars
  <2>1. UNCHANGED <<rows, pc, held, cooling, allow>>
    BY <1>18 DEF Tick, vars, verdictVars
  <2>2. QED
    BY <1>1, <2>1, QuietLosses DEF LossInv, LatestIsOpen, LossesAreKnown
<1>19. QED
  BY <1>6, <1>7, <1>8, <1>9, <1>10, <1>11, <1>12, <1>13, <1>14, <1>15, <1>16, <1>17,
     <1>18 DEF Next

-----------------------------------------------------------------------------
(* The theorems.                                                           *)

\* The runtime, the manager and the clock keep the invariant.
THEOREM OrderInvariant == Spec => []OrderInv
<1>1. Init => LossInv
  BY InitLosses
<1>2. LossInv /\ [Next]_vars => LossInv'
  BY NextLosses
<1>3. LossInv => OrderInv
  BY DEF LossInv, RoomInv, OrderInv
<1>4. QED
  BY <1>1, <1>2, <1>3, PTL DEF Spec

\* The cooldown of the feedback, decided on what may miss the last loss: one loss
\* more than the limit is the most in a row, whatever the other verdicts say.
THEOREM LossesAreLimited == Spec => []LossesAreCut
<1>1. OrderInv => LossesAreCut
  BY LossesAreBounded DEF LossInv, RoomInv, OrderInv
<1>2. QED
  BY <1>1, OrderInvariant, PTL

\* The bridge has a row of the table in hand exactly while it is about to write.
THEOREM TypeCorrect == Spec => []TypeOK
  BY OrderInvariant, PTL DEF OrderInv

\* Never two open canaries, and never two opened on one UTC day.
THEOREM OneOrderAtATime == Spec => []OneOrder
  BY OrderInvariant, PTL DEF OrderInv

\* With nothing open and the closed canaries against it, V11 stays out.
THEOREM CooldownStays == Spec => CooldownIsFinal
<1>1. ASSUME Retired, [Next]_vars PROVE Retired' /\ UNCHANGED rows
  <2> USE <1>1
  <2>1. UNCHANGED rows
    BY DEF Next, vars, verdictVars, Retired, Feedback, Kpi, Guard, Control, Decide, Manage,
           WriteManaged, LeaveUnmanaged, FindRoom, LeaveUnopened, Insert, Abort,
           ManagerCloses, Tick
  <2>2. OpenIds' = OpenIds /\ CoolingDown' = CoolingDown /\ KpiBlocks' = KpiBlocks
    BY <2>1, VerdictsOfTheTable
  <2>3. OpenIds' = {} /\ (CoolingDown' \/ KpiBlocks')
    BY <2>2 DEF Retired
  <2>4. pc' \notin {"write", "insert"}
    BY DEF Next, vars, Retired, Feedback, Kpi, Guard, Control, Decide, Manage,
           WriteManaged, LeaveUnmanaged, FindRoom, LeaveUnopened, Insert, Abort,
           ManagerCloses, Tick
  <2>5. pc' # "feedback" => cooling' = CoolingDown
    BY DEF Next, vars, verdictVars, Retired, Feedback, Kpi, Guard, Control, Decide, Manage,
           WriteManaged, LeaveUnmanaged, FindRoom, LeaveUnopened, Insert, Abort,
           ManagerCloses, Tick
  <2>6. pc' \notin {"feedback", "kpi"} => weak' = KpiBlocks
    BY DEF Next, vars, verdictVars, Retired, Feedback, Kpi, Guard, Control, Decide, Manage,
           WriteManaged, LeaveUnmanaged, FindRoom, LeaveUnopened, Insert, Abort,
           ManagerCloses, Tick
  <2>7. pc' \notin {"feedback", "kpi", "guard", "control"} => ~allow'
    <3>1. CASE Control
      <4>1. cooling = CoolingDown /\ weak = KpiBlocks /\ (CoolingDown \/ KpiBlocks)
        BY <3>1 DEF Control, Decide, Retired
      <4>2. ~allow'
        BY <3>1, <4>1, Zenon DEF Control, Decide
      <4>3. QED
        BY <4>2
    <3>2. CASE ~Control
      BY <3>2 DEF Next, vars, verdictVars, Retired, Feedback, Kpi, Guard, Manage,
           WriteManaged, LeaveUnmanaged, FindRoom, LeaveUnopened, Insert, Abort,
           ManagerCloses, Tick
    <3>3. QED
      BY <3>1, <3>2
  <2>8. Retired'
    BY <2>2, <2>3, <2>4, <2>5, <2>6, <2>7, Zenon DEF Retired
  <2>9. QED
    BY <2>1, <2>8
<1>2. QED
  BY <1>1, PTL DEF Spec, CooldownIsFinal
=============================================================================
