------------------------- MODULE IntentChain_proofs -------------------------
(***************************************************************************)
(* Proofs about IntentChain: what the adapter's transaction guarantees     *)
(* without its lock, what the lock adds while it is not broken, and how    *)
(* far the caps that are checked outside of a transaction, on counts that  *)
(* may fail to be read, can be exceeded.                                   *)
(***************************************************************************)
EXTENDS IntentChain, TableLemmas

-----------------------------------------------------------------------------
(* The inductive invariant: ChainInv, of every day there will be.          *)

\* A contract in hand counts as an intent of today and of every later day.
IntentBudget ==
    \A d \in Nat :
        /\ Cardinality(IntentsOf(d)) <= IntentRoom
        /\ d >= Today => Cardinality(IntentsOf(d)) + Cardinality(InHand) <= IntentRoom

ReviewBudget == \A d \in Nat : Cardinality(ReviewsOf(d)) <= ReviewRoom

CalendarInv ==
    /\ TypeOK /\ KnownRows /\ LockInv
    /\ OpenCaps /\ OnePositionPerIntent /\ VerdictsStand
    /\ IntentBudget /\ ReviewBudget

-----------------------------------------------------------------------------
(* Lemmas about the operators.                                             *)

\* Days are natural numbers and do not run backwards.
LEMMA Days ==
    ASSUME NEW s \in Nat, NEW t \in Nat
    PROVE  /\ DayOf(t) \in Nat
           /\ s <= t => DayOf(s) <= DayOf(t)
<1>1. DayLength \in Nat \ {0}
  BY ChainAssumption
<1>2. t \div DayLength \in Nat /\ s \div DayLength \in Nat
  BY <1>1
<1>3. ASSUME s <= t PROVE s \div DayLength <= t \div DayLength
  <2>1. PICK q \in Nat, r \in Nat : s = q * DayLength + r /\ r < DayLength /\ q = s \div DayLength
    BY <1>1, Z3
  <2>2. PICK u \in Nat, v \in Nat : t = u * DayLength + v /\ v < DayLength /\ u = t \div DayLength
    BY <1>1, Z3
  <2>3. u >= q
    <3>1. SUFFICES ASSUME u + 1 <= q PROVE FALSE
      BY <2>1, <2>2
    <3>2. (u + 1) * DayLength <= q * DayLength
      BY <1>1, <3>1, Z3
    <3>3. QED
      BY <1>1, <1>3, <2>1, <2>2, <3>2, Z3
  <2>4. QED
    BY <2>1, <2>2, <2>3
<1>4. QED
  BY <1>2, <1>3 DEF DayOf

\* The actions that touch the tables.
LEMMA WhoWrites ==
    ASSUME Next
    PROVE  /\ UNCHANGED positions \/ (\E a \in Adapters : Cycle(a))
                                  \/ (\E p \in DOMAIN positions : OutsideClose(p))
           /\ UNCHANGED intents \/ (\E o \in Operators : Emit(o))
                                \/ (\E a \in Adapters : Cycle(a))
           /\ UNCHANGED <<promo, queue>> \/ Promote
           /\ UNCHANGED now \/ Tick
           /\ \/ UNCHANGED draft
              \/ \E o \in Operators : Validate(o) \/ Emit(o) \/ Abandon(o)
           /\ \/ UNCHANGED misreads
              \/ Promote
              \/ \E o \in Operators : Validate(o)
BY DEF Next, Promote, Validate, Emit, Abandon, AdapterStep, Start, Unlink, Create,
       Cycle, Release, CycleFails, Crash, LockAges, OutsideClose, Tick, chainVars,
       adapterVars, mishapVars

\* What a transaction leaves: the same intents with new verdicts, the same positions,
\* of which some are closed, and for at most one intent a new position.
LEMMA Transaction ==
    ASSUME TypeOK, NEW ids \in SUBSET DOMAIN intents, NEW fresh \in SUBSET Keys,
           NEW exits \in SUBSET DOMAIN positions, Transact(ids, fresh, exits)
    PROVE  /\ intents' \in Seq(Intent) /\ DOMAIN intents' = DOMAIN intents
           /\ \A i \in DOMAIN intents :
                /\ intents'[i].ts = intents[i].ts
                /\ intents'[i].contract = intents[i].contract
                /\ intents'[i].state = Verdict(i, ids, fresh)
           /\ positions' \in Seq(Position)
           /\ DOMAIN positions \subseteq DOMAIN positions'
           /\ \A p \in DOMAIN positions :
                /\ positions'[p].key = positions[p].key
                /\ positions'[p].intent = positions[p].intent
                /\ positions'[p].open => positions[p].open
           /\ \/ /\ DOMAIN positions' = DOMAIN positions
                 /\ \A i \in ids : ~Binds(i, fresh)
              \/ \E i \in ids :
                   /\ Opens(i, ids, fresh)
                   /\ DOMAIN positions' = DOMAIN positions \cup {Len(positions) + 1}
                   /\ Len(positions) + 1 \notin DOMAIN positions
                   /\ positions'[Len(positions) + 1] = NewPosition(i)
<1>1. intents \in Seq(Intent) /\ positions \in Seq(Position)
  BY DEF TypeOK
<1>2. \A i \in DOMAIN intents : intents[i] \in Intent
  BY <1>1
<1>3. \A p \in DOMAIN positions : positions[p] \in Position
  BY <1>1
<1>4. \A i \in DOMAIN intents : Verdict(i, ids, fresh) \in {"pending", "bound", "rejected"}
  BY <1>2 DEF Verdict, Intent
<1>5. \A i \in DOMAIN intents :
         LET row == [intents[i] EXCEPT !.state = Verdict(i, ids, fresh)]
         IN  /\ row \in Intent /\ row.ts = intents[i].ts
             /\ row.contract = intents[i].contract
             /\ row.state = Verdict(i, ids, fresh)
  BY <1>2, <1>4 DEF Intent
<1>6. /\ intents' \in Seq(Intent) /\ DOMAIN intents' = DOMAIN intents
      /\ \A i \in DOMAIN intents :
           /\ intents'[i].ts = intents[i].ts
           /\ intents'[i].contract = intents[i].contract
           /\ intents'[i].state = Verdict(i, ids, fresh)
  <2>1. intents' = [i \in DOMAIN intents |->
                      [intents[i] EXCEPT !.state = Verdict(i, ids, fresh)]]
    BY DEF Transact
  <2>2. DOMAIN intents = 1 .. Len(intents) /\ Len(intents) \in Nat
    BY <1>1, LenProperties
  <2>3. \A i \in DOMAIN intents : intents'[i] = [intents[i] EXCEPT !.state = Verdict(i, ids, fresh)]
    BY <2>1
  <2>4. intents' \in [1 .. Len(intents) -> Intent]
    BY <2>1, <2>2, <2>3, <1>5
  <2>5. intents' \in Seq(Intent)
    BY <2>2, <2>4, SeqDef
  <2>6. QED
    BY <1>5, <2>1, <2>3, <2>5
<1> DEFINE settled == [p \in DOMAIN positions |-> Settle(p, exits)]
<1>7. \A p \in DOMAIN positions :
        /\ Settle(p, exits) \in Position
        /\ Settle(p, exits).key = positions[p].key
        /\ Settle(p, exits).intent = positions[p].intent
        /\ Settle(p, exits).open => positions[p].open
  BY <1>3 DEF Settle, Position
<1>8. /\ settled \in Seq(Position) /\ DOMAIN settled = DOMAIN positions
      /\ Len(settled) = Len(positions)
      /\ \A p \in DOMAIN positions : settled[p] = Settle(p, exits)
  <2>1. DOMAIN positions = 1 .. Len(positions) /\ Len(positions) \in Nat
    BY <1>1, LenProperties
  <2>2. settled \in [1 .. Len(positions) -> Position]
    BY <1>7, <2>1
  <2>3. settled \in Seq(Position)
    BY <2>1, <2>2, SeqDef
  <2>4. Len(settled) = Len(positions)
    BY <2>1, <2>2, <2>3, LenProperties
  <2>5. QED
    BY <2>3, <2>4
<1>9. \/ \E i \in ids : Opens(i, ids, fresh) /\ positions' = Append(settled, NewPosition(i))
      \/ (\A i \in ids : ~Binds(i, fresh)) /\ positions' = settled
  BY DEF Transact
<1>10. CASE (\A i \in ids : ~Binds(i, fresh)) /\ positions' = settled
  BY <1>6, <1>7, <1>8, <1>10
<1>11. CASE \E i \in ids : Opens(i, ids, fresh) /\ positions' = Append(settled, NewPosition(i))
  <2>1. PICK i \in ids : Opens(i, ids, fresh) /\ positions' = Append(settled, NewPosition(i))
    BY <1>11
  <2>2. NewPosition(i) \in Position
    <3>1. i \in Nat /\ intents[i].contract.key \in Keys
      BY <1>1, <1>2, LenProperties DEF Intent, Contract
    <3>2. QED
      BY <3>1 DEF NewPosition, Position
  <2> HIDE DEF settled
  <2>3. /\ positions' \in Seq(Position)
        /\ DOMAIN positions' = DOMAIN settled \cup {Len(settled) + 1}
        /\ Len(settled) + 1 \notin DOMAIN settled
        /\ positions'[Len(settled) + 1] = NewPosition(i)
        /\ \A p \in DOMAIN settled : positions'[p] = settled[p]
    BY <1>8, <2>1, <2>2, AppendRow
  <2>4. \A p \in DOMAIN positions :
          /\ positions'[p].key = positions[p].key
          /\ positions'[p].intent = positions[p].intent
          /\ positions'[p].open => positions[p].open
    BY <1>7, <1>8, <2>3
  <2>5. QED
    BY <1>6, <1>8, <2>1, <2>3, <2>4
<1>12. QED
  BY <1>9, <1>10, <1>11

\* The same of the adapter's action.
LEMMA CycleTransacts ==
    ASSUME TypeOK, NEW a \in Adapters, Cycle(a)
    PROVE  \E fresh \in SUBSET Keys : \E exits \in SUBSET DOMAIN positions :
             /\ pending[a] \in SUBSET DOMAIN intents
             /\ Transact(pending[a], fresh, exits)
BY DEF Cycle, OpenIds, TypeOK

-----------------------------------------------------------------------------
(* Types and references.                                                   *)

\* The tables are empty at the start.
LEMMA InitHolds == Init => CalendarInv
<1> SUFFICES ASSUME Init PROVE CalendarInv
  OBVIOUS
<1>1. TypeOK
  BY EmptySeq DEF Init, TypeOK
<1>2. intents = <<>> /\ positions = <<>> /\ queue = {}
  BY DEF Init
<1>3. DOMAIN intents = {} /\ DOMAIN positions = {}
  BY <1>2
<1>4. Cardinality({}) = 0 /\ IsFiniteSet({})
  BY FS_EmptySet
<1>5. KnownRows
  BY <1>2, <1>3, <1>4 DEF KnownRows
<1>6. LockInv
  BY DEF Init, LockInv, Inside
<1>7. OpenIds = {} /\ \A k \in Keys : OpenIdsOf(k) = {}
  BY <1>3 DEF OpenIds, OpenIdsOf
<1>8. OpenCaps
  BY <1>4, <1>7, ChainAssumption DEF OpenCaps
<1>9. OnePositionPerIntent /\ VerdictsStand
  BY <1>3 DEF OnePositionPerIntent, VerdictsStand
<1>10. \A d \in Nat : IntentsOf(d) = {} /\ ReviewsOf(d) = {}
  BY <1>2, <1>3 DEF IntentsOf, ReviewsOf
<1>11. InHand = {}
  BY DEF Init, InHand
<1>12. Cardinality(Operators) \in Nat
  BY FS_CardinalityType, ChainAssumption
<1>121. /\ IntentRoom = DailyCap - 1 + Cardinality(Operators) /\ IntentRoom >= 0
        /\ ReviewRoom = ReviewCap - 1 + PerCycle /\ ReviewRoom >= 0
  <2>1. misreads["intents"] = 0 /\ misreads["reviews"] = 0
    BY DEF Init, DailyCounts
  <2>2. PerCycle * (1 + 0) = PerCycle
    BY ChainAssumption
  <2>3. QED
    BY <1>12, <2>1, <2>2, ChainAssumption DEF IntentRoom, ReviewRoom
<1>13. IntentBudget
  <2>1. Cardinality(InHand) = 0 /\ \A d \in Nat : Cardinality(IntentsOf(d)) = 0
    BY <1>4, <1>10, <1>11
  <2>2. QED
    BY <1>12, <1>121, <2>1, ChainAssumption DEF IntentBudget
<1>14. ReviewBudget
  <2>1. \A d \in Nat : Cardinality(ReviewsOf(d)) = 0
    BY <1>4, <1>10
  <2>2. QED
    BY <1>121, <2>1, ChainAssumption DEF ReviewBudget
<1>15. QED
  BY <1>1, <1>5, <1>6, <1>8, <1>9, <1>13, <1>14 DEF CalendarInv

\* What a failed read leaves in the books: one more for each count that came out as 0.
LEMMA MisreadCounts ==
    ASSUME TypeOK, NEW unread, Misread(unread)
    PROVE  /\ misreads' \in [DailyCounts -> Nat] /\ upsets' \in Nat
           /\ \A c \in DailyCounts :
                misreads'[c] = IF c \in unread THEN misreads[c] + 1 ELSE misreads[c]
BY DEF TypeOK, Misread, Upset

\* Every action keeps the types.
LEMMA TypeStep == TypeOK /\ Next => TypeOK'
<1> SUFFICES ASSUME TypeOK, Next PROVE TypeOK'
  OBVIOUS
<1> USE DEF TypeOK
<1>1. CASE Promote
  <2>1. PICK chosen \in SUBSET Keys, unread \in SUBSET {"open", "reviews"} :
          Misread(unread) /\ promo' = chosen /\ queue' = Refreshed(chosen)
    BY <1>1 DEF Promote
  <2>2. queue' \subseteq [key : Keys, ts : Nat]
    BY <2>1 DEF Refreshed
  <2>3. misreads' \in [DailyCounts -> Nat] /\ upsets' \in Nat
    BY <2>1, MisreadCounts
  <2>4. QED
    BY <1>1, <2>1, <2>2, <2>3 DEF Promote, adapterVars
<1>2. ASSUME NEW o \in Operators, Validate(o) PROVE TypeOK'
  <2>1. PICK row \in queue, unread \in SUBSET {"open", "intents"} :
          Misread(unread) /\ draft' = [draft EXCEPT ![o] = ContractOf(row)]
    BY <1>2 DEF Validate
  <2>2. ContractOf(row) \in Contract
    BY Days DEF ContractOf, Contract
  <2>3. misreads' \in [DailyCounts -> Nat] /\ upsets' \in Nat
    BY <2>1, MisreadCounts
  <2>4. QED
    BY <1>2, <2>1, <2>2, <2>3 DEF Validate, adapterVars
<1>3. ASSUME NEW o \in Operators, Emit(o) PROVE TypeOK'
  <2>1. draft[o] \in Contract
    BY <1>3 DEF Emit
  <2> DEFINE row == [contract |-> draft[o], ts |-> now, state |-> "pending"]
  <2>2. row \in Intent
    BY <2>1 DEF Intent
  <2> HIDE DEF row
  <2>3. /\ Append(intents, row) \in Seq(Intent)
        /\ DOMAIN intents \subseteq DOMAIN Append(intents, row)
    BY <2>2, AppendRow
  <2>4. intents' = intents \/ intents' = Append(intents, row)
    BY <1>3 DEF Emit, row
  <2>5. pending' \in [Adapters -> SUBSET DOMAIN intents']
    BY <1>3, <2>3, <2>4 DEF Emit, adapterVars, mishapVars
  <2>6. QED
    BY <1>3, <2>3, <2>4, <2>5 DEF Emit, adapterVars, mishapVars
<1>4. ASSUME NEW o \in Operators, Abandon(o) PROVE TypeOK'
  BY <1>4 DEF Abandon, adapterVars, mishapVars
<1>5. ASSUME NEW a \in Adapters, Cycle(a) PROVE TypeOK'
  <2>1. intents' \in Seq(Intent) /\ DOMAIN intents' = DOMAIN intents /\ positions' \in Seq(Position)
    BY <1>5, CycleTransacts, Transaction
  <2>2. pending' \in [Adapters -> SUBSET DOMAIN intents']
    BY <1>5, <2>1 DEF Cycle
  <2>3. QED
    BY <1>5, <2>1, <2>2 DEF Cycle, mishapVars
<1>6. ASSUME NEW a \in Adapters,
             Start(a) \/ Unlink(a) \/ Create(a) \/ Release(a) \/ CycleFails(a) \/ Crash(a)
      PROVE  TypeOK'
  <2>1. UNCHANGED <<chainVars, positions>>
    BY <1>6 DEF Start, Unlink, Create, Release, CycleFails, Crash
  <2>2. upsets' \in Nat /\ misreads' = misreads
    BY <1>6, ChainAssumption DEF Start, Unlink, Create, Release, CycleFails, Crash, Upset,
                                    mishapVars
  <2>3. pending' \in [Adapters -> SUBSET DOMAIN intents]
    BY <1>6 DEF Start, Unlink, Create, Release, CycleFails, Crash
  <2>4. /\ pc' \in [Adapters -> {"idle", "unlink", "create", "cycle", "release"}]
        /\ lock' \in {"none", "fresh", "stale"}
    BY <1>6 DEF Start, Unlink, Create, Release, CycleFails, Crash
  <2>5. broken' \in BOOLEAN
    BY <1>6 DEF Start, Unlink, Create, Release, CycleFails, Crash
  <2>6. QED
    BY <2>1, <2>2, <2>3, <2>4, <2>5 DEF chainVars
<1>7. CASE LockAges
  BY <1>7 DEF LockAges, chainVars, mishapVars
<1>8. ASSUME NEW p \in DOMAIN positions, OutsideClose(p) PROVE TypeOK'
  <2>1. positions[p] \in Position
    OBVIOUS
  <2>2. [positions[p] EXCEPT !.open = FALSE] \in Position
    BY <2>1 DEF Position
  <2>3. positions' = [positions EXCEPT ![p] = [positions[p] EXCEPT !.open = FALSE]]
    BY <1>8 DEF OutsideClose
  <2>4. positions' \in Seq(Position)
    BY <2>2, <2>3, ReplaceRow
  <2>5. QED
    BY <1>8, <2>4 DEF OutsideClose, chainVars, adapterVars, mishapVars
<1>9. CASE Tick
  BY <1>9 DEF Tick, adapterVars, mishapVars
<1>10. QED
  BY <1>1, <1>2, <1>3, <1>4, <1>5, <1>6, <1>7, <1>8, <1>9 DEF Next, AdapterStep

\* Emitting leaves every intent as it is and adds at most one, of today.
LEMMA Emission ==
    ASSUME TypeOK, NEW o \in Operators, Emit(o)
    PROVE  /\ DOMAIN intents \subseteq DOMAIN intents'
           /\ DOMAIN intents' \subseteq DOMAIN intents \cup {Len(intents) + 1}
           /\ \A i \in DOMAIN intents : intents'[i] = intents[i]
           /\ \A i \in DOMAIN intents' \ DOMAIN intents :
                intents'[i].ts = now /\ intents'[i].state = "pending"
<1> DEFINE row == [contract |-> draft[o], ts |-> now, state |-> "pending"]
<1>1. row \in Intent
  BY DEF Emit, TypeOK, Intent
<1>2. row.ts = now /\ row.state = "pending"
  OBVIOUS
<1>3. intents' = intents \/ intents' = Append(intents, row)
  BY DEF Emit
<1> HIDE DEF row
<1>4. intents \in Seq(Intent)
  BY DEF TypeOK
<1>5. QED
  BY <1>1, <1>2, <1>3, <1>4, AppendRow

\* The V11 manager closes one position and changes nothing else of the table.
LEMMA Closing ==
    ASSUME TypeOK, NEW p \in DOMAIN positions, OutsideClose(p)
    PROVE  /\ DOMAIN positions' = DOMAIN positions
           /\ \A q \in DOMAIN positions :
                /\ positions'[q].key = positions[q].key
                /\ positions'[q].intent = positions[q].intent
                /\ positions'[q].open => positions[q].open
<1>1. positions[p] \in Position
  BY DEF TypeOK
<1> DEFINE row == [positions[p] EXCEPT !.open = FALSE]
<1>2. /\ row \in Position /\ row.key = positions[p].key
      /\ row.intent = positions[p].intent /\ row.open = FALSE
  BY <1>1 DEF Position
<1>3. positions' = [positions EXCEPT ![p] = row]
  BY DEF OutsideClose
<1> HIDE DEF row
<1>4. QED
  BY <1>2, <1>3, ReplaceRow DEF TypeOK

\* Rows of a table point at rows that exist, and carry times that have been.
LEMMA KnownRowsStep == CalendarInv /\ Next => KnownRows'
<1> SUFFICES ASSUME CalendarInv, Next PROVE KnownRows'
  OBVIOUS
<1>1. TypeOK /\ TypeOK' /\ KnownRows
  BY TypeStep DEF CalendarInv
<1>2. IsFiniteSet(queue')
  <2>1. CASE Promote
    <3>1. PICK chosen \in SUBSET Keys : queue' = Refreshed(chosen)
      BY <2>1 DEF Promote
    <3>2. IsFiniteSet([key : chosen, ts : {now}])
      <4>1. IsFiniteSet(chosen)
        BY FS_Subset, ChainAssumption
      <4> DEFINE f == [k \in chosen |-> [key |-> k, ts |-> now]]
      <4>2. \A r \in [key : chosen, ts : {now}] : \E k \in chosen : f[k] = r
        OBVIOUS
      <4>3. f \in Surjection(chosen, [key : chosen, ts : {now}])
        BY <4>2 DEF Surjection
      <4>4. QED
        BY <4>1, <4>3, FS_Surjection
    <3>3. IsFiniteSet({r \in queue : ~(DayOf(r.ts) = Today /\ r.key \in chosen)})
      BY <1>1, FS_Subset DEF KnownRows
    <3>4. QED
      BY <3>1, <3>2, <3>3, FS_Union DEF Refreshed
  <2>2. CASE UNCHANGED queue
    BY <1>1, <2>2 DEF KnownRows
  <2>3. QED
    BY <2>1, <2>2, WhoWrites
<1>3. /\ DOMAIN intents \subseteq DOMAIN intents'
      /\ \A i \in DOMAIN intents' : intents'[i].ts <= now
  <2>1. CASE UNCHANGED intents
    BY <1>1, <2>1 DEF KnownRows
  <2>2. ASSUME NEW o \in Operators, Emit(o)
        PROVE  /\ DOMAIN intents \subseteq DOMAIN intents'
               /\ \A i \in DOMAIN intents' : intents'[i].ts <= now
    BY <1>1, <2>2, Emission DEF KnownRows, TypeOK
  <2>3. ASSUME NEW a \in Adapters, Cycle(a)
        PROVE  /\ DOMAIN intents \subseteq DOMAIN intents'
               /\ \A i \in DOMAIN intents' : intents'[i].ts <= now
    BY <1>1, <2>3, CycleTransacts, Transaction DEF KnownRows
  <2>4. QED
    BY <2>1, <2>2, <2>3, WhoWrites
<1>4. \A i \in DOMAIN intents' : intents'[i].ts <= now'
  <2>1. now' = now \/ now' = now + 1
    BY WhoWrites DEF Tick
  <2>2. intents' \in Seq(Intent) /\ now \in Nat
    BY <1>1 DEF TypeOK
  <2>3. \A i \in DOMAIN intents' : intents'[i] \in Intent
    BY <2>2
  <2>4. \A i \in DOMAIN intents' : intents'[i].ts \in Nat
    BY <2>3 DEF Intent
  <2>5. QED
    BY <1>3, <2>1, <2>2, <2>4
<1>5. \A p \in DOMAIN positions' : positions'[p].intent \in DOMAIN intents'
  <2>1. CASE UNCHANGED positions
    BY <1>1, <1>3, <2>1 DEF KnownRows
  <2>2. ASSUME NEW p \in DOMAIN positions, OutsideClose(p)
        PROVE  \A q \in DOMAIN positions' : positions'[q].intent \in DOMAIN intents'
    <3>1. /\ DOMAIN positions' = DOMAIN positions
          /\ \A q \in DOMAIN positions : positions'[q].intent = positions[q].intent
      BY <1>1, <2>2, Closing
    <3>2. QED
      BY <1>1, <1>3, <3>1 DEF KnownRows
  <2>3. ASSUME NEW a \in Adapters, Cycle(a)
        PROVE  \A q \in DOMAIN positions' : positions'[q].intent \in DOMAIN intents'
    <3>1. PICK fresh \in SUBSET Keys, exits \in SUBSET DOMAIN positions :
            /\ pending[a] \in SUBSET DOMAIN intents
            /\ Transact(pending[a], fresh, exits)
      BY <1>1, <2>3, CycleTransacts
    <3>2. \A i \in pending[a] : NewPosition(i).intent = i
      BY DEF NewPosition
    <3>3. /\ \A q \in DOMAIN positions : positions'[q].intent = positions[q].intent
          /\ \A q \in DOMAIN positions' \ DOMAIN positions :
               \E i \in pending[a] : positions'[q] = NewPosition(i)
      BY <1>1, <3>1, Transaction
    <3>4. QED
      BY <1>1, <1>3, <3>1, <3>2, <3>3 DEF KnownRows
  <2>4. QED
    BY <2>1, <2>2, <2>3, WhoWrites
<1>6. QED
  BY <1>2, <1>4, <1>5 DEF KnownRows

-----------------------------------------------------------------------------
(* The lock.                                                               *)

\* Without a broken lock one adapter at most is inside, and the file is there.
LEMMA LockStep == CalendarInv /\ Next => LockInv'
<1> SUFFICES ASSUME CalendarInv, Next, ~broken' PROVE LockInv'
  BY DEF LockInv
<1>1. TypeOK /\ LockInv
  BY DEF CalendarInv
<1>2. pc \in [Adapters -> {"idle", "unlink", "create", "cycle", "release"}]
  BY <1>1 DEF TypeOK
<1>3. pending \in [Adapters -> SUBSET DOMAIN intents]
  BY <1>1 DEF TypeOK
<1>4. ~broken
  BY DEF Next, Promote, Validate, Emit, Abandon, AdapterStep, Start, Unlink, Create,
         Cycle, Release, CycleFails, Crash, LockAges, OutsideClose, Tick, chainVars,
         adapterVars, mishapVars
<1>5. /\ \A a \in Adapters : pc[a] # "unlink"
      /\ \A a \in Adapters : Inside(a) => lock # "none"
      /\ \A a, b \in Adapters : Inside(a) /\ Inside(b) => a = b
      /\ \A a \in Adapters : pc[a] = "cycle" =>
            \A i \in pending[a] : intents[i].state = "pending"
  BY <1>1, <1>4 DEF LockInv
<1>6. CASE UNCHANGED <<intents, adapterVars>>
  BY <1>5, <1>6 DEF LockInv, Inside, adapterVars
<1>7. ASSUME NEW o \in Operators, Emit(o) PROVE LockInv'
  <2>1. \A i \in DOMAIN intents : intents'[i] = intents[i]
    BY <1>1, <1>7, Emission
  <2>2. UNCHANGED adapterVars
    BY <1>7 DEF Emit
  <2>3. QED
    BY <1>3, <1>5, <2>1, <2>2 DEF LockInv, Inside, adapterVars
<1>8. ASSUME NEW a \in Adapters, Start(a) PROVE LockInv'
  BY <1>2, <1>5, <1>8 DEF Start, LockInv, Inside, chainVars
<1>9. ASSUME NEW a \in Adapters, Unlink(a) PROVE LockInv'
  BY <1>5, <1>9 DEF Unlink
<1>10. ASSUME NEW a \in Adapters, Create(a) PROVE LockInv'
  <2>1. UNCHANGED intents
    BY <1>10 DEF Create, chainVars
  <2>2. CASE lock = "none"
    <3>1. \A b \in Adapters : ~Inside(b)
      BY <1>5, <2>2
    <3>2. /\ lock' = "fresh" /\ pc' = [pc EXCEPT ![a] = "cycle"]
          /\ \A i \in pending'[a] : intents[i].state = "pending"
      BY <1>3, <1>10, <2>2 DEF Create
    <3>3. QED
      BY <1>2, <1>5, <2>1, <3>1, <3>2 DEF LockInv, Inside
  <2>3. CASE lock # "none"
    <3>1. lock' = lock /\ pc' = [pc EXCEPT ![a] = "idle"] /\ pending' = pending
      BY <1>10, <2>3 DEF Create
    <3>2. QED
      BY <1>2, <1>5, <2>1, <3>1 DEF LockInv, Inside
  <2>4. QED
    BY <2>2, <2>3
<1>11. ASSUME NEW a \in Adapters, Cycle(a) PROVE LockInv'
  <2>1. pc' = [pc EXCEPT ![a] = "release"] /\ UNCHANGED lock /\ Inside(a)
    BY <1>11 DEF Cycle, Inside
  <2>2. \A b \in Adapters : pc'[b] = "cycle" => FALSE
    BY <1>2, <1>5, <2>1 DEF Inside
  <2>3. QED
    BY <1>2, <1>5, <2>1, <2>2 DEF LockInv, Inside
<1>12. ASSUME NEW a \in Adapters, Release(a) PROVE LockInv'
  BY <1>2, <1>5, <1>12 DEF Release, LockInv, Inside, chainVars
<1>13. ASSUME NEW a \in Adapters, CycleFails(a) \/ Crash(a) PROVE LockInv'
  <2>1. /\ UNCHANGED <<intents, lock>>
        /\ pending' = [pending EXCEPT ![a] = {}]
        /\ \/ pc' = [pc EXCEPT ![a] = "release"] /\ Inside(a)
           \/ pc' = [pc EXCEPT ![a] = "idle"]
    BY <1>13 DEF CycleFails, Crash, chainVars, Inside
  <2>2. QED
    BY <1>2, <1>3, <1>5, <2>1 DEF LockInv, Inside
<1>14. CASE LockAges
  BY <1>5, <1>14 DEF LockAges, LockInv, Inside, chainVars
<1>15. QED
  BY <1>6, <1>7, <1>8, <1>9, <1>10, <1>11, <1>12, <1>13, <1>14
     DEF Next, AdapterStep, Promote, Validate, Abandon, OutsideClose, Tick, chainVars

-----------------------------------------------------------------------------
(* Positions: caps, one per intent, and verdicts.                          *)

\* The ids that count against a cap are finitely many.
LEMMA OpenIdsFinite ==
    ASSUME TypeOK
    PROVE  /\ IsFiniteSet(OpenIds) /\ Cardinality(OpenIds) \in Nat
           /\ \A k \in Keys : IsFiniteSet(OpenIdsOf(k)) /\ Cardinality(OpenIdsOf(k)) \in Nat
<1>1. positions \in Seq(Position)
  BY DEF TypeOK
<1>2. OpenIds \in SUBSET DOMAIN positions /\ \A k \in Keys : OpenIdsOf(k) \in SUBSET DOMAIN positions
  BY DEF OpenIds, OpenIdsOf
<1>3. QED
  BY <1>1, <1>2, RowsAreFinite

\* Only a transaction opens a position, and only when there is room for it.
LEMMA CapsStep == CalendarInv /\ Next => OpenCaps'
<1> SUFFICES ASSUME CalendarInv, Next PROVE OpenCaps'
  OBVIOUS
<1>1. TypeOK /\ OpenCaps
  BY DEF CalendarInv
<1>2. ASSUME OpenIds' \subseteq OpenIds,
             \A k \in Keys : (OpenIdsOf(k))' \subseteq OpenIdsOf(k)
      PROVE  OpenCaps'
  <2>1. Cardinality(OpenIds') <= GlobalCap
    BY <1>1, <1>2, OpenIdsFinite, CountNoMore, ChainAssumption DEF OpenCaps
  <2>2. ASSUME NEW k \in Keys PROVE Cardinality((OpenIdsOf(k))') <= KeyCap
    <3>1. IsFiniteSet(OpenIdsOf(k)) /\ Cardinality(OpenIdsOf(k)) <= KeyCap
      BY <1>1, OpenIdsFinite DEF OpenCaps
    <3>2. QED
      BY <1>2, <3>1, CountNoMore, ChainAssumption
  <2>3. QED
    BY <2>1, <2>2 DEF OpenCaps
<1>3. CASE UNCHANGED positions
  BY <1>2, <1>3 DEF OpenIds, OpenIdsOf
<1>4. ASSUME NEW p \in DOMAIN positions, OutsideClose(p) PROVE OpenCaps'
  <2>1. /\ DOMAIN positions' = DOMAIN positions
        /\ \A q \in DOMAIN positions :
             /\ positions'[q].key = positions[q].key
             /\ positions'[q].open => positions[q].open
    BY <1>1, <1>4, Closing
  <2>2. QED
    BY <1>2, <2>1 DEF OpenIds, OpenIdsOf
<1>5. ASSUME NEW a \in Adapters, Cycle(a) PROVE OpenCaps'
  <2>1. PICK fresh \in SUBSET Keys, exits \in SUBSET DOMAIN positions :
          /\ pending[a] \in SUBSET DOMAIN intents
          /\ Transact(pending[a], fresh, exits)
    BY <1>1, <1>5, CycleTransacts
  <2>2. /\ \A p \in DOMAIN positions :
             /\ positions'[p].key = positions[p].key
             /\ positions'[p].open => positions[p].open
        /\ \/ DOMAIN positions' = DOMAIN positions
           \/ \E i \in pending[a] :
                /\ Opens(i, pending[a], fresh)
                /\ DOMAIN positions' = DOMAIN positions \cup {Len(positions) + 1}
                /\ positions'[Len(positions) + 1] = NewPosition(i)
    BY <1>1, <2>1, Transaction
  <2>3. CASE DOMAIN positions' = DOMAIN positions
    BY <1>2, <2>2, <2>3 DEF OpenIds, OpenIdsOf
  <2>4. ASSUME NEW i \in pending[a], Opens(i, pending[a], fresh),
               DOMAIN positions' = DOMAIN positions \cup {Len(positions) + 1},
               positions'[Len(positions) + 1] = NewPosition(i)
        PROVE  OpenCaps'
    <3>1. Room(intents[i].contract.key)
      BY <2>4 DEF Opens, Binds
    <3>2. OpenIds' \subseteq OpenIds \cup {Len(positions) + 1}
      BY <2>2, <2>4 DEF OpenIds
    <3>3. Cardinality(OpenIds') <= GlobalCap
      BY <1>1, <3>1, <3>2, OpenIdsFinite, CountOneMore, ChainAssumption DEF Room
    <3>4. ASSUME NEW k \in Keys PROVE Cardinality((OpenIdsOf(k))') <= KeyCap
      <4>1. IsFiniteSet(OpenIdsOf(k)) /\ Cardinality(OpenIdsOf(k)) <= KeyCap
        BY <1>1, OpenIdsFinite DEF OpenCaps
      <4>2. NewPosition(i).key = intents[i].contract.key
        BY DEF NewPosition
      <4>3. CASE k = intents[i].contract.key
        <5>1. (OpenIdsOf(k))' \subseteq OpenIdsOf(k) \cup {Len(positions) + 1}
          BY <2>2, <2>4 DEF OpenIds, OpenIdsOf
        <5>2. Cardinality(OpenIdsOf(k)) < KeyCap
          BY <3>1, <4>3 DEF Room
        <5>3. QED
          BY <4>1, <5>1, <5>2, CountOneMore, ChainAssumption
      <4>4. CASE k # intents[i].contract.key
        <5>1. (OpenIdsOf(k))' \subseteq OpenIdsOf(k)
          BY <2>2, <2>4, <4>2, <4>4 DEF OpenIds, OpenIdsOf
        <5>2. QED
          BY <4>1, <5>1, CountNoMore, ChainAssumption
      <4>5. QED
        BY <4>3, <4>4
    <3>5. QED
      BY <3>3, <3>4 DEF OpenCaps
  <2>5. QED
    BY <2>2, <2>3, <2>4
<1>6. QED
  BY <1>3, <1>4, <1>5, WhoWrites

\* A transaction opens a position only for an intent that has none.
LEMMA OnePositionStep == CalendarInv /\ Next => OnePositionPerIntent'
<1> SUFFICES ASSUME CalendarInv, Next PROVE OnePositionPerIntent'
  OBVIOUS
<1>1. TypeOK /\ OnePositionPerIntent
  BY DEF CalendarInv
<1>2. CASE UNCHANGED positions
  BY <1>1, <1>2 DEF OnePositionPerIntent
<1>3. ASSUME NEW p \in DOMAIN positions, OutsideClose(p) PROVE OnePositionPerIntent'
  <2>1. /\ DOMAIN positions' = DOMAIN positions
        /\ \A q \in DOMAIN positions : positions'[q].intent = positions[q].intent
    BY <1>1, <1>3, Closing
  <2>2. QED
    BY <1>1, <2>1 DEF OnePositionPerIntent
<1>4. ASSUME NEW a \in Adapters, Cycle(a) PROVE OnePositionPerIntent'
  <2>1. PICK fresh \in SUBSET Keys, exits \in SUBSET DOMAIN positions :
          /\ pending[a] \in SUBSET DOMAIN intents
          /\ Transact(pending[a], fresh, exits)
    BY <1>1, <1>4, CycleTransacts
  <2>2. /\ \A p \in DOMAIN positions : positions'[p].intent = positions[p].intent
        /\ \/ DOMAIN positions' = DOMAIN positions
           \/ \E i \in pending[a] :
                /\ Opens(i, pending[a], fresh)
                /\ DOMAIN positions' = DOMAIN positions \cup {Len(positions) + 1}
                /\ positions'[Len(positions) + 1] = NewPosition(i)
    BY <1>1, <2>1, Transaction
  <2>3. \A i \in pending[a] : NewPosition(i).intent = i
    BY DEF NewPosition
  <2>4. \A i \in pending[a] : Opens(i, pending[a], fresh) =>
          \A p \in DOMAIN positions : positions[p].intent # i
    BY DEF Opens, Binds, Mapped
  <2>5. QED
    BY <1>1, <2>2, <2>3, <2>4 DEF OnePositionPerIntent
<1>5. QED
  BY <1>2, <1>3, <1>4, WhoWrites

\* A transaction writes the verdict and the position together, and nothing else does.
LEMMA VerdictStep == CalendarInv /\ Next => VerdictsStand'
<1> SUFFICES ASSUME CalendarInv, Next PROVE VerdictsStand'
  OBVIOUS
<1>1. TypeOK /\ KnownRows /\ LockInv /\ VerdictsStand
  BY DEF CalendarInv
<1>2. broken => broken'
  BY DEF Next, Promote, Validate, Emit, Abandon, AdapterStep, Start, Unlink, Create,
         Cycle, Release, CycleFails, Crash, LockAges, OutsideClose, Tick, chainVars,
         adapterVars, mishapVars
<1>3. CASE UNCHANGED <<intents, positions>>
  BY <1>1, <1>2, <1>3 DEF VerdictsStand, Mapped
<1>4. ASSUME NEW o \in Operators, Emit(o) PROVE VerdictsStand'
  <2>1. UNCHANGED positions
    BY <1>4 DEF Emit
  <2>2. /\ \A i \in DOMAIN intents : intents'[i] = intents[i]
        /\ \A i \in DOMAIN intents' \ DOMAIN intents : intents'[i].state = "pending"
    BY <1>1, <1>4, Emission
  <2>3. \A i \in DOMAIN intents' \ DOMAIN intents : ~Mapped(i)
    BY <1>1 DEF KnownRows, Mapped
  <2>4. \A i : Mapped(i)' <=> Mapped(i)
    BY <2>1 DEF Mapped
  <2>5. QED
    BY <1>1, <1>2, <2>2, <2>3, <2>4 DEF VerdictsStand
<1>5. ASSUME NEW p \in DOMAIN positions, OutsideClose(p) PROVE VerdictsStand'
  <2>1. /\ DOMAIN positions' = DOMAIN positions
        /\ \A q \in DOMAIN positions : positions'[q].intent = positions[q].intent
    BY <1>1, <1>5, Closing
  <2>2. UNCHANGED intents
    BY <1>5 DEF OutsideClose, chainVars
  <2>3. \A i : Mapped(i)' <=> Mapped(i)
    BY <2>1 DEF Mapped
  <2>4. QED
    BY <1>1, <1>2, <2>2, <2>3 DEF VerdictsStand
<1>6. ASSUME NEW a \in Adapters, Cycle(a) PROVE VerdictsStand'
  <2>1. PICK fresh \in SUBSET Keys, exits \in SUBSET DOMAIN positions :
          /\ pending[a] \in SUBSET DOMAIN intents
          /\ Transact(pending[a], fresh, exits)
    BY <1>1, <1>6, CycleTransacts
  <2>2. /\ DOMAIN intents' = DOMAIN intents
        /\ \A i \in DOMAIN intents : intents'[i].state = Verdict(i, pending[a], fresh)
        /\ DOMAIN positions \subseteq DOMAIN positions'
        /\ \A p \in DOMAIN positions : positions'[p].intent = positions[p].intent
        /\ \/ DOMAIN positions' = DOMAIN positions /\ \A i \in pending[a] : ~Binds(i, fresh)
           \/ \E i \in pending[a] :
                /\ Opens(i, pending[a], fresh)
                /\ DOMAIN positions' = DOMAIN positions \cup {Len(positions) + 1}
                /\ positions'[Len(positions) + 1] = NewPosition(i)
    BY <1>1, <2>1, Transaction
  <2>3. pending[a] \subseteq Int
    BY <1>1, <2>1, LenProperties DEF TypeOK
  <2>4. \A i, j \in pending[a] :
           Opens(i, pending[a], fresh) /\ Opens(j, pending[a], fresh) => i = j
    BY <2>3 DEF Opens
  <2>5. \A i \in pending[a] : NewPosition(i).intent = i
    BY DEF NewPosition
  <2>6. ASSUME NEW i \in DOMAIN intents
        PROVE  Mapped(i)' <=> Mapped(i) \/ (i \in pending[a] /\ Opens(i, pending[a], fresh))
    <3>1. CASE /\ DOMAIN positions' = DOMAIN positions
               /\ \A j \in pending[a] : ~Binds(j, fresh)
      <4>1. Mapped(i)' <=> Mapped(i)
        BY <2>2, <3>1 DEF Mapped
      <4>2. QED
        BY <3>1, <4>1 DEF Opens
    <3>2. ASSUME NEW j \in pending[a], Opens(j, pending[a], fresh),
                 DOMAIN positions' = DOMAIN positions \cup {Len(positions) + 1},
                 positions'[Len(positions) + 1] = NewPosition(j)
          PROVE  Mapped(i)' <=> Mapped(i) \/ (i \in pending[a] /\ Opens(i, pending[a], fresh))
      <4>1. Mapped(i)' <=> Mapped(i) \/ i = j
        BY <2>2, <2>5, <3>2 DEF Mapped
      <4>2. QED
        BY <2>4, <3>2, <4>1
    <3>3. QED
      BY <2>2, <3>1, <3>2
  <2>7. \A i \in pending[a] : Opens(i, pending[a], fresh) => ~Mapped(i)
    BY DEF Opens, Binds
  <2>8. \A i \in pending[a] : Refuses(i, pending[a], fresh) => ~Opens(i, pending[a], fresh)
    BY <2>3 DEF Opens, Refuses
  <2>9. ~broken => \A i \in pending[a] : intents[i].state = "pending"
    BY <1>1, <1>6 DEF LockInv, Cycle
  <2>10. UNCHANGED broken
    BY <1>6 DEF Cycle
  <2>11. ASSUME NEW i \in DOMAIN intents
         PROVE  /\ intents'[i].state = "pending" => ~Mapped(i)'
                /\ intents'[i].state = "bound" => Mapped(i)'
                /\ intents'[i].state = "rejected" /\ Mapped(i)' => broken
    <3>1. CASE i \in pending[a] /\ Opens(i, pending[a], fresh)
      BY <2>2, <2>6, <3>1 DEF Verdict
    <3>2. CASE i \in pending[a] /\ ~Opens(i, pending[a], fresh) /\ Refuses(i, pending[a], fresh)
      BY <1>1, <2>2, <2>6, <2>9, <3>2 DEF Verdict, VerdictsStand
    <3>3. CASE ~(i \in pending[a] /\ (Opens(i, pending[a], fresh) \/ Refuses(i, pending[a], fresh)))
      BY <1>1, <2>2, <2>6, <3>3 DEF Verdict, VerdictsStand
    <3>4. QED
      BY <3>1, <3>2, <3>3
  <2>12. QED
    BY <2>2, <2>10, <2>11 DEF VerdictsStand
<1>7. QED
  BY <1>3, <1>4, <1>5, <1>6, WhoWrites

-----------------------------------------------------------------------------
(* Daily budgets.                                                          *)

\* Intents of a day and operators with a contract in hand can be counted.
LEMMA Countable ==
    ASSUME TypeOK
    PROVE  /\ \A d \in Nat : IsFiniteSet(IntentsOf(d)) /\ Cardinality(IntentsOf(d)) \in Nat
           /\ Cardinality(Operators) \in Nat
           /\ \A H \in SUBSET Operators :
                /\ IsFiniteSet(H) /\ Cardinality(H) \in Nat
                /\ Cardinality(H) <= Cardinality(Operators)
<1>1. \A d \in Nat : IntentsOf(d) \in SUBSET DOMAIN intents
  BY DEF IntentsOf
<1>2. QED
  BY <1>1, RowsAreFinite, FS_Subset, FS_CardinalityType, ChainAssumption DEF TypeOK

\* A day after today has no intents yet.
LEMMA NothingFromTheFuture ==
    ASSUME TypeOK, KnownRows, NEW d \in Nat, d > Today
    PROVE  Cardinality(IntentsOf(d)) = 0
<1>1. intents \in Seq(Intent) /\ now \in Nat
  BY DEF TypeOK
<1>2. \A i \in DOMAIN intents : intents[i] \in Intent
  BY <1>1
<1>3. \A i \in DOMAIN intents : intents[i].ts \in Nat /\ intents[i].ts <= now
  BY <1>2 DEF Intent, KnownRows
<1>4. \A i \in DOMAIN intents : DayOf(intents[i].ts) \in Nat /\ DayOf(intents[i].ts) <= Today
  BY <1>1, <1>3, Days DEF Today
<1>5. Today \in Nat
  BY <1>1, Days DEF Today
<1>6. IntentsOf(d) = {}
  BY <1>4, <1>5 DEF IntentsOf
<1>7. QED
  BY <1>6, FS_EmptySet

\* Adding an id adds at most one to a count.
LEMMA OneMoreAtMost ==
    ASSUME NEW A, IsFiniteSet(A), NEW x, NEW B \in SUBSET (A \cup {x})
    PROVE  Cardinality(B) <= Cardinality(A) + 1
<1>1. /\ IsFiniteSet(A \cup {x})
      /\ Cardinality(A \cup {x}) \in {Cardinality(A), Cardinality(A) + 1}
  BY FS_AddElement
<1>2. Cardinality(B) <= Cardinality(A \cup {x})
  BY <1>1, FS_Subset
<1>3. Cardinality(A) \in Nat /\ Cardinality(B) \in Nat
  BY <1>1, FS_Subset, FS_CardinalityType
<1>4. QED
  BY <1>1, <1>2, <1>3

\* How far the caps reach, and how much further a failed read lets them.
LEMMA Rooms ==
    ASSUME TypeOK, TypeOK', Next
    PROVE  /\ IntentRoom \in Int /\ IntentRoom' \in Int
           /\ ReviewRoom \in Int /\ ReviewRoom' \in Int
           /\ misreads'["intents"] = misreads["intents"] => IntentRoom' = IntentRoom
           /\ misreads'["intents"] = misreads["intents"] + 1 => IntentRoom' = IntentRoom + 1
           /\ misreads'["reviews"] = misreads["reviews"] => ReviewRoom' = ReviewRoom
           /\ misreads'["reviews"] = misreads["reviews"] + 1
                => ReviewRoom' = ReviewRoom + PerCycle
<1>1. /\ misreads["intents"] \in Nat /\ misreads["reviews"] \in Nat
      /\ misreads'["intents"] \in Nat /\ misreads'["reviews"] \in Nat
  BY DEF TypeOK, DailyCounts
<1>2. /\ PerCycle \in Nat /\ ReviewCap \in Nat \ {0} /\ DailyCap \in Nat \ {0}
      /\ Cardinality(Operators) \in Nat
  BY FS_CardinalityType, ChainAssumption
<1>3. \A m \in Nat : PerCycle * (1 + m) \in Nat
                     /\ PerCycle * (1 + (m + 1)) = PerCycle * (1 + m) + PerCycle
  BY <1>2
<1>4. QED
  BY <1>1, <1>2, <1>3 DEF IntentRoom, ReviewRoom

\* Validating spends a slot of the day, and emitting writes what was spent.
LEMMA IntentBudgetStep == CalendarInv /\ Next => IntentBudget'
<1> SUFFICES ASSUME CalendarInv, Next PROVE IntentBudget'
  OBVIOUS
<1>1. TypeOK /\ TypeOK' /\ KnownRows /\ IntentBudget
  BY TypeStep DEF CalendarInv
<1>2. Today \in Nat /\ InHand \in SUBSET Operators
  BY <1>1, Days DEF Today, InHand, TypeOK
<1>3. DailyCap \in Nat \ {0} /\ Cardinality(Operators) \in Nat
  BY <1>1, Countable, ChainAssumption
<1>4. \A d \in Nat : Cardinality(IntentsOf(d)) \in Nat
  BY <1>1, Countable
<1>5. /\ IsFiniteSet(InHand) /\ Cardinality(InHand) \in Nat
      /\ IntentRoom \in Int /\ IntentRoom' \in Int
  BY <1>1, <1>2, Countable, Rooms
<1>51. ASSUME UNCHANGED misreads PROVE IntentRoom' = IntentRoom
  BY <1>51 DEF IntentRoom
<1>6. ASSUME Today' \in Nat, Today' >= Today,
             \A d \in Nat : (IntentsOf(d))' = IntentsOf(d),
             InHand' \subseteq InHand, IntentRoom' = IntentRoom
      PROVE  IntentBudget'
  <2>1. Cardinality(InHand') \in Nat /\ Cardinality(InHand') <= Cardinality(InHand)
    BY <1>5, <1>6, FS_Subset, FS_CardinalityType
  <2>2. QED
    BY <1>1, <1>2, <1>3, <1>4, <1>5, <1>6, <2>1 DEF IntentBudget
<1>7. CASE UNCHANGED <<intents, draft>>
  <2>1. Today' \in Nat /\ Today' >= Today
    <3>1. now' = now \/ now' = now + 1
      BY WhoWrites DEF Tick
    <3>2. QED
      BY <1>1, <3>1, Days DEF Today, TypeOK
  <2>2. CASE UNCHANGED misreads
    BY <1>6, <1>7, <1>51, <2>1, <2>2 DEF IntentsOf, InHand
  <2>3. CASE Promote
    <3>1. misreads'["intents"] = misreads["intents"]
      BY <1>1, <2>3, MisreadCounts DEF Promote, DailyCounts
    <3>2. IntentRoom' = IntentRoom
      BY <1>1, <3>1, Rooms
    <3>3. QED
      BY <1>6, <1>7, <2>1, <3>2 DEF IntentsOf, InHand
  <2>4. ASSUME NEW o \in Operators, Validate(o) PROVE FALSE
    <3>1. draft[o] = NoDraft /\ \E row \in queue : draft'[o] = ContractOf(row)
      BY <1>1, <2>4 DEF Validate, TypeOK
    <3>2. \A row \in queue : ContractOf(row) \in Contract
      BY <1>1, Days DEF ContractOf, Contract, TypeOK
    <3>3. QED
      BY <1>7, <3>1, <3>2, ChainAssumption
  <2>5. QED
    BY <2>2, <2>3, <2>4, WhoWrites
<1>8. ASSUME NEW o \in Operators, Validate(o) PROVE IntentBudget'
  <2>1. Today' = Today /\ \A d \in Nat : (IntentsOf(d))' = IntentsOf(d)
    BY <1>8 DEF Validate, Today, IntentsOf
  <2>2. PICK row \in queue, unread \in SUBSET {"open", "intents"} :
          Valid(row, unread) /\ Misread(unread)
    BY <1>8 DEF Validate
  <2>3. Cardinality(InHand') \in Nat /\ Cardinality(InHand') <= Cardinality(Operators)
    <3>1. InHand' \in SUBSET Operators
      BY DEF InHand
    <3>2. QED
      BY <1>1, <3>1, Countable
  <2>4. CASE "intents" \in unread
    <3>1. IntentRoom' = IntentRoom + 1
      <4>1. misreads'["intents"] = misreads["intents"] + 1
        BY <1>1, <2>2, <2>4, MisreadCounts DEF DailyCounts
      <4>2. QED
        BY <1>1, <4>1, Rooms
    <3>2. Cardinality(InHand') <= Cardinality(InHand) + 1
      <4>1. InHand' \in SUBSET (InHand \cup {o})
        BY <1>1, <1>8 DEF Validate, InHand, TypeOK
      <4>2. QED
        BY <1>5, <4>1, OneMoreAtMost
    <3>3. ASSUME NEW d \in Nat
          PROVE  /\ Cardinality(IntentsOf(d)) <= IntentRoom'
                 /\ d >= Today => Cardinality(IntentsOf(d)) + Cardinality(InHand')
                                    <= IntentRoom'
      <4>1. /\ Cardinality(IntentsOf(d)) <= IntentRoom
            /\ d >= Today => Cardinality(IntentsOf(d)) + Cardinality(InHand) <= IntentRoom
        BY <1>1 DEF IntentBudget
      <4>2. QED
        BY <1>2, <1>4, <1>5, <2>3, <3>1, <3>2, <4>1
    <3>4. QED
      BY <2>1, <3>3 DEF IntentBudget
  <2>5. CASE "intents" \notin unread
    <3>1. IntentRoom' = IntentRoom
      <4>1. misreads'["intents"] = misreads["intents"]
        BY <1>1, <2>2, <2>5, MisreadCounts DEF DailyCounts
      <4>2. QED
        BY <1>1, <4>1, Rooms
    <3>2. Cardinality(IntentsOf(Today)) < DailyCap
      BY <2>2, <2>5 DEF Valid
    <3>3. \A d \in Nat : d > Today => Cardinality(IntentsOf(d)) = 0
      BY <1>1, NothingFromTheFuture
    <3>4. \A d \in Nat : d >= Today => Cardinality(IntentsOf(d)) <= DailyCap - 1
      BY <1>2, <1>3, <1>4, <3>2, <3>3
    <3>5. DailyCap - 1 + Cardinality(Operators) <= IntentRoom
      <4>1. misreads["intents"] \in Nat
        BY <1>1 DEF TypeOK, DailyCounts
      <4>2. QED
        BY <1>3, <4>1 DEF IntentRoom
    <3>6. ASSUME NEW d \in Nat, d >= Today
          PROVE  Cardinality(IntentsOf(d)) + Cardinality(InHand') <= IntentRoom
      <4>1. Cardinality(IntentsOf(d)) \in Nat /\ Cardinality(IntentsOf(d)) <= DailyCap - 1
        BY <1>4, <3>4, <3>6
      <4>2. QED
        BY <1>3, <1>5, <2>3, <3>5, <4>1
    <3>7. \A d \in Nat : Cardinality(IntentsOf(d)) <= IntentRoom
      BY <1>1 DEF IntentBudget
    <3>8. QED
      BY <2>1, <3>1, <3>6, <3>7 DEF IntentBudget
  <2>6. QED
    BY <2>4, <2>5
<1>9. ASSUME NEW o \in Operators, Abandon(o) PROVE IntentBudget'
  <2>1. InHand' \subseteq InHand
    BY <1>1, <1>9 DEF Abandon, InHand, TypeOK
  <2>2. Today' = Today /\ \A d \in Nat : (IntentsOf(d))' = IntentsOf(d)
    BY <1>9 DEF Abandon, Today, IntentsOf
  <2>3. QED
    BY <1>2, <1>6, <1>9, <1>51, <2>1, <2>2 DEF Abandon, mishapVars
<1>10. ASSUME NEW o \in Operators, Emit(o) PROVE IntentBudget'
  <2>1. o \in InHand /\ InHand' = InHand \ {o}
    BY <1>1, <1>10 DEF Emit, InHand, TypeOK
  <2>2. Cardinality(InHand') = Cardinality(InHand) - 1
    BY <1>5, <2>1, FS_RemoveElement
  <2>3. Today' = Today /\ IntentRoom' = IntentRoom
    BY <1>10, <1>51 DEF Emit, Today, mishapVars
  <2>4. /\ DOMAIN intents \subseteq DOMAIN intents'
        /\ DOMAIN intents' \subseteq DOMAIN intents \cup {Len(intents) + 1}
        /\ \A i \in DOMAIN intents : intents'[i] = intents[i]
        /\ \A i \in DOMAIN intents' \ DOMAIN intents : intents'[i].ts = now
    BY <1>1, <1>10, Emission
  <2>5. ASSUME NEW d \in Nat, d # Today PROVE (IntentsOf(d))' = IntentsOf(d)
    BY <2>4, <2>5 DEF IntentsOf, Today
  <2>6. Cardinality((IntentsOf(Today))') <= Cardinality(IntentsOf(Today)) + 1
    <3>1. (IntentsOf(Today))' \subseteq IntentsOf(Today) \cup {Len(intents) + 1}
      BY <2>3, <2>4 DEF IntentsOf
    <3>2. IsFiniteSet(IntentsOf(Today))
      BY <1>1, <1>2, Countable
    <3>3. QED
      BY <3>1, <3>2, OneMoreAtMost
  <2>7. Cardinality((IntentsOf(Today))') \in Nat
    <3>1. \A d \in Nat : Cardinality((IntentsOf(d))') \in Nat
      <4>1. \A d \in Nat : (IntentsOf(d))' \in SUBSET DOMAIN intents'
        BY DEF IntentsOf
      <4>2. intents' \in Seq(Intent)
        BY <1>1 DEF TypeOK
      <4>3. QED
        BY <4>1, <4>2, RowsAreFinite
    <3>2. QED
      BY <1>2, <2>3, <3>1 DEF IntentsOf
  <2>8. \A d \in Nat : d >= Today \/ d < Today
    BY <1>2
  <2>9. ASSUME NEW d \in Nat
        PROVE  /\ Cardinality((IntentsOf(d))') <= IntentRoom
               /\ d >= Today' => Cardinality((IntentsOf(d))') + Cardinality(InHand')
                                   <= IntentRoom
    <3>1. Cardinality(InHand) >= 1
      BY <1>5, <2>1, FS_EmptySet
    <3>2. CASE d = Today
      <4>1. (IntentsOf(d))' = (IntentsOf(Today))'
        BY <2>3, <3>2 DEF IntentsOf
      <4>2. Cardinality(IntentsOf(d)) + Cardinality(InHand) <= IntentRoom
        BY <1>1, <1>2, <3>2 DEF IntentBudget
      <4>3. QED
        BY <1>2, <1>3, <1>4, <1>5, <2>2, <2>6, <2>7, <3>1, <3>2, <4>1, <4>2
    <3>3. CASE d # Today
      <4>1. (IntentsOf(d))' = IntentsOf(d)
        BY <2>5, <3>3
      <4>2. /\ Cardinality(IntentsOf(d)) <= IntentRoom
            /\ d >= Today => Cardinality(IntentsOf(d)) + Cardinality(InHand)
                               <= IntentRoom
        BY <1>1 DEF IntentBudget
      <4>3. QED
        BY <1>2, <1>3, <1>4, <1>5, <2>2, <2>3, <4>1, <4>2
    <3>4. QED
      BY <3>2, <3>3
  <2>10. QED
    BY <2>3, <2>9 DEF IntentBudget
<1>11. ASSUME NEW a \in Adapters, Cycle(a) PROVE IntentBudget'
  <2>1. /\ DOMAIN intents' = DOMAIN intents
        /\ \A i \in DOMAIN intents : intents'[i].ts = intents[i].ts
    BY <1>1, <1>11, CycleTransacts, Transaction
  <2>2. \A d \in Nat : (IntentsOf(d))' = IntentsOf(d)
    BY <2>1 DEF IntentsOf
  <2>3. InHand' = InHand /\ Today' = Today
    BY <1>11 DEF Cycle, InHand, Today
  <2>4. QED
    BY <1>2, <1>6, <1>11, <1>51, <2>2, <2>3 DEF Cycle, mishapVars
<1>12. QED
  <2>1. \/ UNCHANGED intents
        \/ \E o \in Operators : Emit(o)
        \/ \E a \in Adapters : Cycle(a)
    BY WhoWrites
  <2>2. \/ UNCHANGED draft
        \/ \E o \in Operators : Validate(o) \/ Emit(o) \/ Abandon(o)
    BY WhoWrites
  <2>3. QED
    BY <1>7, <1>8, <1>9, <1>10, <1>11, <2>1, <2>2

\* A set in two parts has the elements of both.
LEMMA TwoParts ==
    ASSUME NEW A, IsFiniteSet(A), NEW B, IsFiniteSet(B), A \cap B = {}, NEW S, A \cup B = S
    PROVE  Cardinality(S) = Cardinality(A) + Cardinality(B)
<1>1. Cardinality(A \cup B) = Cardinality(A) + Cardinality(B) - Cardinality(A \cap B)
  BY FS_Union
<1>2. Cardinality(A \cap B) = 0
  BY FS_EmptySet
<1>3. Cardinality(A) \in Nat /\ Cardinality(B) \in Nat
  BY FS_CardinalityType
<1>4. QED
  BY <1>1, <1>2, <1>3

\* A pass refreshes today's rows of the keys it chooses and adds rows for the others:
\* it adds rows only while there is a free slot, or when it could not read the count,
\* and then at most one per key.
LEMMA PromoteCounts ==
    ASSUME TypeOK, TypeOK', Next, KnownRows, ReviewBudget, NEW chosen \in SUBSET Keys,
           NEW unread \in SUBSET {"open", "reviews"}, MayBeChosen(chosen, unread),
           Misread(unread), queue' = Refreshed(chosen), UNCHANGED now
    PROVE  ReviewBudget'
<1> DEFINE kept == {r \in ReviewsOf(Today) : r.key \notin chosen}
           old == {r \in ReviewsOf(Today) : r.key \in chosen}
           new == [key : chosen, ts : {now}]
<1>1. IsFiniteSet(queue) /\ IsFiniteSet(ReviewsOf(Today)) /\ IsFiniteSet(chosen)
  BY FS_Subset, ChainAssumption DEF KnownRows, ReviewsOf
<1>2. IsFiniteSet(kept) /\ IsFiniteSet(old)
  BY <1>1, FS_Subset
<1>3. IsFiniteSet(new) /\ Cardinality(new) <= Cardinality(chosen)
  <2> DEFINE f == [k \in chosen |-> [key |-> k, ts |-> now]]
  <2>1. \A r \in new : \E k \in chosen : f[k] = r
    OBVIOUS
  <2>2. f \in Surjection(chosen, new)
    BY <2>1 DEF Surjection
  <2>3. QED
    BY <1>1, <2>2, FS_Surjection
<1>4. /\ PerCycle \in Nat /\ ReviewCap \in Nat \ {0}
      /\ ReviewRoom \in Int /\ ReviewRoom' \in Int
  BY ChainAssumption, Rooms
<1>5. /\ Cardinality(kept) \in Nat /\ Cardinality(old) \in Nat
      /\ Cardinality(new) \in Nat /\ Cardinality(chosen) \in Nat
      /\ Cardinality(ReviewsOf(Today)) \in Nat
  BY <1>1, <1>2, <1>3, FS_CardinalityType
<1>6. /\ Cardinality(chosen) <= PerCycle
      /\ "reviews" \notin unread => \A k \in chosen : ReviewSlot(k)
  BY DEF MayBeChosen
<1>61. /\ "reviews" \in unread => ReviewRoom' = ReviewRoom + PerCycle
       /\ "reviews" \notin unread => ReviewRoom' = ReviewRoom
  <2>1. misreads'["reviews"] = IF "reviews" \in unread THEN misreads["reviews"] + 1
                               ELSE misreads["reviews"]
    BY MisreadCounts DEF DailyCounts
  <2>2. QED
    BY <2>1, Rooms
<1>7. Cardinality(ReviewsOf(Today)) = Cardinality(kept) + Cardinality(old)
  <2>1. kept \cup old = ReviewsOf(Today) /\ kept \cap old = {}
    OBVIOUS
  <2>2. QED
    BY <1>2, <2>1, TwoParts
<1>8. Cardinality(kept \cup new) <= Cardinality(kept) + Cardinality(chosen)
  <2>1. IsFiniteSet(kept \cap new)
    BY <1>2, FS_Subset
  <2>2. Cardinality(kept \cap new) \in Nat
    BY <2>1, FS_CardinalityType
  <2>3. Cardinality(kept \cup new)
          = Cardinality(kept) + Cardinality(new) - Cardinality(kept \cap new)
    BY <1>2, <1>3, FS_Union
  <2>4. QED
    BY <1>3, <1>5, <2>2, <2>3
<1>9. Today' = Today /\ Today \in Nat /\ DayOf(now) = Today
  BY Days DEF Today, TypeOK
<1>10. (ReviewsOf(Today))' = kept \cup new
  BY <1>9 DEF ReviewsOf, Refreshed
<1>11. ASSUME NEW d \in Nat, d # Today PROVE (ReviewsOf(d))' = ReviewsOf(d)
  BY <1>9, <1>11 DEF ReviewsOf, Refreshed
<1>12. Cardinality(kept \cup new) <= ReviewRoom'
  <2>0. CASE "reviews" \in unread
    <3>1. Cardinality(ReviewsOf(Today)) <= ReviewRoom
      BY <1>9 DEF ReviewBudget
    <3>2. Cardinality(kept \cup new) \in Nat
      BY <1>2, <1>3, FS_Union, FS_CardinalityType
    <3>3. Cardinality(kept) <= ReviewRoom
      BY <1>4, <1>5, <1>7, <3>1
    <3>4. ReviewRoom' = ReviewRoom + PerCycle
      BY <1>61, <2>0
    <3>5. Cardinality(kept \cup new) <= ReviewRoom + PerCycle
      BY <1>4, <1>5, <1>6, <1>8, <3>2, <3>3
    <3>6. QED
      BY <3>4, <3>5
  <2>1. CASE "reviews" \notin unread /\ Cardinality(ReviewsOf(Today)) < ReviewCap
    <3>1. Cardinality(kept) <= ReviewCap - 1
      BY <1>4, <1>5, <1>7, <2>1
    <3>2. Cardinality(kept \cup new) \in Nat
      BY <1>2, <1>3, FS_Union, FS_CardinalityType
    <3>3. ReviewCap - 1 + PerCycle <= ReviewRoom
      <4>1. misreads["reviews"] \in Nat
        BY DEF TypeOK, DailyCounts
      <4>2. \A m \in Nat : PerCycle <= PerCycle * (1 + m)
        BY <1>4
      <4>3. PerCycle * (1 + misreads["reviews"]) \in Nat
        BY <1>4, <4>1
      <4>4. QED
        BY <1>4, <4>1, <4>2, <4>3 DEF ReviewRoom
    <3>4. Cardinality(kept \cup new) <= ReviewRoom
      BY <1>4, <1>5, <1>6, <1>8, <3>1, <3>2, <3>3
    <3>5. QED
      BY <1>61, <2>1, <3>4
  <2>2. CASE "reviews" \notin unread /\ ~(Cardinality(ReviewsOf(Today)) < ReviewCap)
    <3>1. \A k \in chosen : \E r \in old : r.key = k
      <4>1. \A k \in chosen : ReviewSlot(k)
        BY <1>6, <2>2
      <4>2. \A k \in chosen : \E r \in ReviewsOf(Today) : r.key = k
        BY <2>2, <4>1 DEF ReviewSlot, ReviewedToday
      <4>3. QED
        BY <4>2
    <3>2. Cardinality(chosen) <= Cardinality(old)
      <4> DEFINE g == [r \in old |-> r.key]
      <4>1. \A k \in chosen : \E r \in old : g[r] = k
        BY <3>1
      <4>2. g \in Surjection(old, chosen)
        BY <4>1 DEF Surjection
      <4>3. QED
        BY <1>2, <4>2, FS_Surjection
    <3>3. Cardinality(ReviewsOf(Today)) <= ReviewRoom
      BY <1>9 DEF ReviewBudget
    <3>4. Cardinality(kept \cup new) \in Nat
      BY <1>2, <1>3, FS_Union, FS_CardinalityType
    <3>5. Cardinality(kept \cup new) <= ReviewRoom
      BY <1>4, <1>5, <1>7, <1>8, <3>2, <3>3, <3>4
    <3>6. QED
      BY <1>61, <2>2, <3>5
  <2>3. QED
    BY <2>0, <2>1, <2>2
<1> HIDE DEF kept, new, old
<1>13. ASSUME NEW d \in Nat
       PROVE  Cardinality((ReviewsOf(d))') <= ReviewRoom'
  <2>1. CASE d = Today
    <3>1. (ReviewsOf(d))' = kept \cup new
      BY <1>9, <1>10, <2>1 DEF ReviewsOf
    <3>2. QED
      BY <1>12, <3>1
  <2>2. CASE d # Today
    <3>1. (ReviewsOf(d))' = ReviewsOf(d) /\ Cardinality(ReviewsOf(d)) <= ReviewRoom
      BY <1>11, <2>2 DEF ReviewBudget
    <3>2. Cardinality(ReviewsOf(d)) \in Nat
      BY <1>1, FS_Subset, FS_CardinalityType DEF ReviewsOf
    <3>3. QED
      BY <1>4, <1>61, <3>1, <3>2
  <2>3. QED
    BY <2>1, <2>2
<1>14. QED
  BY <1>13 DEF ReviewBudget

\* Only a pass of the promotion controller queues reviews.
LEMMA ReviewBudgetStep == CalendarInv /\ Next => ReviewBudget'
<1> SUFFICES ASSUME CalendarInv, Next PROVE ReviewBudget'
  OBVIOUS
<1>1. TypeOK /\ TypeOK' /\ KnownRows /\ ReviewBudget
  BY TypeStep DEF CalendarInv
<1>2. CASE Promote
  <2>1. PICK chosen \in SUBSET Keys, unread \in SUBSET {"open", "reviews"} :
          MayBeChosen(chosen, unread) /\ Misread(unread) /\ queue' = Refreshed(chosen)
    BY <1>2 DEF Promote
  <2>2. UNCHANGED now
    BY <1>2 DEF Promote
  <2>3. QED
    BY <1>1, <2>1, <2>2, PromoteCounts
<1>3. CASE UNCHANGED <<promo, queue>>
  <2>1. CASE Promote
    BY <1>2, <2>1
  <2>2. CASE UNCHANGED misreads
    BY <1>1, <1>3, <2>2 DEF ReviewBudget, ReviewsOf, ReviewRoom
  <2>3. ASSUME NEW o \in Operators, Validate(o) PROVE ReviewBudget'
    <3>1. misreads'["reviews"] = misreads["reviews"]
      BY <1>1, <2>3, MisreadCounts DEF Validate, DailyCounts
    <3>2. ReviewRoom' = ReviewRoom
      BY <1>1, <3>1, Rooms
    <3>3. QED
      BY <1>1, <1>3, <3>2 DEF ReviewBudget, ReviewsOf
  <2>4. QED
    BY <2>1, <2>2, <2>3, WhoWrites
<1>4. QED
  BY <1>2, <1>3, WhoWrites

-----------------------------------------------------------------------------
(* Theorems.                                                               *)

\* The rows, the lock and the budgets of all days, step by step.
LEMMA CalendarHolds == Spec => []CalendarInv
<1>1. Init => CalendarInv
  BY InitHolds
<1>2. CalendarInv /\ [Next]_vars => CalendarInv'
  <2> SUFFICES ASSUME CalendarInv, [Next]_vars PROVE CalendarInv'
    OBVIOUS
  <2>1. CASE Next
    BY <2>1, TypeStep, KnownRowsStep, LockStep, CapsStep, OnePositionStep, VerdictStep,
       IntentBudgetStep, ReviewBudgetStep DEF CalendarInv
  <2>2. CASE UNCHANGED vars
    BY <2>2 DEF vars, chainVars, adapterVars, mishapVars, CalendarInv, TypeOK, KnownRows,
       LockInv, Inside, OpenCaps, OpenIds, OpenIdsOf, OnePositionPerIntent, VerdictsStand, Mapped,
       IntentBudget, IntentsOf, InHand, Today, ReviewBudget, ReviewsOf, IntentRoom,
       ReviewRoom
  <2>3. QED
    BY <2>1, <2>2
<1>3. QED
  BY <1>1, <1>2, PTL DEF Spec

\* The invariant holds in every state of every behaviour.
THEOREM ChainInvariant == Spec => []ChainInv
<1>1. CalendarInv => ChainInv
  <2> SUFFICES ASSUME CalendarInv PROVE ChainInv
    OBVIOUS
  <2>1. \A d \in 0 .. Today : d \in Nat
    OBVIOUS
  <2>2. Today \in Nat /\ Today >= Today
    BY Days DEF CalendarInv, TypeOK, Today
  <2>3. DailyIntents /\ DailyReviews
    BY <2>1 DEF CalendarInv, IntentBudget, ReviewBudget, DailyIntents, DailyReviews
  <2>4. DraftsCount
    BY <2>2 DEF CalendarInv, IntentBudget, DraftsCount
  <2>5. QED
    BY <2>3, <2>4 DEF CalendarInv, ChainInv
<1>2. QED
  BY <1>1, CalendarHolds, PTL

\* Every variable keeps its type.
THEOREM TypeCorrect == Spec => []TypeOK
<1>1. ChainInv => TypeOK
  BY DEF ChainInv
<1>2. QED
  BY <1>1, ChainInvariant, PTL

\* The adapter never opens beyond its caps, whatever becomes of its lock file.
THEOREM CapsHold == Spec => []OpenCaps
<1>1. ChainInv => OpenCaps
  BY DEF ChainInv
<1>2. QED
  BY <1>1, ChainInvariant, PTL

\* An intent is bound to one position at most, whatever becomes of the lock file.
THEOREM IntentsAreBoundOnce == Spec => []OnePositionPerIntent
<1>1. ChainInv => OnePositionPerIntent
  BY DEF ChainInv
<1>2. QED
  BY <1>1, ChainInvariant, PTL

\* What the intent table says of an intent is what became of it.
THEOREM VerdictsAreTrue == Spec => []VerdictsStand
<1>1. ChainInv => VerdictsStand
  BY DEF ChainInv
<1>2. QED
  BY <1>1, ChainInvariant, PTL

\* daily_intent_count(), validate_quant_contract() and emit: on any day the cap on intents
\* is exceeded by the rival operators and the validations that could not read the count.
THEOREM IntentsAreCapped == Spec => []DailyIntents
<1>1. ChainInv => DailyIntents
  BY DEF ChainInv
<1>2. QED
  BY <1>1, ChainInvariant, PTL

\* daily_contract_count() and write_outputs(): on any day the cap on reviews is exceeded
\* by less than one pass, and by one more pass for each that could not read the count.
THEOREM ReviewsAreCapped == Spec => []DailyReviews
<1>1. ChainInv => DailyReviews
  BY DEF ChainInv
<1>2. QED
  BY <1>1, ChainInvariant, PTL
=============================================================================
