------------------------ MODULE StateIntegrity_proofs ------------------------
(***************************************************************************)
(* Proofs about StateIntegrity, for any number of symbols, operators and   *)
(* legacy positions: what is closed is booked, once while the apply        *)
(* protocol is kept, and an applied plan leaves no conflict behind.        *)
(***************************************************************************)
EXTENDS StateIntegrity, TableLemmas

-----------------------------------------------------------------------------
(* Lemmas about tables.                                                    *)

\* Changing rows in place keeps a table a table.
LEMMA ChangedInPlace ==
    ASSUME NEW Row, NEW T \in Seq(Row), NEW U \in [DOMAIN T -> Row]
    PROVE  U \in Seq(Row) /\ DOMAIN U = DOMAIN T /\ Len(U) = Len(T)
<1>1. DOMAIN T = 1 .. Len(T) /\ Len(T) \in Nat
  BY LenProperties
<1>2. U \in Seq(Row)
  BY <1>1, SeqDef
<1>3. QED
  BY <1>1, <1>2, LenProperties

\* The two tables have the same ids, and 0 is not one of them.
LEMMA SameIds ==
    ASSUME TypeOK
    PROVE  /\ DOMAIN booked = DOMAIN positions
           /\ 0 \notin DOMAIN positions /\ DOMAIN positions \subseteq Nat
           /\ \A p \in DOMAIN positions : positions[p] \in Position /\ booked[p] \in Booked
<1>1. DOMAIN positions = 1 .. Len(positions) /\ DOMAIN booked = 1 .. Len(booked)
  BY LenProperties DEF TypeOK
<1>2. \A p \in DOMAIN positions : positions[p] \in Position
  BY ElementOfSeq, <1>1 DEF TypeOK
<1>3. \A p \in DOMAIN booked : booked[p] \in Booked
  BY ElementOfSeq, <1>1 DEF TypeOK
<1>4. Len(booked) = Len(positions)
  BY DEF TypeOK
<1>5. QED
  BY <1>1, <1>2, <1>3, <1>4

\* Applying closes what was planned, books it once more, and touches nothing else.
LEMMA Applying ==
    ASSUME TypeOK, NEW o \in Operators, Apply(o)
    PROVE  /\ positions' \in Seq(Position) /\ DOMAIN positions' = DOMAIN positions
           /\ booked' \in Seq(Booked) /\ Len(booked') = Len(positions')
           /\ \A p \in DOMAIN positions :
                /\ positions'[p].symbol = positions[p].symbol
                /\ positions'[p].open = (positions[p].open /\ p \notin Planned(o))
                /\ Closings(p)' = IF p \in Planned(o) THEN Closings(p) + 1 ELSE Closings(p)
<1>1. positions' \in [DOMAIN positions -> Position]
  BY SameIds DEF Apply, Position
<1>2. booked' \in [DOMAIN booked -> Booked]
  <2>1. \A p \in DOMAIN booked : [booked[p] EXCEPT !.reconciliation = @ + 1] \in Booked
    BY SameIds DEF Booked
  <2>2. QED
    BY <2>1, SameIds DEF Apply
<1>3. /\ positions' \in Seq(Position) /\ DOMAIN positions' = DOMAIN positions
      /\ Len(positions') = Len(positions)
  BY <1>1, ChangedInPlace DEF TypeOK
<1>4. booked' \in Seq(Booked) /\ Len(booked') = Len(booked)
  BY <1>2, ChangedInPlace DEF TypeOK
<1>5. Len(booked') = Len(positions')
  BY <1>3, <1>4 DEF TypeOK
<1>6. ASSUME NEW p \in DOMAIN positions
      PROVE  /\ positions'[p].symbol = positions[p].symbol
             /\ positions'[p].open = (positions[p].open /\ p \notin Planned(o))
  <2>1. positions[p] \in Position
    BY SameIds
  <2>2. positions'[p] = IF p \in Planned(o) THEN [positions[p] EXCEPT !.open = FALSE]
                                           ELSE positions[p]
    BY DEF Apply
  <2>3. QED
    BY <2>1, <2>2 DEF Position
<1>7. ASSUME NEW p \in DOMAIN positions
      PROVE  Closings(p)' = IF p \in Planned(o) THEN Closings(p) + 1 ELSE Closings(p)
  <2>1. booked[p] \in Booked
    BY SameIds
  <2>2. booked'[p] = IF p \in Planned(o) THEN [booked[p] EXCEPT !.reconciliation = @ + 1]
                                        ELSE booked[p]
    BY SameIds DEF Apply
  <2>3. QED
    BY <2>1, <2>2 DEF Closings, Booked
<1>8. QED
  BY <1>3, <1>4, <1>5, <1>6, <1>7

\* Booking an exit counts one trade more for its position.
LEMMA Booking ==
    ASSUME TypeOK, NEW p \in wallet, BookExit(p)
    PROVE  /\ booked' \in Seq(Booked) /\ Len(booked') = Len(booked)
           /\ p \in DOMAIN positions
           /\ \A q \in DOMAIN positions :
                Closings(q)' = IF q = p THEN Closings(p) + 1 ELSE Closings(q)
<1>1. p \in DOMAIN positions /\ p \in DOMAIN booked
  BY SameIds DEF TypeOK
<1>2. booked[p] \in Booked
  BY <1>1, SameIds
<1>3. [booked[p] EXCEPT !.strategy = @ + 1] \in Booked
  BY <1>2 DEF Booked
<1>4. booked' \in [DOMAIN booked -> Booked]
  BY <1>1, <1>3, SameIds DEF BookExit
<1>5. booked' \in Seq(Booked) /\ Len(booked') = Len(booked)
  BY <1>4, ChangedInPlace DEF TypeOK
<1>6. booked'[p] = [booked[p] EXCEPT !.strategy = @ + 1]
  BY <1>1 DEF BookExit
<1>7. \A q \in DOMAIN positions : q # p => booked'[q] = booked[q]
  BY SameIds DEF BookExit
<1>8. Closings(p)' = Closings(p) + 1
  BY <1>2, <1>6 DEF Closings, Booked
<1>9. QED
  BY <1>1, <1>5, <1>7, <1>8 DEF Closings

\* The runner's updates: the exit closes one row, the partial exit only marks one.
LEMMA Updating ==
    ASSUME TypeOK, WriteExit \/ \E p \in wallet : WritePart(p)
    PROVE  /\ positions' \in Seq(Position) /\ DOMAIN positions' = DOMAIN positions
           /\ Len(positions') = Len(positions)
           /\ \A q \in DOMAIN positions :
                /\ positions'[q].symbol = positions[q].symbol
                /\ WriteExit => positions'[q].open = (positions[q].open /\ q # work)
                /\ ~WriteExit => positions'[q].open = positions[q].open
<1>1. CASE WriteExit
  <2>1. work \in DOMAIN positions
    BY <1>1 DEF WriteExit, TypeOK
  <2>2. \A q \in DOMAIN positions : positions[q] \in Position
    BY SameIds
  <2>3. positions' \in [DOMAIN positions -> Position]
    BY <1>1, <2>1, <2>2 DEF WriteExit, Position
  <2>4. \A q \in DOMAIN positions :
          /\ positions'[q].symbol = positions[q].symbol
          /\ positions'[q].open = (positions[q].open /\ q # work)
    BY <1>1, <2>1, <2>2 DEF WriteExit, Position
  <2>5. QED
    BY <1>1, <2>3, <2>4, ChangedInPlace DEF TypeOK
<1>2. CASE ~WriteExit
  <2>1. PICK p \in wallet : WritePart(p)
    BY <1>2
  <2>2. p \in DOMAIN positions
    BY DEF TypeOK
  <2>3. \A q \in DOMAIN positions : positions[q] \in Position
    BY SameIds
  <2>4. positions' \in [DOMAIN positions -> Position]
    BY <2>1, <2>2, <2>3 DEF WritePart, Position
  <2>5. \A q \in DOMAIN positions :
          /\ positions'[q].symbol = positions[q].symbol
          /\ positions'[q].open = positions[q].open
    BY <2>1, <2>2, <2>3 DEF WritePart, Position
  <2>6. QED
    BY <1>2, <2>4, <2>5, ChangedInPlace DEF TypeOK
<1>3. QED
  BY <1>1, <1>2

\* Opening adds one open position, unbooked, of a symbol that has none.
LEMMA Opening ==
    ASSUME TypeOK, NEW s \in Symbols, Open(s)
    PROVE  /\ positions' \in Seq(Position)
           /\ booked' \in Seq(Booked) /\ Len(booked') = Len(positions')
           /\ \A q \in DOMAIN positions :
                positions'[q] = positions[q] /\ Closings(q)' = Closings(q)
           /\ \E n \in Nat \ DOMAIN positions :
                /\ DOMAIN positions' = DOMAIN positions \cup {n} /\ n # 0
                /\ positions'[n].open /\ positions'[n].symbol = s /\ Closings(n)' = 0
<1> DEFINE row == [symbol |-> s, open |-> TRUE, sound |-> TRUE, part |-> FALSE]
<1>1. row \in Position /\ positions' = Append(positions, row)
  BY DEF Open, Position
<1>2. Unbooked \in Booked /\ booked' = Append(booked, Unbooked)
  BY DEF Open, Booked, Unbooked
<1>3. row.open /\ row.symbol = s
  OBVIOUS
<1> HIDE DEF row
<1>4. Len(booked) = Len(positions) /\ positions \in Seq(Position) /\ booked \in Seq(Booked)
  BY DEF TypeOK
<1>5. /\ positions' \in Seq(Position)
      /\ DOMAIN positions' = DOMAIN positions \cup {Len(positions) + 1}
      /\ Len(positions) + 1 \notin DOMAIN positions
      /\ positions'[Len(positions) + 1] = row
      /\ \A q \in DOMAIN positions : positions'[q] = positions[q]
  BY <1>1, <1>4, AppendRow
<1>6. /\ booked' \in Seq(Booked)
      /\ booked'[Len(booked) + 1] = Unbooked
      /\ \A q \in DOMAIN booked : booked'[q] = booked[q]
  BY <1>2, <1>4, AppendRow
<1>7. Len(positions) \in Nat /\ Len(positions') = Len(positions) + 1
      /\ Len(booked') = Len(booked) + 1
  BY <1>1, <1>2, <1>4, LenProperties, AppendProperties
<1>8. PICK n \in Nat : n = Len(positions) + 1
  BY <1>7
<1>9. Closings(n)' = 0
  BY <1>4, <1>6, <1>8 DEF Closings, Unbooked
<1>10. \A q \in DOMAIN positions : Closings(q)' = Closings(q)
  BY <1>6, SameIds DEF Closings
<1>11. positions'[n].open /\ positions'[n].symbol = s
  BY <1>3, <1>5, <1>8
<1>12. DOMAIN positions' = DOMAIN positions \cup {n} /\ n # 0 /\ n \notin DOMAIN positions
  BY <1>5, <1>7, <1>8
<1>13. QED
  BY <1>4, <1>5, <1>6, <1>7, <1>9, <1>10, <1>11, <1>12

\* Every step leaves the tables alone or is one of those.
LEMMA WhoWrites ==
    ASSUME Next
    PROVE  \/ UNCHANGED tableVars
           \/ \E o \in Operators : Apply(o)
           \/ \E p \in wallet : BookExit(p)
           \/ WriteExit \/ \E p \in wallet : WritePart(p)
           \/ \E s \in Symbols : Open(s)
BY DEF Next, DryRun, Check, Fail, Start, Stop, BeginPass, Skip, MarkArrives, MarkAges,
       tableVars

-----------------------------------------------------------------------------
(* Types.                                                                  *)

\* What an operator is shown is a plan.
LEMMA CurrentPlanTyped == TypeOK => CurrentPlan \in Plan
<1> SUFFICES ASSUME TypeOK PROVE CurrentPlan \in Plan
  OBVIOUS
<1>1. \A p \in DOMAIN positions : Close(p) \in [id : Nat, row : Nat, part : BOOLEAN]
  <2> TAKE p \in DOMAIN positions
  <2>1. positions[p] \in Position /\ p \in Nat
    BY SameIds
  <2>2. MarkOf(p) \in [row : Nat, recent : BOOLEAN]
    BY <2>1 DEF MarkOf, Position, TypeOK
  <2>3. QED
    BY <2>1, <2>2 DEF Close, Position
<1>2. InConflict \subseteq DOMAIN positions /\ Blocked \subseteq DOMAIN positions
  BY DEF InConflict, OpenIds, Blocked
<1>3. QED
  BY <1>1, <1>2, SameIds DEF CurrentPlan, Plan

\* There are no trades and no plans at the start.
LEMMA InitTyped == Init => TypeOK
<1> SUFFICES ASSUME Init PROVE TypeOK
  OBVIOUS
<1>1. PICK n \in 0 .. MaxLegacy : positions \in [1 .. n -> Legacy]
  BY DEF Init
<1>2. Legacy \subseteq Position
  BY DEF Legacy, Position
<1>3. n \in Nat
  BY IntegrityAssumption
<1>4. positions \in [1 .. n -> Position]
  BY <1>1, <1>2
<1>5. positions \in Seq(Position)
  BY <1>3, <1>4, SeqDef
<1>6. booked \in [DOMAIN positions -> Booked]
  BY DEF Init, Unbooked, Booked
<1>7. booked \in [1 .. n -> Booked]
  BY <1>1, <1>6
<1>8. booked \in Seq(Booked)
  BY <1>3, <1>7, SeqDef
<1>9. Len(booked) = Len(positions)
  BY <1>3, <1>4, <1>5, <1>7, <1>8, LenProperties
<1>10. QED
  BY <1>5, <1>8, <1>9 DEF Init, TypeOK

\* Every action keeps the types.
LEMMA TypeStep == TypeOK /\ Next => TypeOK'
<1> SUFFICES ASSUME TypeOK, Next PROVE TypeOK'
  OBVIOUS
<1>1. ASSUME NEW o \in Operators, DryRun(o) \/ Check(o) PROVE TypeOK'
  BY <1>1, CurrentPlanTyped DEF TypeOK, DryRun, Check, tableVars, runnerVars
<1>2. ASSUME NEW o \in Operators, Fail(o) PROVE TypeOK'
  BY <1>2 DEF TypeOK, Fail, Upset, tableVars, runnerVars
<1>3. ASSUME NEW o \in Operators, Apply(o) PROVE TypeOK'
  <2>1. /\ positions' \in Seq(Position) /\ DOMAIN positions' = DOMAIN positions
        /\ booked' \in Seq(Booked) /\ Len(booked') = Len(positions')
    BY <1>3, Applying
  <2>2. QED
    BY <1>3, <2>1 DEF TypeOK, Apply, runnerVars
<1>4. ASSUME Start \/ Stop \/ BeginPass PROVE TypeOK'
  <2>1. CASE Start
    BY <2>1 DEF TypeOK, Start, tableVars, operatorVars
  <2>2. CASE Stop
    <3>1. /\ running' \in BOOLEAN /\ wallet' = {} /\ work' = 0
          /\ breach' \in BOOLEAN
      BY <2>2 DEF Stop
    <3>2. upsets' \in Nat
      BY <2>2 DEF Stop, Upset, TypeOK
    <3>3. UNCHANGED <<tableVars, mark, operatorVars>>
      BY <2>2 DEF Stop
    <3>4. QED
      BY <3>1, <3>2, <3>3 DEF TypeOK, tableVars, operatorVars
  <2>3. CASE BeginPass
    BY <2>3 DEF TypeOK, BeginPass, OpenIds, tableVars, operatorVars
  <2>4. QED
    BY <1>4, <2>1, <2>2, <2>3
<1>5. ASSUME WriteExit \/ \E p \in wallet : WritePart(p) PROVE TypeOK'
  <2>1. /\ positions' \in Seq(Position) /\ DOMAIN positions' = DOMAIN positions
        /\ Len(positions') = Len(positions)
    BY <1>5, Updating
  <2>2. QED
    BY <1>5, <2>1 DEF TypeOK, WriteExit, WritePart, operatorVars
<1>6. ASSUME NEW p \in wallet, BookExit(p) PROVE TypeOK'
  <2>1. booked' \in Seq(Booked) /\ Len(booked') = Len(booked) /\ p \in DOMAIN positions
    BY <1>6, Booking
  <2>2. QED
    BY <1>6, <2>1 DEF TypeOK, BookExit, operatorVars
<1>7. ASSUME NEW p \in wallet, Skip(p) PROVE TypeOK'
  BY <1>7 DEF TypeOK, Skip, tableVars, operatorVars
<1>8. ASSUME NEW s \in Symbols, Open(s) PROVE TypeOK'
  <2>1. /\ positions' \in Seq(Position)
        /\ booked' \in Seq(Booked) /\ Len(booked') = Len(positions')
        /\ DOMAIN positions \subseteq DOMAIN positions'
    BY <1>8, Opening
  <2>2. QED
    BY <1>8, <2>1 DEF TypeOK, Open, runnerVars, operatorVars
<1>9. ASSUME NEW s \in Symbols, MarkArrives(s) \/ MarkAges(s) PROVE TypeOK'
  <2>1. mark[s] \in [row : Nat, recent : BOOLEAN]
    BY DEF TypeOK
  <2>2. /\ [row |-> mark[s].row + 1, recent |-> TRUE] \in [row : Nat, recent : BOOLEAN]
        /\ [row |-> mark[s].row, recent |-> FALSE] \in [row : Nat, recent : BOOLEAN]
    BY <2>1
  <2>3. mark' \in [Symbols -> [row : Nat, recent : BOOLEAN]]
    BY <1>9, <2>2 DEF TypeOK, MarkArrives, MarkAges
  <2>4. UNCHANGED <<tableVars, runnerVars, operatorVars, breach, upsets>>
    BY <1>9 DEF MarkArrives, MarkAges
  <2>5. QED
    BY <2>3, <2>4 DEF TypeOK, tableVars, runnerVars, operatorVars
<1>10. QED
  BY <1>1, <1>2, <1>3, <1>4, <1>5, <1>6, <1>7, <1>8, <1>9 DEF Next

-----------------------------------------------------------------------------
(* Bookings and turns.                                                     *)

\* Only an operator's steps change what is in hand.
LEMMA HandsKept ==
    ASSUME plan' = plan
    PROVE  InHand' = InHand /\ \A o \in Operators : Planned(o)' = Planned(o)
BY DEF InHand, Planned

\* After an operator's last step of an apply its hands are empty.
LEMMA HandEmptied ==
    ASSUME TypeOK, NEW o \in Operators, Apply(o) \/ Fail(o)
    PROVE  /\ o \in InHand /\ InHand' = InHand \ {o}
           /\ \A u \in InHand' : Planned(u)' = Planned(u)
BY DEF InHand, Planned, Apply, Fail, TypeOK

\* Only booking an exit gives the runner a close in hand, and stopping takes it away.
LEMMA RunnerSteps ==
    ASSUME Bookings, Next
    PROVE  \/ work' \in {work, 0} /\ (~running' => wallet' = {} /\ work' = 0)
           \/ \E p \in wallet : BookExit(p)
<1>1. ASSUME UNCHANGED runnerVars
      PROVE  work' \in {work, 0} /\ (~running' => wallet' = {} /\ work' = 0)
  BY <1>1 DEF runnerVars, Bookings
<1>2. ASSUME NEW o \in Operators, DryRun(o) \/ Check(o) \/ Apply(o) \/ Fail(o)
      PROVE  UNCHANGED runnerVars
  BY <1>2 DEF DryRun, Check, Apply, Fail
<1>3. ASSUME NEW s \in Symbols, Open(s) \/ MarkArrives(s) \/ MarkAges(s)
      PROVE  UNCHANGED runnerVars
  BY <1>3 DEF Open, MarkArrives, MarkAges
<1>4. ASSUME Start \/ Stop \/ BeginPass \/ WriteExit
      PROVE  work' \in {work, 0} /\ (~running' => wallet' = {} /\ work' = 0)
  BY <1>4 DEF Start, Stop, BeginPass, WriteExit, Between
<1>5. ASSUME NEW p \in wallet, WritePart(p) \/ Skip(p)
      PROVE  work' \in {work, 0} /\ (~running' => wallet' = {} /\ work' = 0)
  BY <1>5 DEF WritePart, Skip, Between
<1>6. QED
  BY <1>1, <1>2, <1>3, <1>4, <1>5 DEF Next

\* Every step keeps a trade before the update of its position.
LEMMA BookingsStep == TypeOK /\ Bookings /\ Next => Bookings'
<1> SUFFICES ASSUME TypeOK, Bookings, Next PROVE Bookings'
  OBVIOUS
<1>1. ASSUME UNCHANGED tableVars PROVE Bookings'
  <2>1. UNCHANGED <<positions, booked>> /\ \A p : Closings(p)' = Closings(p)
    BY <1>1 DEF tableVars, Closings
  <2>2. \/ work' \in {work, 0} /\ (~running' => wallet' = {} /\ work' = 0)
        \/ \E p \in wallet : BookExit(p)
    BY RunnerSteps
  <2>3. ASSUME NEW p \in wallet, BookExit(p) PROVE FALSE
    <3>1. p \in DOMAIN positions /\ Closings(p)' = Closings(p) + 1
      BY <2>3, Booking
    <3>2. Closings(p) \in Nat
      BY <3>1, SameIds DEF Closings, Booked
    <3>3. QED
      BY <2>1, <3>1, <3>2
  <2>4. work' \in {work, 0} /\ (~running' => wallet' = {} /\ work' = 0)
    BY ONLY <2>2, <2>3
  <2>5. \A p \in DOMAIN positions' : ~positions'[p].open => Closings(p)' > 0
    BY <2>1 DEF Bookings
  <2>6. ASSUME work' # 0 PROVE (Closings(work) > 0)'
    <3>1. work' = work
      BY <2>4, <2>6
    <3>2. QED
      BY <1>1, <2>6, <3>1 DEF Bookings, Closings, tableVars
  <2>7. QED
    BY <2>4, <2>5, <2>6 DEF Bookings
<1>2. ASSUME NEW o \in Operators, Apply(o) PROVE Bookings'
  <2>1. /\ DOMAIN positions' = DOMAIN positions
        /\ \A p \in DOMAIN positions :
             /\ positions'[p].open = (positions[p].open /\ p \notin Planned(o))
             /\ Closings(p)' = IF p \in Planned(o) THEN Closings(p) + 1 ELSE Closings(p)
    BY <1>2, Applying
  <2>2. \A p \in DOMAIN positions : Closings(p) \in Nat
    BY SameIds DEF Closings, Booked
  <2>3. \A p \in DOMAIN positions : Closings(p) > 0 => Closings(p)' > 0
    BY <2>1, <2>2
  <2>4. ASSUME NEW p \in DOMAIN positions', ~positions'[p].open PROVE Closings(p)' > 0
    <3>1. CASE p \in Planned(o)
      BY <2>1, <2>2, <3>1
    <3>2. CASE p \notin Planned(o)
      <4>1. ~positions[p].open /\ p \in DOMAIN positions
        BY <2>1, <2>4, <3>2
      <4>2. QED
        BY <4>1, <2>3 DEF Bookings
    <3>3. QED
      BY <3>1, <3>2
  <2>5. UNCHANGED <<running, wallet, work>>
    BY <1>2 DEF Apply, runnerVars
  <2>6. PICK w \in DOMAIN positions \cup {0} : w = work
    BY DEF TypeOK
  <2>7. w # 0 => Closings(w)' > 0
    BY <2>3, <2>6 DEF Bookings
  <2>8. (work # 0 => Closings(work) > 0)'
    BY <2>5, <2>6, <2>7 DEF Closings
  <2>9. QED
    BY <2>4, <2>5, <2>8 DEF Bookings
<1>3. ASSUME NEW p \in wallet, BookExit(p) PROVE Bookings'
  <2>1. /\ p \in DOMAIN positions
        /\ \A q \in DOMAIN positions :
             Closings(q)' = IF q = p THEN Closings(p) + 1 ELSE Closings(q)
    BY <1>3, Booking
  <2>2. \A q \in DOMAIN positions : Closings(q) \in Nat
    BY SameIds DEF Closings, Booked
  <2>3. positions' = positions /\ running' = running /\ running /\ work' = p
    BY <1>3 DEF BookExit, Between
  <2>4. Closings(p)' > 0
    BY <2>1, <2>2
  <2>5. (Closings(work) > 0)'
    BY <2>3, <2>4 DEF Closings
  <2>6. \A q \in DOMAIN positions : Closings(q) > 0 => Closings(q)' > 0
    BY <2>1, <2>2
  <2>7. \A q \in DOMAIN positions' : ~positions'[q].open => Closings(q)' > 0
    BY <2>3, <2>6 DEF Bookings
  <2>8. QED
    BY <2>3, <2>5, <2>7 DEF Bookings
<1>4. ASSUME WriteExit \/ \E p \in wallet : WritePart(p) PROVE Bookings'
  <2>1. /\ DOMAIN positions' = DOMAIN positions
        /\ \A q \in DOMAIN positions :
             ~positions'[q].open => ~positions[q].open \/ (WriteExit /\ q = work)
    BY <1>4, Updating
  <2>2. booked' = booked /\ running' = running /\ running /\ work' \in {work, 0}
        /\ (WriteExit => work # 0)
    BY <1>4 DEF WriteExit, WritePart, Between
  <2>3. \A q : Closings(q)' = Closings(q)
    BY <2>2 DEF Closings
  <2>4. \A q \in DOMAIN positions' : ~positions'[q].open => Closings(q)' > 0
    BY <2>1, <2>2, <2>3 DEF Bookings
  <2>5. (work # 0 => Closings(work) > 0)'
    BY <2>2 DEF Bookings, Closings
  <2>6. QED
    BY <2>2, <2>4, <2>5 DEF Bookings
<1>5. ASSUME NEW s \in Symbols, Open(s) PROVE Bookings'
  <2>1. PICK n \in Nat \ DOMAIN positions :
          /\ DOMAIN positions' = DOMAIN positions \cup {n}
          /\ positions'[n].open
    BY <1>5, Opening
  <2>2. \A q \in DOMAIN positions :
          positions'[q] = positions[q] /\ Closings(q)' = Closings(q)
    BY <1>5, Opening
  <2>3. running' = running /\ running /\ work' = work /\ work = 0
    BY <1>5 DEF Open, Between, runnerVars
  <2>4. QED
    BY <2>1, <2>2, <2>3 DEF Bookings
<1>6. QED
  BY <1>1, <1>2, <1>3, <1>4, <1>5, WhoWrites

\* While the protocol is kept, every step keeps the turns.
LEMMA TurnsStep == IntegrityInv /\ Next => TakingTurns'
<1> SUFFICES ASSUME IntegrityInv, Next, ~breach' PROVE TakingTurns'
  BY DEF TakingTurns
<1>1. TypeOK /\ Bookings /\ PlansCover
  BY DEF IntegrityInv
<1>2. \A p \in DOMAIN positions : Closings(p) \in Nat /\ positions[p].open \in BOOLEAN
  BY <1>1, SameIds DEF Closings, Booked, Position
<1>3. ~breach
  BY DEF Next, DryRun, Check, Apply, Fail, Start, Stop, BeginPass, WriteExit, BookExit,
         WritePart, Skip, Open, MarkArrives, MarkAges
<1>4. /\ InHand # {} => ~running
      /\ \A o1, o2 \in InHand : o1 = o2
      /\ \A o \in InHand : Planned(o) \subseteq OpenIds
      /\ \A p \in wallet : p # work /\ positions[p].open
      /\ work # 0 => positions[work].open /\ Closings(work) = 1
      /\ \A p \in DOMAIN positions \ {work} :
            Closings(p) = IF positions[p].open THEN 0 ELSE 1
  BY <1>3 DEF IntegrityInv, TakingTurns
<1>5. ASSUME UNCHANGED tableVars
      PROVE  /\ \A p : Closings(p)' = Closings(p)
             /\ positions' = positions /\ OpenIds' = OpenIds
             /\ work' = work => (work # 0 => positions[work].open /\ Closings(work) = 1)'
  BY <1>4, <1>5 DEF tableVars, Closings, OpenIds
<1>6. ASSUME NEW o \in Operators, DryRun(o) PROVE TakingTurns'
  BY <1>4, <1>5, <1>6, HandsKept DEF TakingTurns, DryRun, runnerVars, InHand
<1>7. ASSUME NEW o \in Operators, Check(o) PROVE TakingTurns'
  <2>1. InHand = {} /\ ~running /\ ~running'
    BY <1>7 DEF Check, runnerVars
  <2>2. InHand' \subseteq {o} /\ plan'[o] = CurrentPlan
    BY <1>1, <1>7, <2>1 DEF Check, InHand, TypeOK
  <2>3. Planned(o)' \subseteq OpenIds
    <3>1. \A c \in CurrentPlan.closes : c.id \in OpenIds
      BY DEF CurrentPlan, Close, InConflict
    <3>2. QED
      BY <2>2, <3>1 DEF Planned
  <2>4. UNCHANGED tableVars /\ wallet' = wallet /\ work' = work
    BY <1>7 DEF Check, runnerVars
  <2>5. \A u \in InHand' : Planned(u)' \subseteq OpenIds'
    BY <2>2, <2>3, <2>4, <1>5
  <2>6. QED
    BY <2>1, <2>2, <2>4, <2>5, <1>4, <1>5 DEF TakingTurns
<1>8. ASSUME NEW o \in Operators, Apply(o) PROVE TakingTurns'
  <2>1. o \in InHand /\ InHand' = {}
    BY <1>1, <1>4, <1>8, HandEmptied
  <2>2. Planned(o) \subseteq OpenIds /\ ~running
    BY <1>4, <2>1
  <2>3. work = 0 /\ wallet = {} /\ UNCHANGED <<running, wallet, work>>
    BY <1>1, <1>8, <2>2 DEF Bookings, Apply, runnerVars
  <2>4. /\ DOMAIN positions' = DOMAIN positions
        /\ \A p \in DOMAIN positions :
             /\ positions'[p].open = (positions[p].open /\ p \notin Planned(o))
             /\ Closings(p)' = IF p \in Planned(o) THEN Closings(p) + 1 ELSE Closings(p)
    BY <1>1, <1>8, Applying
  <2>5. \A p \in DOMAIN positions : Closings(p) = IF positions[p].open THEN 0 ELSE 1
    BY <1>1, <1>4, <2>3, SameIds
  <2>6. \A p \in Planned(o) : positions[p].open
    BY <2>2 DEF OpenIds
  <2>7. ASSUME NEW p \in DOMAIN positions'
        PROVE  Closings(p)' = IF positions'[p].open THEN 0 ELSE 1
    <3>1. CASE p \in Planned(o)
      <4>1. Closings(p) = 0 /\ p \in DOMAIN positions
        BY <2>4, <2>5, <2>6, <3>1
      <4>2. Closings(p)' = Closings(p) + 1
        BY <2>4, <3>1, <4>1
      <4>3. ~positions'[p].open
        BY <2>4, <3>1, <4>1
      <4>4. QED
        BY <4>1, <4>2, <4>3
    <3>2. CASE p \notin Planned(o)
      <4>1. p \in DOMAIN positions /\ Closings(p)' = Closings(p)
        BY <2>4, <3>2
      <4>2. positions'[p].open = positions[p].open
        BY <1>2, <2>4, <3>2, <4>1
      <4>3. QED
        BY <2>5, <4>1, <4>2
    <3>3. QED
      BY <3>1, <3>2
  <2>8. QED
    BY <2>1, <2>3, <2>7 DEF TakingTurns
<1>9. ASSUME NEW o \in Operators, Fail(o) PROVE TakingTurns'
  <2>1. InHand' = {}
    BY <1>1, <1>4, <1>9, HandEmptied
  <2>2. UNCHANGED tableVars /\ UNCHANGED <<running, wallet, work>>
    BY <1>9 DEF Fail, runnerVars
  <2>3. QED
    BY <1>4, <1>5, <2>1, <2>2 DEF TakingTurns
<1>10. ASSUME Start PROVE TakingTurns'
  <2>1. InHand = {} /\ InHand' = InHand
    BY <1>10, HandsKept DEF Start, operatorVars
  <2>2. UNCHANGED tableVars /\ UNCHANGED <<wallet, work>>
    BY <1>10 DEF Start
  <2>3. QED
    BY <1>4, <1>5, <2>1, <2>2 DEF TakingTurns
<1>11. ASSUME Stop PROVE TakingTurns'
  <2>1. work = 0 /\ work' = 0 /\ wallet' = {} /\ running /\ UNCHANGED tableVars
    BY <1>11 DEF Stop
  <2>2. InHand = {} /\ InHand' = InHand
    BY <1>4, <1>11, <2>1, HandsKept DEF Stop, operatorVars
  <2>3. QED
    BY <1>4, <1>5, <2>1, <2>2 DEF TakingTurns
<1>12. ASSUME BeginPass PROVE TakingTurns'
  <2>1. work = 0 /\ work' = 0 /\ wallet' = OpenIds /\ running /\ UNCHANGED tableVars
    BY <1>12 DEF BeginPass, Between
  <2>2. InHand = {} /\ InHand' = InHand
    BY <1>4, <1>12, <2>1, HandsKept DEF BeginPass, operatorVars
  <2>3. \A p \in wallet' : p # work' /\ positions'[p].open
    BY <2>1, <1>1, <1>5, SameIds DEF OpenIds
  <2>4. QED
    BY <1>4, <1>5, <2>1, <2>2, <2>3 DEF TakingTurns
<1>13. ASSUME NEW p \in wallet, BookExit(p) PROVE TakingTurns'
  <2>1. /\ p \in DOMAIN positions
        /\ \A q \in DOMAIN positions :
             Closings(q)' = IF q = p THEN Closings(p) + 1 ELSE Closings(q)
    BY <1>1, <1>13, Booking
  <2>2. /\ positions' = positions /\ running /\ work = 0
        /\ work' = p /\ wallet' = wallet \ {p}
    BY <1>13 DEF BookExit, Between
  <2>3. InHand = {} /\ InHand' = InHand
    BY <1>4, <1>13, <2>2, HandsKept DEF BookExit, operatorVars
  <2>4. positions[p].open /\ Closings(p) = 0
    BY <1>1, <1>4, <2>1, <2>2, SameIds
  <2>5. Closings(p)' = 1
    BY <2>1, <2>4
  <2>6. (work # 0 => positions[work].open /\ Closings(work) = 1)'
    BY <2>2, <2>4, <2>5 DEF Closings
  <2>7. \A q \in DOMAIN positions' \ {work'} :
          Closings(q)' = IF positions'[q].open THEN 0 ELSE 1
    BY <1>1, <1>4, <2>1, <2>2, SameIds
  <2>8. \A q \in wallet' : q # work' /\ positions'[q].open
    BY <1>4, <2>2
  <2>9. QED
    BY <2>3, <2>6, <2>7, <2>8 DEF TakingTurns
<1>14. ASSUME WriteExit \/ \E p \in wallet : WritePart(p) PROVE TakingTurns'
  <2>1. running /\ booked' = booked /\ wallet' \subseteq wallet /\ plan' = plan
        /\ (WriteExit => work # 0 /\ work' = 0)
        /\ (~WriteExit => work = 0 /\ work' = 0)
    BY <1>14 DEF WriteExit, WritePart, Between, operatorVars
  <2>2. InHand = {} /\ InHand' = InHand
    BY <1>4, <2>1, HandsKept
  <2>3. /\ DOMAIN positions' = DOMAIN positions
        /\ \A q \in DOMAIN positions :
             /\ WriteExit => positions'[q].open = (positions[q].open /\ q # work)
             /\ ~WriteExit => positions'[q].open = positions[q].open
    BY <1>1, <1>14, Updating
  <2>4. \A q : Closings(q)' = Closings(q)
    BY <2>1 DEF Closings
  <2>5. wallet \subseteq DOMAIN positions /\ work \in DOMAIN positions \cup {0}
    BY <1>1 DEF TypeOK
  <2>6. CASE WriteExit
    <3>1. \A q \in wallet' : q # work' /\ positions'[q].open
      BY <1>1, <1>4, <2>1, <2>3, <2>5, <2>6, SameIds
    <3>2. \A q \in DOMAIN positions' : Closings(q)' = IF positions'[q].open THEN 0 ELSE 1
      <4> SUFFICES ASSUME NEW q \in DOMAIN positions
                   PROVE  Closings(q)' = IF positions'[q].open THEN 0 ELSE 1
        BY <2>3
      <4>1. CASE q = work
        BY <1>4, <2>1, <2>3, <2>4, <2>6, <4>1
      <4>2. CASE q # work
        BY <1>2, <1>4, <2>3, <2>4, <2>6, <4>2
      <4>3. QED
        BY <4>1, <4>2
    <3>3. QED
      BY <2>1, <2>2, <2>6, <3>1, <3>2 DEF TakingTurns
  <2>7. CASE ~WriteExit
    <3>1. \A q \in wallet' : q # work' /\ positions'[q].open
      BY <1>4, <2>1, <2>3, <2>5, <2>7
    <3>2. \A q \in DOMAIN positions' \ {work'} :
            Closings(q)' = IF positions'[q].open THEN 0 ELSE 1
      BY <1>4, <2>1, <2>3, <2>4, <2>7
    <3>3. QED
      BY <2>1, <2>2, <2>7, <3>1, <3>2 DEF TakingTurns
  <2>8. QED
    BY <2>6, <2>7
<1>15. ASSUME NEW p \in wallet, Skip(p) PROVE TakingTurns'
  <2>1. running /\ work' = work /\ wallet' \subseteq wallet /\ UNCHANGED tableVars
        /\ plan' = plan
    BY <1>15 DEF Skip, Between, operatorVars
  <2>2. InHand' = InHand /\ InHand = {}
    BY <1>4, <2>1, HandsKept
  <2>3. QED
    BY <1>4, <1>5, <2>1, <2>2 DEF TakingTurns
<1>16. ASSUME NEW s \in Symbols, Open(s) PROVE TakingTurns'
  <2>1. running /\ work = 0 /\ work' = 0 /\ wallet' = {} /\ plan' = plan
    BY <1>16 DEF Open, Between, runnerVars, operatorVars
  <2>2. InHand' = InHand /\ InHand = {}
    BY <1>4, <2>1, HandsKept
  <2>3. PICK n \in Nat \ DOMAIN positions :
          /\ DOMAIN positions' = DOMAIN positions \cup {n} /\ n # 0
          /\ positions'[n].open /\ Closings(n)' = 0
    BY <1>1, <1>16, Opening
  <2>4. \A q \in DOMAIN positions :
          positions'[q] = positions[q] /\ Closings(q)' = Closings(q)
    BY <1>1, <1>16, Opening
  <2>5. \A q \in DOMAIN positions' \ {work'} :
          Closings(q)' = IF positions'[q].open THEN 0 ELSE 1
    BY <1>1, <1>4, <2>1, <2>3, <2>4, SameIds
  <2>6. QED
    BY <2>1, <2>2, <2>5 DEF TakingTurns
<1>17. ASSUME NEW s \in Symbols, MarkArrives(s) \/ MarkAges(s) PROVE TakingTurns'
  <2>1. UNCHANGED tableVars /\ UNCHANGED <<running, wallet, work, plan>>
    BY <1>17 DEF MarkArrives, MarkAges, runnerVars, operatorVars
  <2>2. InHand' = InHand /\ \A o \in Operators : Planned(o)' = Planned(o)
    BY <2>1, HandsKept
  <2>3. QED
    BY <1>4, <1>5, <2>1, <2>2 DEF TakingTurns, InHand
<1>18. QED
  BY <1>6, <1>7, <1>8, <1>9, <1>10, <1>11, <1>12, <1>13, <1>14, <1>15, <1>16, <1>17 DEF Next

-----------------------------------------------------------------------------
(* Conflicts.                                                              *)

\* Conflicts go away and do not come: two open positions of a symbol after a step were
\* two open positions of it before.
LEMMA NoNewConflict ==
    ASSUME TypeOK, Next, NEW p \in OpenIds', NEW q \in OpenIds', Conflicting(p, q)'
    PROVE  p \in OpenIds /\ q \in OpenIds /\ Conflicting(p, q)
<1>1. CASE UNCHANGED tableVars
  BY <1>1 DEF tableVars, OpenIds, Conflicting
<1>2. ASSUME /\ DOMAIN positions' = DOMAIN positions
             /\ \A r \in DOMAIN positions :
                  /\ positions'[r].symbol = positions[r].symbol
                  /\ positions'[r].open => positions[r].open
      PROVE  p \in OpenIds /\ q \in OpenIds /\ Conflicting(p, q)
  BY <1>2 DEF OpenIds, Conflicting
<1>3. ASSUME NEW o \in Operators, Apply(o)
      PROVE  p \in OpenIds /\ q \in OpenIds /\ Conflicting(p, q)
  BY <1>2, <1>3, Applying
<1>4. ASSUME NEW r \in wallet, BookExit(r)
      PROVE  p \in OpenIds /\ q \in OpenIds /\ Conflicting(p, q)
  BY <1>4 DEF BookExit, OpenIds, Conflicting
<1>5. ASSUME WriteExit \/ \E r \in wallet : WritePart(r)
      PROVE  p \in OpenIds /\ q \in OpenIds /\ Conflicting(p, q)
  BY <1>2, <1>5, Updating
<1>6. ASSUME NEW s \in Symbols, Open(s)
      PROVE  p \in OpenIds /\ q \in OpenIds /\ Conflicting(p, q)
  <2>1. PICK n \in Nat \ DOMAIN positions :
          DOMAIN positions' = DOMAIN positions \cup {n} /\ positions'[n].symbol = s
    BY <1>6, Opening
  <2>2. \A r \in DOMAIN positions : positions'[r] = positions[r]
    BY <1>6, Opening
  <2>3. \A r \in OpenIds : positions[r].symbol # s
    BY <1>6 DEF Open
  <2>4. \A r \in OpenIds' : r = n \/ r \in OpenIds
    BY <2>1, <2>2 DEF OpenIds
  <2>5. OpenIds \subseteq DOMAIN positions
    BY DEF OpenIds
  <2>6. p # q /\ positions'[p].symbol = positions'[q].symbol
    BY DEF Conflicting
  <2>7. p # n /\ q # n
    BY <2>1, <2>2, <2>3, <2>4, <2>5, <2>6
  <2>8. QED
    BY <2>2, <2>4, <2>5, <2>6, <2>7 DEF Conflicting
<1>7. QED
  BY <1>1, <1>3, <1>4, <1>5, <1>6, WhoWrites

\* Rows are never deleted.
LEMMA RowsStay == TypeOK /\ Next => DOMAIN positions \subseteq DOMAIN positions'
<1> SUFFICES ASSUME TypeOK, Next PROVE DOMAIN positions \subseteq DOMAIN positions'
  OBVIOUS
<1>1. ASSUME NEW s \in Symbols, Open(s) PROVE DOMAIN positions \subseteq DOMAIN positions'
  BY <1>1, Opening
<1>2. QED
  BY <1>1, WhoWrites, Applying, Updating DEF tableVars, BookExit

\* A plan in hand covers the conflicts after a step, since there are no new ones.
LEMMA CoverStep == IntegrityInv /\ Next => PlansCover'
<1> SUFFICES ASSUME IntegrityInv, Next, NEW o \in InHand'
             PROVE  /\ Planned(o)' \subseteq DOMAIN positions'
                    /\ \A p, q \in OpenIds' : Conflicting(p, q)' => p \in Planned(o)'
  BY DEF PlansCover
<1>1. TypeOK /\ PlansCover
  BY DEF IntegrityInv
<1>2. ASSUME o \in InHand, Planned(o)' = Planned(o)
      PROVE  /\ Planned(o)' \subseteq DOMAIN positions'
             /\ \A p, q \in OpenIds' : Conflicting(p, q)' => p \in Planned(o)'
  BY <1>1, <1>2, NoNewConflict, RowsStay DEF PlansCover
<1>3. ASSUME plan' = plan PROVE o \in InHand /\ Planned(o)' = Planned(o)
  BY <1>3, HandsKept DEF InHand
<1>4. ASSUME NEW u \in Operators, Apply(u) \/ Fail(u)
      PROVE  o \in InHand /\ Planned(o)' = Planned(o)
  BY <1>1, <1>4, HandEmptied
<1>5. ASSUME NEW u \in Operators, Check(u)
      PROVE  /\ Planned(o)' \subseteq DOMAIN positions'
             /\ \A p, q \in OpenIds' : Conflicting(p, q)' => p \in Planned(o)'
  <2>1. CASE u # o
    BY <1>1, <1>2, <1>5, <2>1 DEF Check, InHand, Planned, TypeOK
  <2>2. CASE u = o
    <3>1. plan'[o] = CurrentPlan /\ Blocked = {}
      BY <1>1, <1>5, <2>2 DEF Check, Applicable, TypeOK, CurrentPlan
    <3>2. CurrentPlan.closes = {Close(p) : p \in InConflict}
      BY <3>1 DEF CurrentPlan
    <3>3. \A p \in InConflict : Close(p).id = p
      BY DEF Close
    <3>4. Planned(o)' = InConflict
      BY <3>1, <3>2, <3>3 DEF Planned
    <3>5. UNCHANGED positions /\ InConflict \subseteq DOMAIN positions
      BY <1>5 DEF Check, tableVars, InConflict, OpenIds
    <3>6. \A p, q \in OpenIds' : Conflicting(p, q)' => p \in InConflict
      BY <3>5 DEF OpenIds, Conflicting, InConflict
    <3>7. QED
      BY <3>4, <3>5, <3>6
  <2>3. QED
    BY <2>1, <2>2
<1>6. \/ plan' = plan
      \/ \E u \in Operators : Apply(u) \/ Fail(u) \/ Check(u)
  BY DEF Next, DryRun, Start, Stop, BeginPass, WriteExit, BookExit, WritePart, Skip, Open,
         MarkArrives, MarkAges, operatorVars
<1>7. QED
  BY <1>2, <1>3, <1>4, <1>5, <1>6

\* Applying a plan resolves what it covers, and nothing unresolves it.
LEMMA ConflictsStep == IntegrityInv /\ Next => ConflictsStayResolved'
<1> SUFFICES ASSUME IntegrityInv, Next, applied',
                    NEW p \in OpenIds', NEW q \in OpenIds', Conflicting(p, q)'
             PROVE  FALSE
  BY DEF ConflictsStayResolved
<1>1. TypeOK /\ PlansCover /\ ConflictsStayResolved
  BY DEF IntegrityInv
<1>2. p \in OpenIds /\ q \in OpenIds /\ Conflicting(p, q)
  BY <1>1, NoNewConflict
<1>3. ~applied
  BY <1>1, <1>2 DEF ConflictsStayResolved
<1>4. PICK o \in Operators : Apply(o)
  BY <1>3 DEF Next, DryRun, Check, Fail, Start, Stop, BeginPass, WriteExit, BookExit,
              WritePart, Skip, Open, MarkArrives, MarkAges, operatorVars
<1>5. p \in Planned(o)
  BY <1>1, <1>2, <1>4 DEF PlansCover, InHand, Apply
<1>6. ~positions'[p].open
  BY <1>1, <1>2, <1>4, <1>5, Applying DEF OpenIds
<1>7. QED
  BY <1>6 DEF OpenIds

-----------------------------------------------------------------------------
(* Theorems.                                                               *)

\* The invariant holds in every state of every behaviour.
THEOREM IntegrityInvariant == Spec => []IntegrityInv
<1>1. Init => IntegrityInv
  <2> SUFFICES ASSUME Init PROVE IntegrityInv
    OBVIOUS
  <2>1. TypeOK
    BY InitTyped
  <2>2. \A p \in DOMAIN positions : positions[p].open /\ Closings(p) = 0
    <3>1. PICK n \in 0 .. MaxLegacy : positions \in [1 .. n -> Legacy]
      BY DEF Init
    <3>2. ASSUME NEW p \in DOMAIN positions PROVE positions[p].open /\ Closings(p) = 0
      <4>1. positions[p] \in Legacy
        BY <3>1
      <4>2. booked[p] = Unbooked
        BY DEF Init
      <4>3. positions[p].open
        BY <4>1 DEF Legacy
      <4>4. Closings(p) = 0
        BY <4>2 DEF Closings, Unbooked
      <4>5. QED
        BY <4>3, <4>4
    <3>3. QED
      BY <3>2
  <2>3. InHand = {} /\ work = 0 /\ wallet = {} /\ ~applied
    BY DEF Init, InHand
  <2>4. QED
    BY <2>1, <2>2, <2>3 DEF IntegrityInv, Bookings, TakingTurns, PlansCover,
                            ConflictsStayResolved
<1>2. IntegrityInv /\ [Next]_vars => IntegrityInv'
  <2>1. CASE Next
    BY <2>1, TypeStep, BookingsStep, TurnsStep, CoverStep, ConflictsStep DEF IntegrityInv
  <2>2. CASE UNCHANGED vars
    BY <2>2 DEF vars, tableVars, runnerVars, operatorVars, IntegrityInv, TypeOK, Bookings,
                TakingTurns, PlansCover, ConflictsStayResolved, InHand, Planned, OpenIds,
                Conflicting, Closings
  <2>3. QED
    BY <2>1, <2>2
<1>3. QED
  BY <1>1, <1>2, PTL DEF Spec

\* Every variable keeps its type.
THEOREM TypeCorrect == Spec => []TypeOK
<1>1. IntegrityInv => TypeOK
  BY DEF IntegrityInv
<1>2. QED
  BY <1>1, IntegrityInvariant, PTL

\* What is closed is booked, and once while the protocol is kept.
THEOREM PositionsAreClosedOnce == Spec => []ClosedOnce
<1>1. IntegrityInv => ClosedOnce
  BY DEF IntegrityInv, ClosedOnce, Bookings, TakingTurns
<1>2. QED
  BY <1>1, IntegrityInvariant, PTL

\* An applied plan leaves no conflict behind, and none comes after it.
THEOREM ConflictsAreResolved == Spec => []ConflictsStayResolved
<1>1. IntegrityInv => ConflictsStayResolved
  BY DEF IntegrityInv
<1>2. QED
  BY <1>1, IntegrityInvariant, PTL
=============================================================================
