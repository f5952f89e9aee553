----------------------- MODULE CanaryPipeline_proofs -----------------------
(***************************************************************************)
(* Proofs about CanaryPipeline, for every value of its constants.          *)
(***************************************************************************)
EXTENDS CanaryPipeline, TableLemmas

-----------------------------------------------------------------------------
(* Lemmas about position tables and the caps.                              *)

\* A day has a number.
LEMMA DayIsNat == ASSUME NEW t \in Nat PROVE Day(t) \in Nat
<1>1. DayLength \in Nat \ {0}
  BY ConstantsAssumption
<1>2. QED
  BY <1>1 DEF Day

\* The ids every count of a position table is taken over are finitely many.
LEMMA CountsAreFinite ==
    ASSUME NEW P \in Seq(Position)
    PROVE  /\ IsFiniteSet(OpenIds(P)) /\ Cardinality(OpenIds(P)) \in Nat
           /\ \A s : /\ IsFiniteSet(OpenOfSymbol(P, s))
                     /\ Cardinality(OpenOfSymbol(P, s)) \in Nat
           /\ \A k : /\ IsFiniteSet(OpenOfKey(P, k))
                     /\ Cardinality(OpenOfKey(P, k)) \in Nat
           /\ \A d : /\ IsFiniteSet(DailyValidOpens(P, d))
                     /\ Cardinality(DailyValidOpens(P, d)) \in Nat
<1>1. /\ OpenIds(P) \in SUBSET DOMAIN P
      /\ \A s : OpenOfSymbol(P, s) \in SUBSET DOMAIN P
      /\ \A k : OpenOfKey(P, k) \in SUBSET DOMAIN P
      /\ \A d : DailyValidOpens(P, d) \in SUBSET DOMAIN P
  BY DEF OpenIds, OpenOfSymbol, OpenOfKey, DailyValidOpens
<1>2. QED
  BY <1>1, RowsAreFinite

\* An empty table is within every cap.
LEMMA EmptyTable ==
    /\ WithinOpenCaps(<<>>)
    /\ WithinDailyCap(<<>>)
    /\ BoundOnce(<<>>, <<>>)
<1>1. DOMAIN <<>> = {}
  OBVIOUS
<1>2. /\ OpenIds(<<>>) = {}
      /\ \A s : OpenOfSymbol(<<>>, s) = {}
      /\ \A k : OpenOfKey(<<>>, k) = {}
  BY <1>1 DEF OpenIds, OpenOfSymbol, OpenOfKey
<1>3. Cardinality({}) = 0
  BY FS_EmptySet
<1>4. WithinOpenCaps(<<>>)
  <2>1. 0 <= MaxOpenGlobal /\ 0 <= MaxOpenPerSymbol /\ 0 <= MaxOpenPerKey
    BY ConstantsAssumption
  <2>2. QED
    BY <1>2, <1>3, <2>1 DEF WithinOpenCaps
<1>5. WithinDailyCap(<<>>)
  BY <1>1 DEF WithinDailyCap
<1>6. BoundOnce(<<>>, <<>>)
  BY <1>1 DEF BoundOnce
<1>7. QED
  BY <1>4, <1>5, <1>6

\* Closing positions breaks no cap.
LEMMA ClosingKeepsCaps ==
    ASSUME NEW P \in Seq(Position), NEW Q \in Seq(Position),
           DOMAIN Q = DOMAIN P, Continues(Q, P)
    PROVE  /\ WithinOpenCaps(P) => WithinOpenCaps(Q)
           /\ WithinDailyCap(P) => WithinDailyCap(Q)
<1>1. /\ OpenIds(Q) \in SUBSET OpenIds(P)
      /\ \A s : OpenOfSymbol(Q, s) \in SUBSET OpenOfSymbol(P, s)
      /\ \A k : OpenOfKey(Q, k) \in SUBSET OpenOfKey(P, k)
      /\ \A d : DailyValidOpens(Q, d) = DailyValidOpens(P, d)
  BY DEF Continues, OpenIds, OpenOfSymbol, OpenOfKey, DailyValidOpens
<1>2. WithinOpenCaps(P) => WithinOpenCaps(Q)
  BY <1>1, CountNoMore, CountsAreFinite, ConstantsAssumption DEF WithinOpenCaps
<1>3. WithinDailyCap(P) => WithinDailyCap(Q)
  BY <1>1 DEF Continues, WithinDailyCap
<1>4. QED
  BY <1>2, <1>3

\* A new open position keeps the open caps when its key was below all of them.
LEMMA OpeningKeepsOpenCaps ==
    ASSUME NEW P \in Seq(Position), NEW row \in Position, WithinOpenCaps(P),
           Cardinality(OpenIds(P)) < MaxOpenGlobal,
           Cardinality(OpenOfSymbol(P, SymbolOf[row.key])) < MaxOpenPerSymbol,
           Cardinality(OpenOfKey(P, row.key)) < MaxOpenPerKey
    PROVE  WithinOpenCaps(Append(P, row))
<1> DEFINE Q == Append(P, row)
           x == Len(P) + 1
<1>1. /\ Q \in Seq(Position)
      /\ DOMAIN Q = DOMAIN P \cup {x}
      /\ Q[x] = row
      /\ \A p \in DOMAIN P : Q[p] = P[p]
  BY AppendRow
<1> HIDE DEF Q, x
<1>2. /\ OpenIds(Q) \in SUBSET (OpenIds(P) \cup {x})
      /\ \A s : OpenOfSymbol(Q, s) \in SUBSET (OpenOfSymbol(P, s) \cup {x})
      /\ \A k : OpenOfKey(Q, k) \in SUBSET (OpenOfKey(P, k) \cup {x})
      /\ \A s : s # SymbolOf[row.key] => OpenOfSymbol(Q, s) \in SUBSET OpenOfSymbol(P, s)
      /\ \A k : k # row.key => OpenOfKey(Q, k) \in SUBSET OpenOfKey(P, k)
  BY <1>1 DEF OpenIds, OpenOfSymbol, OpenOfKey
<1>3. Cardinality(OpenIds(Q)) <= MaxOpenGlobal
  BY <1>1, <1>2, CountOneMore, CountsAreFinite, ConstantsAssumption
<1>4. ASSUME NEW s \in Symbols
      PROVE  Cardinality(OpenOfSymbol(Q, s)) <= MaxOpenPerSymbol
  <2>1. CASE s = SymbolOf[row.key]
    BY <1>1, <1>2, <2>1, CountOneMore, CountsAreFinite, ConstantsAssumption
  <2>2. CASE s # SymbolOf[row.key]
    BY <1>2, <2>2, CountNoMore, CountsAreFinite, ConstantsAssumption DEF WithinOpenCaps
  <2>3. QED
    BY <2>1, <2>2
<1>5. ASSUME NEW k \in Keys
      PROVE  Cardinality(OpenOfKey(Q, k)) <= MaxOpenPerKey
  <2>1. CASE k = row.key
    BY <1>1, <1>2, <2>1, CountOneMore, CountsAreFinite, ConstantsAssumption
  <2>2. CASE k # row.key
    BY <1>2, <2>2, CountNoMore, CountsAreFinite, ConstantsAssumption DEF WithinOpenCaps
  <2>3. QED
    BY <2>1, <2>2
<1>6. QED
  BY <1>3, <1>4, <1>5 DEF WithinOpenCaps, Q

\* A new position keeps the daily cap when its day was below it.
LEMMA OpeningKeepsDailyCap ==
    ASSUME NEW P \in Seq(Position), NEW row \in Position, WithinDailyCap(P),
           Cardinality(DailyValidOpens(P, row.day)) < MaxDailyOpens
    PROVE  WithinDailyCap(Append(P, row))
<1> DEFINE Q == Append(P, row)
           x == Len(P) + 1
<1>1. /\ Q \in Seq(Position)
      /\ DOMAIN Q = DOMAIN P \cup {x}
      /\ Q[x] = row
      /\ \A p \in DOMAIN P : Q[p] = P[p]
  BY AppendRow
<1> HIDE DEF Q, x
<1>2. /\ \A d : DailyValidOpens(Q, d) \in SUBSET (DailyValidOpens(P, d) \cup {x})
      /\ \A d : d # row.day => DailyValidOpens(Q, d) \in SUBSET DailyValidOpens(P, d)
  BY <1>1 DEF DailyValidOpens
<1>3. Cardinality(DailyValidOpens(Q, row.day)) <= MaxDailyOpens
  BY <1>1, <1>2, CountOneMore, CountsAreFinite, ConstantsAssumption
<1>4. ASSUME NEW p \in DOMAIN P, P[p].day # row.day
      PROVE  Cardinality(DailyValidOpens(Q, P[p].day)) <= MaxDailyOpens
  BY <1>2, <1>4, CountNoMore, CountsAreFinite, ConstantsAssumption DEF WithinDailyCap
<1>5. QED
  BY <1>1, <1>3, <1>4 DEF WithinDailyCap, Q

-----------------------------------------------------------------------------
(* Lemmas about the binding of intents and positions.                      *)

\* What the update at the end of a visit does to the intent table.
LEMMA SettledTable ==
    ASSUME NEW I \in Seq(Intent), NEW i \in DOMAIN I,
           NEW status \in IntentStatus, NEW reason \in RejectReason,
           NEW J, J = [I EXCEPT ![i] = Settled(@, status, reason)]
    PROVE  /\ J \in Seq(Intent)
           /\ DOMAIN J = DOMAIN I
           /\ J[i].key = I[i].key /\ J[i].status = status
           /\ \A j \in DOMAIN I : j # i => J[j] = I[j]
<1> DEFINE row == Settled(I[i], status, reason)
<1>1. I[i] \in Intent
  BY ElementOfSeq, LenProperties
<1>2. ASSUME NEW r \in Intent, NEW s, s = Settled(r, status, reason)
      PROVE  s \in Intent /\ s.key = r.key /\ s.status = status
  BY <1>2 DEF Intent, Settled
<1>3. row \in Intent /\ row.key = I[i].key /\ row.status = status
  BY <1>1, <1>2
<1>4. J = [I EXCEPT ![i] = row]
  OBVIOUS
<1> HIDE DEF row
<1>5. /\ J \in Seq(Intent)
      /\ DOMAIN J = DOMAIN I
      /\ J[i] = row
      /\ \A j \in DOMAIN I : j # i => J[j] = I[j]
  BY <1>3, <1>4, ReplaceRow
<1>6. QED
  BY <1>3, <1>5

\* Settling a pending intent without a position keeps the binding.
LEMMA RefusingKeepsBinding ==
    ASSUME NEW I, NEW P, BoundOnce(I, P),
           NEW i \in Pending(I), NEW J, DOMAIN J = DOMAIN I,
           J[i].key = I[i].key, J[i].status \notin {"opened", "pending"},
           \A j \in DOMAIN I : j # i => J[j] = I[j]
    PROVE  BoundOnce(J, P)
<1>1. \A p \in DOMAIN P : P[p].intent # i
  BY DEF BoundOnce, Pending
<1>2. QED
  BY <1>1 DEF BoundOnce, Pending

\* Settling a pending intent together with its position keeps the binding.
LEMMA BindingKeepsBinding ==
    ASSUME NEW I, NEW P, BoundOnce(I, P),
           NEW i \in Pending(I), NEW J, DOMAIN J = DOMAIN I,
           J[i].key = I[i].key,
           \A j \in DOMAIN I : j # i => J[j] = I[j],
           NEW Q, NEW x, x \notin DOMAIN P, DOMAIN Q = DOMAIN P \cup {x},
           \A p \in DOMAIN P : Q[p] = P[p],
           Q[x].intent = i, Q[x].key = I[i].key,
           J[i].status = IF Q[x].audited THEN "opened" ELSE "quarantined"
    PROVE  BoundOnce(J, Q)
<1>1. \A p \in DOMAIN P : P[p].intent # i
  BY DEF BoundOnce, Pending
<1>2. i \in DOMAIN I
  BY DEF Pending
<1>3. \A p, q \in DOMAIN Q : Q[p].intent = Q[q].intent => p = q
  BY <1>1 DEF BoundOnce
<1>4. \A p \in DOMAIN Q :
        /\ Q[p].intent \in DOMAIN J
        /\ Q[p].key = J[Q[p].intent].key
        /\ J[Q[p].intent].status = IF Q[p].audited THEN "opened" ELSE "quarantined"
  BY <1>1, <1>2 DEF BoundOnce
<1>5. \A j \in DOMAIN J : J[j].status = "opened" => \E p \in DOMAIN Q : Q[p].intent = j
  BY <1>2 DEF BoundOnce
<1>6. QED
  BY <1>3, <1>4, <1>5 DEF BoundOnce

\* Closing positions keeps the binding.
LEMMA ClosingKeepsBinding ==
    ASSUME NEW I, NEW P, BoundOnce(I, P),
           NEW Q, DOMAIN Q = DOMAIN P, Continues(Q, P)
    PROVE  BoundOnce(I, Q)
BY DEF BoundOnce, Continues

\* A new pending intent keeps the binding.
LEMMA HandingInKeepsBinding ==
    ASSUME NEW I \in Seq(Intent), NEW P, BoundOnce(I, P),
           NEW row \in Intent, row.status = "pending"
    PROVE  BoundOnce(Append(I, row), P)
BY AppendRow DEF BoundOnce

-----------------------------------------------------------------------------
(* The inductive invariant.                                                *)

LEMMA InitEstablishesInv == Init => PipelineInv
<1> SUFFICES ASSUME Init PROVE PipelineInv
  OBVIOUS
<1>1. TypeOK
  BY EmptySeq, ConstantsAssumption DEF Init, TypeOK, AuthorityState, Gate
<1>2. CycleView
  BY DEF Init, CycleView
<1>3. QED
  BY <1>1, <1>2, EmptyTable DEF Init, PipelineInv

\* Steps of the clock and of an authority that touch no table.
LEMMA QuietStepKeepsInv ==
    ASSUME PipelineInv, now' \in Nat, now' <= MaxNow, auth' \in [Authorities -> AuthorityState],
           misreads' \in [Gate -> Nat], UNCHANGED <<tables, adapterVars>>
    PROVE  PipelineInv'
<1>1. /\ intents' = intents /\ positions' = positions
      /\ phase' = phase /\ txIntents' = txIntents
      /\ txPositions' = txPositions /\ todo' = todo
  BY DEF tables, adapterVars
<1>2. TypeOK'
  BY <1>1 DEF PipelineInv, TypeOK
<1>3. CycleView'
  BY <1>1 DEF PipelineInv, CycleView
<1>4. QED
  BY <1>1, <1>2, <1>3 DEF PipelineInv

\* An authority hands in an intent while no transaction is open.
LEMMA EmitKeepsInv ==
    ASSUME PipelineInv, NEW a \in Authorities, EmitIntent(a)
    PROVE  PipelineInv'
<1> DEFINE row == [key |-> auth[a].key, at |-> now, status |-> "pending", reason |-> "none"]
<1>1. /\ phase = "idle" /\ phase' = phase
      /\ intents' = Append(intents, row)
      /\ auth' = [auth EXCEPT ![a] = Resting]
      /\ now' = now /\ positions' = positions /\ misreads' = misreads
      /\ txIntents' = txIntents /\ txPositions' = txPositions /\ todo' = todo
  BY DEF EmitIntent, adapterVars
<1>2. row \in Intent
  <2>1. auth[a] \in AuthorityState /\ auth[a].step = "approved" /\ now \in Nat
    BY DEF PipelineInv, TypeOK, EmitIntent
  <2>2. auth[a].key \in Keys
    BY <2>1 DEF AuthorityState, Resting
  <2>3. QED
    BY <2>1, <2>2 DEF Intent, IntentStatus, RejectReason
<1>3. row.status = "pending"
  OBVIOUS
<1> HIDE DEF row
<1>4. TypeOK'
  <2>1. intents' \in Seq(Intent)
    BY <1>1, <1>2, AppendRow DEF PipelineInv, TypeOK
  <2>2. auth' \in [Authorities -> AuthorityState]
    BY <1>1 DEF PipelineInv, TypeOK, AuthorityState
  <2>3. QED
    BY <1>1, <2>1, <2>2 DEF PipelineInv, TypeOK
<1>5. CycleView'
  BY <1>1 DEF PipelineInv, CycleView
<1>6. BoundOnce(intents', positions')
  BY <1>1, <1>2, <1>3, HandingInKeepsBinding DEF PipelineInv, TypeOK
<1>7. QED
  BY <1>1, <1>4, <1>5, <1>6 DEF PipelineInv

\* The adapter opens a transaction on the committed tables.
LEMMA BeginKeepsInv ==
    ASSUME PipelineInv, BeginCycle
    PROVE  PipelineInv'
<1>1. /\ phase' = "intents" /\ txIntents' = intents /\ txPositions' = positions
      /\ todo' = PendingBatch(intents)
      /\ now' = now /\ intents' = intents /\ positions' = positions
      /\ auth' = auth /\ misreads' = misreads
  BY DEF BeginCycle, tables
<1>2. PendingBatch(intents) \subseteq Pending(intents)
  BY DEF PendingBatch
<1>3. Pending(intents) \subseteq DOMAIN intents /\ DOMAIN intents \subseteq Nat
  BY LenProperties DEF Pending, PipelineInv, TypeOK
<1>4. TypeOK'
  BY <1>1, <1>2, <1>3 DEF PipelineInv, TypeOK
<1>5. Continues(positions, positions)
  BY DEF Continues
<1>6. CycleView'
  BY <1>1, <1>2, <1>5 DEF CycleView
<1>7. QED
  BY <1>1, <1>4, <1>6 DEF PipelineInv

\* What is known of the intent under visit.
LEMMA VisitedIsPending ==
    ASSUME PipelineInv, NEW i, Visiting(i)
    PROVE  /\ phase = "intents"
           /\ i \in Pending(txIntents) /\ i \in DOMAIN txIntents
           /\ i \in Pending(intents) /\ i \in DOMAIN intents
BY DEF PipelineInv, CycleView, Visiting, IsNext, Pending

\* The update that ends a visit keeps the types and what readers may rely on.
LEMMA SettleStep ==
    ASSUME PipelineInv, NEW i, Visiting(i),
           NEW status \in IntentStatus, NEW reason \in RejectReason,
           Settle(i, status, reason)
    PROVE  /\ txIntents' \in Seq(Intent)
           /\ DOMAIN txIntents' = DOMAIN txIntents
           /\ txIntents'[i].key = txIntents[i].key /\ txIntents'[i].status = status
           /\ \A j \in DOMAIN txIntents : j # i => txIntents'[j] = txIntents[j]
           /\ todo' \subseteq todo /\ i \notin todo'
           /\ now' = now /\ intents' = intents /\ positions' = positions
           /\ auth' = auth /\ misreads' = misreads /\ phase' = phase
<1>1. txIntents \in Seq(Intent) /\ i \in DOMAIN txIntents
  BY VisitedIsPending DEF PipelineInv, TypeOK
<1>2. txIntents' = [txIntents EXCEPT ![i] = Settled(@, status, reason)]
  BY DEF Settle
<1>3. /\ txIntents' \in Seq(Intent)
      /\ DOMAIN txIntents' = DOMAIN txIntents
      /\ txIntents'[i].key = txIntents[i].key /\ txIntents'[i].status = status
      /\ \A j \in DOMAIN txIntents : j # i => txIntents'[j] = txIntents[j]
  BY <1>1, <1>2, SettledTable
<1>4. /\ todo' \subseteq todo /\ i \notin todo'
      /\ now' = now /\ intents' = intents /\ positions' = positions
      /\ auth' = auth /\ misreads' = misreads /\ phase' = phase
  BY DEF Settle, tables
<1>5. QED
  BY <1>3, <1>4

\* Refusing or quarantining an intent without a position keeps the invariant.
LEMMA RefuseKeepsInv ==
    ASSUME PipelineInv, NEW i, Visiting(i),
           NEW status \in {"rejected", "quarantined"}, NEW reason \in RejectReason,
           Settle(i, status, reason), UNCHANGED txPositions
    PROVE  PipelineInv'
<1>1. status \in IntentStatus
  BY DEF IntentStatus
<1>2. /\ phase = "intents"
      /\ i \in Pending(txIntents) /\ i \in DOMAIN txIntents
      /\ i \in Pending(intents) /\ i \in DOMAIN intents
  BY VisitedIsPending
<1>3. /\ txIntents' \in Seq(Intent)
      /\ DOMAIN txIntents' = DOMAIN txIntents
      /\ txIntents'[i].key = txIntents[i].key /\ txIntents'[i].status = status
      /\ \A j \in DOMAIN txIntents : j # i => txIntents'[j] = txIntents[j]
      /\ todo' \subseteq todo /\ i \notin todo'
      /\ now' = now /\ intents' = intents /\ positions' = positions
      /\ auth' = auth /\ misreads' = misreads /\ phase' = phase
  BY <1>1, SettleStep
<1>4. txPositions' = txPositions
  OBVIOUS
<1>5. TypeOK'
  BY <1>3, <1>4 DEF PipelineInv, TypeOK
<1>6. CycleView'
  <2>1. \A j \in DOMAIN intents :
           /\ txIntents'[j].key = intents[j].key
           /\ intents[j].status # "pending" => txIntents'[j] = intents[j]
    BY <1>2, <1>3 DEF PipelineInv, CycleView, Pending
  <2>2. todo' \subseteq Pending(txIntents')
    BY <1>2, <1>3 DEF PipelineInv, CycleView, Pending
  <2>3. QED
    BY <1>2, <1>3, <1>4, <2>1, <2>2 DEF PipelineInv, CycleView
<1>7. BoundOnce(txIntents', txPositions')
  BY <1>2, <1>3, <1>4, RefusingKeepsBinding DEF PipelineInv
<1>8. QED
  BY <1>3, <1>4, <1>5, <1>6, <1>7 DEF PipelineInv

\* Binding an intent to a new position keeps the invariant, audited or not.
LEMMA BindKeepsInv ==
    ASSUME PipelineInv, NEW i, Visiting(i), ~CapReached(txIntents[i].key),
           NEW audited \in BOOLEAN, InsertPosition(i, audited),
           Settle(i, IF audited THEN "opened" ELSE "quarantined", "none")
    PROVE  PipelineInv'
<1> DEFINE status == IF audited THEN "opened" ELSE "quarantined"
           row == [intent |-> i, key |-> txIntents[i].key, day |-> Day(now),
                   open |-> TRUE, audited |-> audited]
           x == Len(txPositions) + 1
<1>1. status \in IntentStatus /\ "none" \in RejectReason
  BY DEF IntentStatus, RejectReason
<1>2. /\ phase = "intents"
      /\ i \in Pending(txIntents) /\ i \in DOMAIN txIntents
      /\ i \in Pending(intents) /\ i \in DOMAIN intents
  BY VisitedIsPending
<1>3. Settle(i, status, "none")
  OBVIOUS
<1> HIDE DEF status
<1>4. /\ txIntents' \in Seq(Intent)
      /\ DOMAIN txIntents' = DOMAIN txIntents
      /\ txIntents'[i].key = txIntents[i].key /\ txIntents'[i].status = status
      /\ \A j \in DOMAIN txIntents : j # i => txIntents'[j] = txIntents[j]
      /\ todo' \subseteq todo /\ i \notin todo'
      /\ now' = now /\ intents' = intents /\ positions' = positions
      /\ auth' = auth /\ misreads' = misreads /\ phase' = phase
  BY <1>1, <1>3, SettleStep
<1>5. row \in Position
  <2>1. txIntents[i] \in Intent /\ i \in Nat
    BY <1>2, ElementOfSeq, LenProperties DEF PipelineInv, TypeOK
  <2>2. Day(now) \in Nat
    BY DayIsNat, ConstantsAssumption DEF PipelineInv, TypeOK
  <2>3. QED
    BY <2>1, <2>2 DEF Position, Intent
<1>6. /\ row.intent = i /\ row.key = txIntents[i].key /\ row.open
      /\ row.audited = audited /\ row.day = Day(now)
  OBVIOUS
<1>7. txPositions' = Append(txPositions, row)
  BY DEF InsertPosition
<1> HIDE DEF row
<1>8. /\ txPositions' \in Seq(Position)
      /\ DOMAIN txPositions' = DOMAIN txPositions \cup {x}
      /\ x \notin DOMAIN txPositions
      /\ txPositions'[x] = row
      /\ \A p \in DOMAIN txPositions : txPositions'[p] = txPositions[p]
  BY <1>5, <1>7, AppendRow DEF PipelineInv, TypeOK
<1> HIDE DEF x
<1>9. TypeOK'
  BY <1>4, <1>8 DEF PipelineInv, TypeOK
<1>10. CycleView'
  <2>1. \A j \in DOMAIN intents :
           /\ txIntents'[j].key = intents[j].key
           /\ intents[j].status # "pending" => txIntents'[j] = intents[j]
    BY <1>2, <1>4 DEF PipelineInv, CycleView, Pending
  <2>2. Continues(txPositions', positions)
    BY <1>2, <1>8 DEF PipelineInv, CycleView, Continues
  <2>3. \A p \in DOMAIN txPositions' \ DOMAIN positions :
           txPositions'[p].open /\ txPositions'[p].intent \in Pending(intents)
    BY <1>2, <1>6, <1>8 DEF PipelineInv, CycleView
  <2>4. todo' \subseteq Pending(txIntents')
    BY <1>2, <1>4 DEF PipelineInv, CycleView, Pending
  <2>5. QED
    BY <1>2, <1>4, <2>1, <2>2, <2>3, <2>4 DEF PipelineInv, CycleView
<1>11. WithinOpenCaps(txPositions') /\ WithinDailyCap(txPositions')
  <2>1. txIntents[i].key = row.key /\ Day(now) = row.day
    BY <1>6
  <2>2. /\ Cardinality(OpenIds(txPositions)) < MaxOpenGlobal
        /\ Cardinality(OpenOfSymbol(txPositions, SymbolOf[row.key])) < MaxOpenPerSymbol
        /\ Cardinality(OpenOfKey(txPositions, row.key)) < MaxOpenPerKey
        /\ Cardinality(DailyValidOpens(txPositions, row.day)) < MaxDailyOpens
    BY <2>1, CountsAreFinite, ConstantsAssumption DEF CapReached, PipelineInv, TypeOK
  <2>3. QED
    BY <1>5, <1>7, <2>2, OpeningKeepsOpenCaps, OpeningKeepsDailyCap
       DEF PipelineInv, TypeOK
<1>12. BoundOnce(txIntents', txPositions')
  <2>1. txIntents'[i].status = IF txPositions'[x].audited THEN "opened" ELSE "quarantined"
    BY <1>4, <1>6, <1>8 DEF status
  <2>2. QED
    BY <1>2, <1>4, <1>6, <1>8, <2>1, BindingKeepsBinding DEF PipelineInv
<1>13. QED
  BY <1>4, <1>9, <1>10, <1>11, <1>12 DEF PipelineInv

LEMMA VisitKeepsInv ==
    ASSUME PipelineInv, NEW i \in todo, VisitIntent(i)
    PROVE  PipelineInv'
<1>1. CASE RejectAtCap(i)
  BY <1>1, RefuseKeepsInv DEF RejectAtCap, RejectReason
<1>2. CASE RejectUnpriced(i)
  BY <1>2, RefuseKeepsInv DEF RejectUnpriced, RejectReason
<1>3. CASE OpenPosition(i)
  <2>1. /\ Visiting(i) /\ ~CapReached(txIntents[i].key) /\ InsertPosition(i, TRUE)
        /\ Settle(i, IF TRUE THEN "opened" ELSE "quarantined", "none")
    BY <1>3 DEF OpenPosition
  <2>2. QED
    BY <2>1, BindKeepsInv
<1>4. CASE QuarantineIntent(i)
  BY <1>4, RefuseKeepsInv DEF QuarantineIntent, RejectReason
<1>5. CASE QuarantineAfterInsert(i)
  <2>1. /\ Visiting(i) /\ ~CapReached(txIntents[i].key) /\ InsertPosition(i, FALSE)
        /\ Settle(i, IF FALSE THEN "opened" ELSE "quarantined", "none")
    BY <1>5 DEF QuarantineAfterInsert
  <2>2. QED
    BY <2>1, BindKeepsInv
<1>6. QED
  BY <1>1, <1>2, <1>3, <1>4, <1>5 DEF VisitIntent

\* The adapter is done with the intents and turns to the open positions.
LEMMA TurnKeepsInv ==
    ASSUME PipelineInv, TurnToPositions
    PROVE  PipelineInv'
<1>1. /\ phase = "intents" /\ phase' = "positions" /\ todo' = OpenIds(txPositions)
      /\ now' = now /\ intents' = intents /\ positions' = positions
      /\ auth' = auth /\ misreads' = misreads
      /\ txIntents' = txIntents /\ txPositions' = txPositions
  BY DEF TurnToPositions, tables
<1>2. OpenIds(txPositions) \subseteq DOMAIN txPositions /\ DOMAIN txPositions \subseteq Nat
  BY LenProperties DEF OpenIds, PipelineInv, TypeOK
<1>3. TypeOK'
  BY <1>1, <1>2 DEF PipelineInv, TypeOK
<1>4. CycleView'
  BY <1>1, <1>2 DEF PipelineInv, CycleView
<1>5. QED
  BY <1>1, <1>3, <1>4 DEF PipelineInv

\* Managing a position keeps or closes it: only a committed position may close.
LEMMA ManageStep ==
    ASSUME PipelineInv, NEW p \in todo, ManagePosition(p)
    PROVE  /\ txPositions' \in Seq(Position)
           /\ DOMAIN txPositions' = DOMAIN txPositions
           /\ Continues(txPositions', txPositions)
           /\ \A q \in DOMAIN txPositions \ DOMAIN positions :
                 txPositions'[q] = txPositions[q]
<1>1. PICK hit \in BOOLEAN :
        /\ hit => p \in DOMAIN positions
        /\ txPositions' = [txPositions EXCEPT ![p] = Marked(@, hit)]
  BY DEF ManagePosition
<1>2. txPositions \in Seq(Position) /\ p \in DOMAIN txPositions
  BY DEF PipelineInv, TypeOK, CycleView, ManagePosition
<1> DEFINE row == Marked(txPositions[p], hit)
<1>3. ASSUME NEW r \in Position, NEW s, s = Marked(r, hit)
      PROVE  /\ s \in Position
             /\ s.intent = r.intent /\ s.key = r.key /\ s.day = r.day
             /\ s.audited = r.audited
             /\ s.open => r.open
             /\ ~hit => s = r
  BY <1>3 DEF Position, Marked
<1>4. txPositions[p] \in Position
  BY <1>2, ElementOfSeq, LenProperties
<1>5. /\ row \in Position
      /\ row.intent = txPositions[p].intent /\ row.key = txPositions[p].key
      /\ row.day = txPositions[p].day
      /\ row.audited = txPositions[p].audited
      /\ row.open => txPositions[p].open
      /\ ~hit => row = txPositions[p]
  BY <1>3, <1>4
<1>6. txPositions' = [txPositions EXCEPT ![p] = row]
  BY <1>1
<1> HIDE DEF row
<1>7. /\ txPositions' \in Seq(Position)
      /\ DOMAIN txPositions' = DOMAIN txPositions
      /\ txPositions'[p] = row
      /\ \A q \in DOMAIN txPositions : q # p => txPositions'[q] = txPositions[q]
  BY <1>2, <1>5, <1>6, ReplaceRow
<1>8. Continues(txPositions', txPositions)
  BY <1>5, <1>7 DEF Continues
<1>9. \A q \in DOMAIN txPositions \ DOMAIN positions : txPositions'[q] = txPositions[q]
  BY <1>1, <1>5, <1>7
<1>10. QED
  BY <1>7, <1>8, <1>9

LEMMA ManageKeepsInv ==
    ASSUME PipelineInv, NEW p \in todo, ManagePosition(p)
    PROVE  PipelineInv'
<1>1. /\ phase = "positions" /\ phase' = phase /\ todo' \subseteq todo
      /\ now' = now /\ intents' = intents /\ positions' = positions
      /\ auth' = auth /\ misreads' = misreads
      /\ txIntents' = txIntents
  BY DEF ManagePosition, tables
<1>2. /\ txPositions' \in Seq(Position)
      /\ DOMAIN txPositions' = DOMAIN txPositions
      /\ Continues(txPositions', txPositions)
      /\ \A q \in DOMAIN txPositions \ DOMAIN positions : txPositions'[q] = txPositions[q]
  BY ManageStep
<1>3. TypeOK'
  BY <1>1, <1>2 DEF PipelineInv, TypeOK
<1>4. CycleView'
  <2>1. Continues(txPositions', positions)
    BY <1>1, <1>2 DEF PipelineInv, CycleView, Continues
  <2>2. \A q \in DOMAIN txPositions' \ DOMAIN positions :
           txPositions'[q].open /\ txPositions'[q].intent \in Pending(intents)
    BY <1>1, <1>2 DEF PipelineInv, CycleView
  <2>3. QED
    BY <1>1, <1>2, <2>1, <2>2 DEF PipelineInv, CycleView
<1>5. WithinOpenCaps(txPositions') /\ WithinDailyCap(txPositions')
  BY <1>2, ClosingKeepsCaps DEF PipelineInv, TypeOK
<1>6. BoundOnce(txIntents', txPositions')
  BY <1>1, <1>2, ClosingKeepsBinding DEF PipelineInv
<1>7. QED
  BY <1>1, <1>3, <1>4, <1>5, <1>6 DEF PipelineInv

\* A commit publishes what the transaction built.
LEMMA CommitKeepsInv ==
    ASSUME PipelineInv, CommitCycle
    PROVE  PipelineInv'
<1>1. /\ phase' = "idle" /\ intents' = txIntents /\ positions' = txPositions
      /\ txIntents' = <<>> /\ txPositions' = <<>> /\ todo' = {}
      /\ now' = now /\ auth' = auth /\ misreads' = misreads
  BY DEF CommitCycle
<1>2. TypeOK'
  BY <1>1, EmptySeq DEF PipelineInv, TypeOK
<1>3. CycleView'
  BY <1>1 DEF CycleView
<1>4. QED
  BY <1>1, <1>2, <1>3, EmptyTable DEF PipelineInv

\* A rollback leaves the committed tables as they were.
LEMMA AbandonKeepsInv ==
    ASSUME PipelineInv, AbandonCycle
    PROVE  PipelineInv'
<1>1. /\ phase' = "idle" /\ intents' = intents /\ positions' = positions
      /\ txIntents' = <<>> /\ txPositions' = <<>> /\ todo' = {}
      /\ now' = now /\ auth' = auth /\ misreads' = misreads
  BY DEF AbandonCycle, tables
<1>2. TypeOK'
  BY <1>1, EmptySeq DEF PipelineInv, TypeOK
<1>3. CycleView'
  BY <1>1 DEF CycleView
<1>4. QED
  BY <1>1, <1>2, <1>3, EmptyTable DEF PipelineInv

\* A gate moves one authority on, about the same key.
LEMMA GateMoves ==
    ASSUME auth \in [Authorities -> AuthorityState], NEW a \in Authorities,
           NEW from \in {"screened", "counted", "placed"},
           NEW to \in {"counted", "placed", "approved"}, PassGate(a, from, TRUE, to)
    PROVE  /\ auth' \in [Authorities -> AuthorityState]
           /\ auth[a].step = from
           /\ auth'[a].step = to /\ auth'[a].key = auth[a].key
           /\ \A b \in Authorities : b # a => auth'[b] = auth[b]
<1>1. auth[a] \in [step : {"screened", "counted", "placed", "approved"}, key : Keys]
  BY DEF PassGate, AuthorityState, Resting
<1>2. PICK row : row = [auth[a] EXCEPT !.step = to]
  OBVIOUS
<1>3. auth' = [auth EXCEPT ![a] = row]
  BY <1>2 DEF PassGate
<1>4. row \in AuthorityState /\ row.step = to /\ row.key = auth[a].key
  BY <1>1, <1>2 DEF AuthorityState
<1>5. QED
  BY <1>3, <1>4 DEF PassGate

\* A gate counts, or its read fails and the slack of its budget grows by one.
LEMMA GateReads ==
    ASSUME PipelineInv, NEW a, NEW from, NEW to \in Gate, PassGate(a, from, TRUE, to)
    PROVE  /\ misreads' \in [Gate -> Nat]
           /\ \A g \in Gate : /\ Slack(g) \in Nat /\ (Slack(g))' \in Nat
                              /\ Slack(g) <= (Slack(g))'
           /\ Misread(to) => (Slack(to))' = Slack(to) + 1
<1>1. misreads \in [Gate -> Nat] /\ Cardinality(Authorities) \in Nat
  BY ConstantsAssumption, FS_CardinalityType DEF PipelineInv, TypeOK
<1>2. misreads' = misreads \/ Misread(to)
  BY DEF PassGate
<1>3. /\ misreads' \in [Gate -> Nat]
      /\ \A g \in Gate : misreads[g] <= misreads'[g]
      /\ Misread(to) => misreads'[to] = misreads[to] + 1
  BY <1>1, <1>2 DEF Misread
<1>4. QED
  BY <1>1, <1>3 DEF Slack

\* The steps of an authority that only change what it holds in memory.
LEMMA AuthorityKeepsInv ==
    ASSUME PipelineInv, NEW a \in Authorities, AuthorityStep(a)
    PROVE  PipelineInv'
<1>1. /\ now \in Nat /\ now <= MaxNow /\ auth \in [Authorities -> AuthorityState]
      /\ misreads \in [Gate -> Nat]
  BY DEF PipelineInv, TypeOK
<1>2. ASSUME NEW k \in Keys, ScreenKey(a, k)
      PROVE  PipelineInv'
  <2>1. auth' \in [Authorities -> AuthorityState]
    BY <1>1, <1>2 DEF ScreenKey, AuthorityState
  <2>2. QED
    BY <1>1, <1>2, <2>1, QuietStepKeepsInv DEF ScreenKey
<1>3. CASE CountAttempts(a) \/ CountActive(a) \/ ApproveKey(a)
  <2>1. PICK from \in {"screened", "counted", "placed"}, to \in {"counted", "placed", "approved"} :
            PassGate(a, from, TRUE, to)
    BY <1>3 DEF CountAttempts, CountActive, ApproveKey, PassGate
  <2>2. auth' \in [Authorities -> AuthorityState] /\ misreads' \in [Gate -> Nat]
    BY <1>1, <2>1, GateMoves, GateReads DEF Gate
  <2>3. QED
    BY <1>1, <2>1, <2>2, QuietStepKeepsInv DEF PassGate
<1>4. CASE EmitIntent(a)
  BY <1>4, EmitKeepsInv
<1>5. CASE AuthorityQuit(a)
  <2>1. auth' \in [Authorities -> AuthorityState]
    BY <1>1, <1>5 DEF AuthorityQuit, AuthorityState
  <2>2. QED
    BY <1>1, <1>5, <2>1, QuietStepKeepsInv DEF AuthorityQuit
<1>6. QED
  BY <1>2, <1>3, <1>4, <1>5 DEF AuthorityStep

LEMMA StepKeepsInv == PipelineInv /\ [Next]_vars => PipelineInv'
<1> SUFFICES ASSUME PipelineInv, [Next]_vars PROVE PipelineInv'
  OBVIOUS
<1>1. CASE Tick
  BY <1>1, QuietStepKeepsInv, ConstantsAssumption DEF Tick, PipelineInv, TypeOK
<1>2. ASSUME NEW a \in Authorities, AuthorityStep(a) PROVE PipelineInv'
  BY <1>2, AuthorityKeepsInv
<1>3. CASE AdapterStep
  BY <1>3, BeginKeepsInv, VisitKeepsInv, TurnKeepsInv, ManageKeepsInv, CommitKeepsInv
     DEF AdapterStep
<1>4. CASE AbandonCycle
  BY <1>4, AbandonKeepsInv
<1>5. CASE UNCHANGED vars
  BY <1>5, QuietStepKeepsInv DEF vars, PipelineInv, TypeOK
<1>6. QED
  BY <1>1, <1>2, <1>3, <1>4, <1>5 DEF Next

\* In every reachable state the invariant holds: types, caps and binding, of the
\* committed tables and of the uncommitted ones.
THEOREM InvariantHolds == Spec => []PipelineInv
BY InitEstablishesInv, StepKeepsInv, PTL DEF Spec

\* Every variable keeps its type.
THEOREM TypesHold == Spec => []TypeOK
<1>1. PipelineInv => TypeOK
  BY DEF PipelineInv
<1>2. QED
  BY <1>1, InvariantHolds, PTL

\* The three caps on open positions hold whatever the authorities emit and
\* wherever a cycle is cut short.
THEOREM OpenCapsHold == Spec => []OpenCaps
<1>1. PipelineInv => OpenCaps
  BY DEF PipelineInv, OpenCaps
<1>2. QED
  BY <1>1, InvariantHolds, PTL

\* No UTC day sees more audited openings than the daily cap.
THEOREM DailyOpenCapHolds == Spec => []DailyOpenCap
<1>1. PipelineInv => DailyOpenCap
  BY DEF PipelineInv, DailyOpenCap
<1>2. QED
  BY <1>1, InvariantHolds, PTL

\* No intent ever has two positions, and an opened one has one, even when a
\* statement fails after the position insert.
THEOREM BindingHolds == Spec => []BoundAtMostOnce
<1>1. PipelineInv => BoundAtMostOnce
  BY DEF PipelineInv, BoundAtMostOnce
<1>2. QED
  BY <1>1, InvariantHolds, PTL

-----------------------------------------------------------------------------
(* The budgets of the authorities.                                         *)

\* A later moment is of no earlier day.
LEMMA DaysPass == ASSUME NEW t \in Nat, NEW u \in Nat, t <= u PROVE Day(t) <= Day(u)
<1>1. DayLength \in Nat \ {0}
  BY ConstantsAssumption
<1> DEFINE a == Day(t)
           b == Day(u)
<1>2. /\ a \in Nat /\ b \in Nat
      /\ a * DayLength <= t
      /\ u < (b + 1) * DayLength
  BY <1>1 DEF Day
<1> HIDE DEF a, b
<1>3. ASSUME a > b PROVE FALSE
  <2>1. PICK c \in Nat : a = b + 1 + c
    BY <1>2, <1>3, a - b - 1 \in Nat
  <2>2. a * DayLength = (b + 1) * DayLength + c * DayLength /\ c * DayLength \in Nat
    BY <1>1, <1>2, <2>1
  <2>3. /\ a * DayLength \in Nat /\ (b + 1) * DayLength \in Nat
    BY <1>1, <1>2
  <2>4. QED
    BY <1>2, <2>2, <2>3
<1>4. QED
  BY <1>2, <1>3 DEF a, b

\* What every count of the budgets is taken over.
LEMMA BudgetSets ==
    ASSUME PipelineInv
    PROVE  /\ now \in Nat
           /\ \A i \in DOMAIN intents : intents[i] \in Intent /\ intents[i].at \in Nat
           /\ Cardinality(Authorities) \in Nat \ {0}
           /\ \A g \in Gate : Slack(g) \in Nat \ {0} /\ Cardinality(Authorities) <= Slack(g)
           /\ Counted = DOMAIN intents
           /\ IsFiniteSet(Counting) /\ IsFiniteSet(Placing)
           /\ \A k : IsFiniteSet(ApprovedFor(k))
           /\ Cardinality(Counting) \in Nat /\ Cardinality(Placing) \in Nat
           /\ \A k : Cardinality(ApprovedFor(k)) \in Nat
           /\ IsFiniteSet(ActiveIntents) /\ Cardinality(ActiveIntents) \in Nat
           /\ \A d : IsFiniteSet(OfDay(d)) /\ Cardinality(OfDay(d)) \in Nat
           /\ \A i : IsFiniteSet(Within(i)) /\ Cardinality(Within(i)) \in Nat
<1>1. now \in Nat /\ intents \in Seq(Intent)
  BY DEF PipelineInv, TypeOK
<1>2. \A i \in DOMAIN intents : intents[i] \in Intent
  BY <1>1, ElementOfSeq, LenProperties
<1>3. \A i \in DOMAIN intents : intents[i].at \in Nat
  BY <1>2 DEF Intent
<1>4. Cardinality(Authorities) \in Nat \ {0}
  BY ConstantsAssumption, FS_CardinalityType, FS_EmptySet
<1>4a. \A g \in Gate : Slack(g) \in Nat \ {0} /\ Cardinality(Authorities) <= Slack(g)
  <2>1. misreads \in [Gate -> Nat]
    BY DEF PipelineInv, TypeOK
  <2>2. QED
    BY <1>4, <2>1 DEF Slack
<1>5. Counted = DOMAIN intents
  BY DEF Counted, InfraRejected, LegacyAudit
<1>6. /\ Counting \in SUBSET Authorities /\ Placing \in SUBSET Authorities
      /\ \A k : ApprovedFor(k) \in SUBSET Authorities
  BY DEF Counting, Placing, ApprovedFor
<1>7. /\ ActiveIntents \in SUBSET DOMAIN intents
      /\ \A d : OfDay(d) \in SUBSET DOMAIN intents
      /\ \A i : Within(i) \in SUBSET DOMAIN intents
  BY <1>5 DEF ActiveIntents, OfDay, Within
<1>8. /\ IsFiniteSet(Counting) /\ IsFiniteSet(Placing)
      /\ \A k : IsFiniteSet(ApprovedFor(k))
      /\ Cardinality(Counting) \in Nat /\ Cardinality(Placing) \in Nat
      /\ \A k : Cardinality(ApprovedFor(k)) \in Nat
  BY <1>6, ConstantsAssumption, FS_Subset, FS_CardinalityType
<1>9. /\ IsFiniteSet(ActiveIntents) /\ Cardinality(ActiveIntents) \in Nat
      /\ \A d : IsFiniteSet(OfDay(d)) /\ Cardinality(OfDay(d)) \in Nat
      /\ \A i : IsFiniteSet(Within(i)) /\ Cardinality(Within(i)) \in Nat
  BY <1>1, <1>7, RowsAreFinite
<1>10. QED
  BY <1>1, <1>2, <1>3, <1>4, <1>4a, <1>5, <1>8, <1>9

\* Nothing is emitted or approved at first.
LEMMA InitBudget == ASSUME Init PROVE BudgetInv
<1>1. PipelineInv
  BY InitEstablishesInv
<1>2. DOMAIN intents = {} /\ Counting = {} /\ Placing = {} /\ phase = "idle"
  BY DEF Init, Counting, Placing, Resting
<1>3. ActiveIntents = {} /\ \A d : OfDay(d) = {}
  BY <1>1, <1>2, BudgetSets DEF ActiveIntents, OfDay
<1>4. Cardinality({}) = 0
  BY FS_EmptySet
<1>5. /\ 0 + 0 < MaxDailyAttempts + Slack("counted")
      /\ 0 + 0 < MaxActive + Slack("placed")
  BY <1>1, BudgetSets, ConstantsAssumption DEF Gate
<1>6. AttemptsInHand /\ ActiveInHand
  BY <1>2, <1>3, <1>4, <1>5 DEF AttemptsInHand, ActiveInHand
<1>7. TimesArePast /\ KeysInHand /\ AttemptBudget /\ KeysCoolDown
  BY <1>2 DEF TimesArePast, KeysInHand, AttemptBudget, KeysCoolDown
<1>8. QED
  BY <1>1, <1>6, <1>7 DEF BudgetInv

\* A step that emits nothing: it may let time pass, settle intents, and give up
\* what was in hand, while no budget loses slack.
LEMMA QuietStep ==
    ASSUME PipelineInv, PipelineInv', BudgetInv,
           now <= now', DOMAIN intents' = DOMAIN intents,
           \A g \in Gate : Slack(g) <= (Slack(g))',
           \A i \in DOMAIN intents :
              /\ intents'[i].at = intents[i].at /\ intents'[i].key = intents[i].key
              /\ intents'[i].status \in {"pending", "opened"}
                    => intents[i].status \in {"pending", "opened"},
           phase' # "idle" => \A i \in DOMAIN intents : txIntents'[i].at = intents[i].at
    PROVE  /\ TimesArePast' /\ AttemptBudget' /\ KeysCoolDown'
           /\ Counting' \subseteq Counting => AttemptsInHand'
           /\ Placing' \subseteq Placing => ActiveInHand'
           /\ (\A k : ApprovedFor(k)' \subseteq ApprovedFor(k)) => KeysInHand'
<1>1. /\ now \in Nat /\ now' \in Nat /\ KeyCooldown \in Nat /\ ActiveWindow \in Nat
      /\ MaxDailyAttempts \in Nat /\ MaxActive \in Nat /\ MaxNow \in Nat
      /\ \A i \in DOMAIN intents : intents[i].at \in Nat /\ intents[i].at <= now
      /\ Counted = DOMAIN intents /\ Counted' = DOMAIN intents
  BY BudgetSets, ConstantsAssumption
     DEF PipelineInv, TypeOK, BudgetInv, TimesArePast, Counted, InfraRejected, LegacyAudit
<1>1a. /\ \A g \in Gate : Slack(g) \in Nat /\ (Slack(g))' \in Nat /\ Slack(g) <= (Slack(g))'
       /\ "counted" \in Gate /\ "placed" \in Gate /\ "approved" \in Gate
  <2>1. \A g \in Gate : Slack(g) \in Nat
    BY BudgetSets
  <2>2. \A g \in Gate : (Slack(g))' \in Nat
    <3>1. misreads' \in [Gate -> Nat] /\ Cardinality(Authorities) \in Nat
      BY BudgetSets DEF PipelineInv, TypeOK, Gate
    <3>2. QED
      BY <3>1 DEF Slack
  <2>3. QED
    BY <2>1, <2>2 DEF Gate
<1>2. /\ \A d : OfDay(d)' = OfDay(d)
      /\ \A i \in DOMAIN intents : SameDay(i)' = SameDay(i)
      /\ \A i \in DOMAIN intents : Within(i)' = Within(i)
  BY DEF OfDay, SameDay, Within, Day
<1>3. ActiveIntents' \subseteq ActiveIntents
  <2>1. SUFFICES ASSUME NEW i \in ActiveIntents' PROVE i \in ActiveIntents
    OBVIOUS
  <2>2. /\ i \in DOMAIN intents /\ now' - intents[i].at <= ActiveWindow
        /\ intents'[i].status \in {"pending", "opened"}
    BY <1>1 DEF ActiveIntents
  <2>3. now - intents[i].at <= ActiveWindow
    BY <1>1, <2>2
  <2>4. QED
    BY <1>1, <2>2, <2>3 DEF ActiveIntents
<1>4. TimesArePast'
  BY <1>1 DEF TimesArePast
<1>5. AttemptBudget' /\ KeysCoolDown'
  <2>1. ASSUME NEW i \in DOMAIN intents'
        PROVE  /\ Cardinality(SameDay(i)') < MaxDailyAttempts + Slack("counted")'
               /\ Cardinality(Within(i)') <= Slack("approved")'
    <3>1. /\ Cardinality(SameDay(i)) < MaxDailyAttempts + Slack("counted")
          /\ Cardinality(Within(i)) <= Slack("approved")
      BY <2>1 DEF BudgetInv, AttemptBudget, KeysCoolDown
    <3>2. SameDay(i) = OfDay(Day(intents[i].at))
      BY DEF SameDay, OfDay
    <3>3. Cardinality(SameDay(i)) \in Nat /\ Cardinality(Within(i)) \in Nat
      BY <3>2, BudgetSets
    <3>4. SameDay(i)' = SameDay(i) /\ Within(i)' = Within(i)
      BY <1>2, <2>1
    <3>5. QED
      BY <1>1, <1>1a, <3>1, <3>3, <3>4
  <2>2. QED
    BY <2>1 DEF AttemptBudget, KeysCoolDown
<1>6. ASSUME Counting' \subseteq Counting PROVE AttemptsInHand'
  <2>1. SUFFICES ASSUME NEW t \in now' .. MaxNow
                 PROVE  Cardinality(OfDay(Day(t))') + Cardinality(Counting')
                           < MaxDailyAttempts + Slack("counted")'
    BY DEF AttemptsInHand, OfDay, Day
  <2>2. t \in now .. MaxNow
    BY <1>1, <2>1
  <2>3. Cardinality(OfDay(Day(t))) + Cardinality(Counting)
          < MaxDailyAttempts + Slack("counted")
    BY <2>2 DEF BudgetInv, AttemptsInHand
  <2>4. /\ Cardinality(OfDay(Day(t))) \in Nat /\ Cardinality(Counting) \in Nat
        /\ Cardinality(Counting') \in Nat /\ Cardinality(Counting') <= Cardinality(Counting)
    BY <1>6, BudgetSets, FS_Subset, FS_CardinalityType
  <2>5. OfDay(Day(t))' = OfDay(Day(t))
    BY <1>2 DEF Day, OfDay
  <2>6. QED
    BY <1>1, <1>1a, <2>3, <2>4, <2>5
<1>7. ASSUME Placing' \subseteq Placing PROVE ActiveInHand'
  <2>1. Cardinality(ActiveIntents) + Cardinality(Placing)
          < MaxActive + Slack("placed")
    BY DEF BudgetInv, ActiveInHand
  <2>2. /\ Cardinality(ActiveIntents) \in Nat /\ Cardinality(Placing) \in Nat
        /\ Cardinality(ActiveIntents') \in Nat /\ Cardinality(Placing') \in Nat
        /\ Cardinality(ActiveIntents') + Cardinality(Placing')
              <= Cardinality(ActiveIntents) + Cardinality(Placing)
    BY <1>3, <1>7, BudgetSets, SumNoMore
  <2>3. QED
    BY <1>1, <1>1a, <2>1, <2>2 DEF ActiveInHand
<1>8. ASSUME \A k : ApprovedFor(k)' \subseteq ApprovedFor(k) PROVE KeysInHand'
  <2>1. SUFFICES ASSUME NEW i \in DOMAIN intents', now' - intents'[i].at <= KeyCooldown
                 PROVE  Cardinality(Within(i)') + Cardinality(ApprovedFor(intents[i].key)')
                           <= Slack("approved")'
    BY DEF KeysInHand
  <2>2. i \in DOMAIN intents /\ now - intents[i].at <= KeyCooldown
    BY <1>1, <2>1
  <2>3. Cardinality(Within(i)) + Cardinality(ApprovedFor(intents[i].key))
          <= Slack("approved")
    BY <2>2 DEF BudgetInv, KeysInHand
  <2>4. /\ Cardinality(Within(i)) \in Nat
        /\ Cardinality(ApprovedFor(intents[i].key)) \in Nat
        /\ Cardinality(ApprovedFor(intents[i].key)') \in Nat
        /\ Cardinality(ApprovedFor(intents[i].key)')
              <= Cardinality(ApprovedFor(intents[i].key))
    BY <1>8, BudgetSets, FS_Subset, FS_CardinalityType
  <2>5. Within(i)' = Within(i)
    BY <1>2, <2>2
  <2>6. QED
    BY <1>1, <1>1a, <2>3, <2>4, <2>5
<1>9. QED
  BY <1>4, <1>5, <1>6, <1>7, <1>8

\* ... and so it keeps the budgets when nobody passes a gate.
LEMMA QuietKeepsBudget ==
    ASSUME PipelineInv, PipelineInv', BudgetInv,
           now <= now', DOMAIN intents' = DOMAIN intents,
           \A g \in Gate : Slack(g) <= (Slack(g))',
           \A i \in DOMAIN intents :
              /\ intents'[i].at = intents[i].at /\ intents'[i].key = intents[i].key
              /\ intents'[i].status \in {"pending", "opened"}
                    => intents[i].status \in {"pending", "opened"},
           phase' # "idle" => \A i \in DOMAIN intents : txIntents'[i].at = intents[i].at,
           Counting' \subseteq Counting, Placing' \subseteq Placing,
           \A k : ApprovedFor(k)' \subseteq ApprovedFor(k)
    PROVE  BudgetInv'
BY QuietStep DEF BudgetInv

\* No intent is of a day to come, so a gate that counts today's has counted those
\* of every later day.
LEMMA LaterDaysAreFree ==
    ASSUME PipelineInv, BudgetInv, Cardinality(OfDay(Day(now))) < MaxDailyAttempts,
           NEW t \in Nat, t >= now
    PROVE  Cardinality(OfDay(Day(t))) < MaxDailyAttempts
<1>1. /\ now \in Nat /\ MaxDailyAttempts \in Nat
      /\ \A i \in DOMAIN intents : intents[i].at \in Nat /\ intents[i].at <= now
      /\ \A d : Cardinality(OfDay(d)) \in Nat
  BY BudgetSets, ConstantsAssumption DEF BudgetInv, TimesArePast
<1>2. CASE Day(t) = Day(now)
  BY <1>2
<1>3. CASE Day(t) # Day(now)
  <2>1. \A i \in DOMAIN intents : Day(intents[i].at) # Day(t)
    <3>1. SUFFICES ASSUME NEW i \in DOMAIN intents PROVE Day(intents[i].at) # Day(t)
      OBVIOUS
    <3>2. Day(intents[i].at) <= Day(now) /\ Day(now) <= Day(t)
      BY <1>1, DaysPass
    <3>3. Day(intents[i].at) \in Nat /\ Day(now) \in Nat /\ Day(t) \in Nat
      BY <1>1, DayIsNat
    <3>4. QED
      BY <1>3, <3>2, <3>3
  <2>2. OfDay(Day(t)) = {}
    BY <2>1 DEF OfDay
  <2>3. QED
    BY <1>1, <2>2, FS_EmptySet
<1>4. QED
  BY <1>2, <1>3

\* One authority more in hand.
LEMMA OneMoreInHand ==
    ASSUME NEW A, IsFiniteSet(A), NEW x, NEW B \in SUBSET (A \cup {x})
    PROVE  Cardinality(B) \in Nat /\ Cardinality(B) <= Cardinality(A) + 1
<1>1. Cardinality(A) \in Nat /\ Cardinality(A) < Cardinality(A) + 1
  BY FS_CardinalityType
<1>2. IsFiniteSet(A \cup {x})
  BY FS_AddElement
<1>3. Cardinality(B) \in Nat
  BY <1>2, FS_Subset, FS_CardinalityType
<1>4. Cardinality(B) <= Cardinality(A) + 1
  <2>1. PICK cap \in Nat : cap = Cardinality(A) + 1
    BY <1>1
  <2>2. Cardinality(A) < cap
    BY <1>1, <2>1
  <2>3. Cardinality(B) <= cap
    BY <2>2, CountOneMore
  <2>4. QED
    BY <2>1, <2>3
<1>5. QED
  BY <1>3, <1>4

\* A gate found room in its budget, for each of the other authorities has one
\* intent in hand at most, or its read failed and the budget got one more.
LEMMA GateKeepsBudget ==
    ASSUME PipelineInv, PipelineInv', BudgetInv, NEW a \in Authorities,
           CountAttempts(a) \/ CountActive(a) \/ ApproveKey(a)
    PROVE  BudgetInv'
<1>1. PICK from \in {"screened", "counted", "placed"}, to \in {"counted", "placed", "approved"} :
          PassGate(a, from, TRUE, to)
  BY DEF CountAttempts, CountActive, ApproveKey, PassGate
<1>2. /\ auth \in [Authorities -> AuthorityState] /\ now \in Nat
      /\ MaxDailyAttempts \in Nat /\ MaxActive \in Nat /\ MaxNow \in Nat
      /\ Cardinality(Authorities) \in Nat \ {0}
  BY BudgetSets, ConstantsAssumption DEF PipelineInv, TypeOK
<1>2a. \A g \in Gate : /\ Slack(g) \in Nat /\ (Slack(g))' \in Nat
                       /\ Slack(g) <= (Slack(g))'
                       /\ Cardinality(Authorities) <= (Slack(g))'
  <2>1. \A g \in Gate : /\ Slack(g) \in Nat /\ (Slack(g))' \in Nat
                        /\ Slack(g) <= (Slack(g))'
    BY <1>1, GateReads DEF Gate
  <2>2. \A g \in Gate : Cardinality(Authorities) <= Slack(g)
    BY BudgetSets
  <2>3. QED
    BY <1>2, <2>1, <2>2
<1>3. /\ auth'[a].key = auth[a].key
      /\ \A b \in Authorities : b # a => auth'[b] = auth[b]
  BY <1>1, <1>2, GateMoves
<1>4. UNCHANGED <<now, intents, phase, txIntents>>
  BY <1>1 DEF PassGate, tables, adapterVars
<1>5. Counted = DOMAIN intents /\ Counted' = DOMAIN intents
  BY <1>4, BudgetSets DEF Counted, InfraRejected, LegacyAudit
<1>6. /\ \A d : OfDay(d)' = OfDay(d)
      /\ \A i : Within(i)' = Within(i)
      /\ ActiveIntents' = ActiveIntents
  BY <1>4, <1>5 DEF OfDay, Within, ActiveIntents, Day
<1>7. /\ TimesArePast' /\ AttemptBudget' /\ KeysCoolDown'
      /\ Counting' \subseteq Counting => AttemptsInHand'
      /\ Placing' \subseteq Placing => ActiveInHand'
      /\ (\A k : ApprovedFor(k)' \subseteq ApprovedFor(k)) => KeysInHand'
  BY <1>2, <1>2a, <1>4, QuietStep DEF BudgetInv, TimesArePast
<1>8. CASE CountAttempts(a)
  <2>1. /\ auth[a].step = "screened" /\ auth'[a].step = "counted"
        /\ \/ Cardinality(AttemptsToday) < MaxDailyAttempts
           \/ Slack("counted")' = Slack("counted") + 1
    <3>1. PassGate(a, "screened", TRUE, "counted") /\ (Cardinality(AttemptsToday) < MaxDailyAttempts \/ Misread("counted"))
      BY <1>8 DEF CountAttempts, PassGate
    <3>2. QED
      BY <1>2, <3>1, GateMoves, GateReads DEF Gate
  <2>2. AttemptsToday = OfDay(Day(now))
    BY <1>5 DEF AttemptsToday, OfDay
  <2>3. /\ Placing' \subseteq Placing
        /\ \A k : ApprovedFor(k)' \subseteq ApprovedFor(k)
    BY <1>3, <2>1 DEF Placing, ApprovedFor
  <2>4. Counting' \in SUBSET Authorities /\ Counting' \in SUBSET (Counting \cup {a})
    BY <1>3 DEF Counting
  <2>5. /\ Cardinality(Counting') \in Nat /\ Cardinality(Counting') <= Cardinality(Authorities)
        /\ Cardinality(Counting) \in Nat /\ Cardinality(Counting') <= Cardinality(Counting) + 1
    BY <2>4, OneMoreInHand, BudgetSets, FS_Subset, FS_CardinalityType, ConstantsAssumption
  <2>6. ASSUME NEW t \in now .. MaxNow
        PROVE  Cardinality(OfDay(Day(t))') + Cardinality(Counting')
                  < MaxDailyAttempts + Slack("counted")'
    <3>1. t \in Nat /\ t >= now
      BY <1>2, <2>6
    <3>2. OfDay(Day(t))' = OfDay(Day(t)) /\ Cardinality(OfDay(Day(t))) \in Nat
      BY <1>4, BudgetSets DEF OfDay, Day
    <3>3. CASE Cardinality(AttemptsToday) < MaxDailyAttempts
      <4>1. Cardinality(OfDay(Day(t))) < MaxDailyAttempts
        BY <2>2, <3>1, <3>3, LaterDaysAreFree
      <4>2. QED
        BY <1>2, <1>2a, <2>5, <3>2, <4>1 DEF Gate
    <3>4. CASE Slack("counted")' = Slack("counted") + 1
      <4>1. Cardinality(OfDay(Day(t))) + Cardinality(Counting)
              < MaxDailyAttempts + Slack("counted")
        BY <2>6 DEF BudgetInv, AttemptsInHand
      <4>2. QED
        BY <1>2, <1>2a, <2>5, <3>2, <3>4, <4>1 DEF Gate
    <3>5. QED
      BY <2>1, <3>3, <3>4
  <2>7. AttemptsInHand'
    BY <1>4, <2>6 DEF AttemptsInHand, OfDay, Day
  <2>8. QED
    BY <1>7, <2>3, <2>7 DEF BudgetInv
<1>9. CASE CountActive(a)
  <2>1. /\ auth[a].step = "counted" /\ auth'[a].step = "placed"
        /\ \/ Cardinality(ActiveIntents) < MaxActive
           \/ Slack("placed")' = Slack("placed") + 1
    <3>1. PassGate(a, "counted", TRUE, "placed") /\ (Cardinality(ActiveIntents) < MaxActive \/ Misread("placed"))
      BY <1>9 DEF CountActive, PassGate
    <3>2. QED
      BY <1>2, <3>1, GateMoves, GateReads DEF Gate
  <2>2. /\ Counting' \subseteq Counting
        /\ \A k : ApprovedFor(k)' \subseteq ApprovedFor(k)
    BY <1>3, <2>1 DEF Counting, ApprovedFor
  <2>3. Placing' \in SUBSET Authorities /\ Placing' \in SUBSET (Placing \cup {a})
    BY <1>3 DEF Placing
  <2>4. /\ Cardinality(Placing') \in Nat /\ Cardinality(Placing') <= Cardinality(Authorities)
        /\ Cardinality(Placing) \in Nat /\ Cardinality(Placing') <= Cardinality(Placing) + 1
        /\ Cardinality(ActiveIntents) \in Nat
    BY <2>3, OneMoreInHand, BudgetSets, FS_Subset, FS_CardinalityType, ConstantsAssumption
  <2>4a. Cardinality(ActiveIntents) + Cardinality(Placing) < MaxActive + Slack("placed")
    BY DEF BudgetInv, ActiveInHand
  <2>4b. Cardinality(ActiveIntents) + Cardinality(Placing') < MaxActive + Slack("placed")'
    BY <1>2, <1>2a, <2>1, <2>4, <2>4a DEF Gate
  <2>5. ActiveInHand'
    BY <1>6, <2>4b DEF ActiveInHand
  <2>6. QED
    BY <1>7, <2>2, <2>5 DEF BudgetInv
<1>10. CASE ApproveKey(a)
  <2>1. /\ auth[a].step = "placed" /\ auth'[a].step = "approved"
        /\ \/ RecentKeyAttempts(auth[a].key) = {}
           \/ Slack("approved")' = Slack("approved") + 1
    <3>1. PassGate(a, "placed", TRUE, "approved") /\ (RecentKeyAttempts(auth[a].key) = {} \/ Misread("approved"))
      BY <1>10 DEF ApproveKey, PassGate
    <3>2. QED
      BY <1>2, <3>1, GateMoves, GateReads DEF Gate
  <2>2. /\ Counting' \subseteq Counting /\ Placing' \subseteq Placing
        /\ \A k : k # auth[a].key => ApprovedFor(k)' \subseteq ApprovedFor(k)
    BY <1>3, <2>1 DEF Counting, Placing, ApprovedFor
  <2>3. ASSUME NEW i \in DOMAIN intents, now - intents[i].at <= KeyCooldown
        PROVE  Cardinality(Within(i)') + Cardinality(ApprovedFor(intents[i].key)')
                  <= Slack("approved")'
    <3>1. Cardinality(Within(i)) + Cardinality(ApprovedFor(intents[i].key))
            <= Slack("approved")
      BY <2>3 DEF BudgetInv, KeysInHand
    <3>2. /\ IsFiniteSet(ApprovedFor(intents[i].key))
          /\ Cardinality(Within(i)) \in Nat
          /\ Cardinality(ApprovedFor(intents[i].key)) \in Nat
      BY BudgetSets
    <3>3. CASE RecentKeyAttempts(auth[a].key) = {}
      <4>1. intents[i].key # auth[a].key
        BY <1>5, <2>3, <3>3 DEF RecentKeyAttempts
      <4>2. (ApprovedFor(intents[i].key))' \subseteq ApprovedFor(intents[i].key)
        BY <1>4, <2>2, <4>1 DEF ApprovedFor
      <4>3. /\ Cardinality((ApprovedFor(intents[i].key))') \in Nat
            /\ Cardinality((ApprovedFor(intents[i].key))')
                  <= Cardinality(ApprovedFor(intents[i].key))
        BY <3>2, <4>2, FS_Subset, FS_CardinalityType
      <4>4. QED
        BY <1>2a, <1>6, <3>1, <3>2, <4>3 DEF Gate
    <3>4. CASE Slack("approved")' = Slack("approved") + 1
      <4>1. (ApprovedFor(intents[i].key))' \in SUBSET (ApprovedFor(intents[i].key) \cup {a})
        BY <1>3, <1>4 DEF ApprovedFor
      <4>2. /\ Cardinality((ApprovedFor(intents[i].key))') \in Nat
            /\ Cardinality((ApprovedFor(intents[i].key))')
                  <= Cardinality(ApprovedFor(intents[i].key)) + 1
        BY <3>2, <4>1, OneMoreInHand
      <4>3. QED
        BY <1>2a, <1>6, <3>1, <3>2, <3>4, <4>2 DEF Gate
    <3>5. QED
      BY <2>1, <3>3, <3>4
  <2>4. KeysInHand'
    BY <1>4, <2>3 DEF KeysInHand
  <2>5. QED
    BY <1>7, <2>2, <2>4 DEF BudgetInv
<1>11. QED
  BY <1>8, <1>9, <1>10

\* What an emission does to the tables and to the approvals in hand.
LEMMA EmissionSpends ==
    ASSUME PipelineInv, NEW a \in Authorities, EmitIntent(a)
    PROVE  \E x \in Nat :
              /\ DOMAIN intents' = DOMAIN intents \cup {x} /\ x \notin DOMAIN intents
              /\ intents'[x].at = now /\ intents'[x].key = auth[a].key
              /\ \A i \in DOMAIN intents : intents'[i] = intents[i]
              /\ a \in Counting /\ a \in Placing /\ a \in ApprovedFor(auth[a].key)
              /\ Counting' \subseteq Counting \ {a} /\ Placing' \subseteq Placing \ {a}
              /\ \A k : ApprovedFor(k)' \subseteq ApprovedFor(k) \ {a}
              /\ phase' = "idle" /\ now' = now /\ misreads' = misreads
<1> DEFINE row == [key |-> auth[a].key, at |-> now, status |-> "pending", reason |-> "none"]
<1>1. /\ intents' = Append(intents, row) /\ auth' = [auth EXCEPT ![a] = Resting]
      /\ phase' = "idle" /\ now' = now /\ misreads' = misreads /\ auth[a].step = "approved"
  BY DEF EmitIntent, adapterVars
<1>2. intents \in Seq(Intent) /\ auth \in [Authorities -> AuthorityState] /\ now \in Nat
  BY DEF PipelineInv, TypeOK
<1>3. auth[a].key \in Keys
  BY <1>1, <1>2 DEF AuthorityState, Resting
<1>4. row \in Intent /\ row.at = now /\ row.key = auth[a].key
  BY <1>2, <1>3 DEF Intent, IntentStatus, RejectReason
<1> HIDE DEF row
<1>5. /\ DOMAIN intents' = DOMAIN intents \cup {Len(intents) + 1}
      /\ Len(intents) + 1 \notin DOMAIN intents
      /\ intents'[Len(intents) + 1] = row
      /\ \A i \in DOMAIN intents : intents'[i] = intents[i]
      /\ Len(intents) + 1 \in Nat
  BY <1>1, <1>2, <1>4, AppendRow, LenProperties
<1>6. /\ a \in Counting /\ a \in Placing /\ a \in ApprovedFor(auth[a].key)
      /\ Counting' \subseteq Counting \ {a} /\ Placing' \subseteq Placing \ {a}
      /\ \A k : ApprovedFor(k)' \subseteq ApprovedFor(k) \ {a}
  BY <1>1, <1>2 DEF Counting, Placing, ApprovedFor, Resting
<1>7. QED
  BY <1>1, <1>4, <1>5, <1>6

\* An emission turns an approval into an intent of the same day and key.
LEMMA EmitKeepsBudget ==
    ASSUME PipelineInv, PipelineInv', BudgetInv, NEW a \in Authorities, EmitIntent(a)
    PROVE  BudgetInv'
<1>1. PICK x \in Nat :
          /\ DOMAIN intents' = DOMAIN intents \cup {x} /\ x \notin DOMAIN intents
          /\ intents'[x].at = now /\ intents'[x].key = auth[a].key
          /\ \A i \in DOMAIN intents : intents'[i] = intents[i]
          /\ a \in Counting /\ a \in Placing /\ a \in ApprovedFor(auth[a].key)
          /\ Counting' \subseteq Counting \ {a} /\ Placing' \subseteq Placing \ {a}
          /\ \A k : ApprovedFor(k)' \subseteq ApprovedFor(k) \ {a}
          /\ phase' = "idle" /\ now' = now /\ misreads' = misreads
  BY EmissionSpends
<1>1a. /\ \A g : (Slack(g))' = Slack(g)
       /\ \A g \in Gate : Slack(g) \in Nat \ {0} /\ Cardinality(Authorities) <= Slack(g)
       /\ "counted" \in Gate /\ "placed" \in Gate /\ "approved" \in Gate
  BY <1>1, BudgetSets DEF Slack, Gate
<1>1b. Slack("counted")' = Slack("counted") /\ Slack("placed")' = Slack("placed")
       /\ Slack("approved")' = Slack("approved")
  BY <1>1 DEF Slack
<1>2. /\ now \in Nat /\ Cardinality(Authorities) \in Nat \ {0}
      /\ Slack("counted") \in Nat /\ Slack("placed") \in Nat /\ Slack("approved") \in Nat
      /\ Cardinality(Authorities) <= Slack("approved")
      /\ MaxDailyAttempts \in Nat /\ MaxActive \in Nat /\ KeyCooldown \in Nat
      /\ \A i \in DOMAIN intents : intents[i].at \in Nat /\ intents[i].at <= now
      /\ Counted = DOMAIN intents /\ Counted' = DOMAIN intents'
  BY <1>1a, BudgetSets, ConstantsAssumption
     DEF BudgetInv, TimesArePast, Counted, InfraRejected, LegacyAudit
<1>3. now - now = 0 /\ now \in now .. MaxNow /\ 0 <= KeyCooldown
  BY <1>2, ConstantsAssumption DEF PipelineInv, TypeOK
<1>4. /\ \A d : OfDay(d)' \subseteq OfDay(d) \cup {x}
      /\ \A d : d # Day(now) => OfDay(d)' \subseteq OfDay(d)
      /\ ActiveIntents' \subseteq ActiveIntents \cup {x}
  BY <1>1, <1>2 DEF OfDay, ActiveIntents
<1>5. \A t \in now .. MaxNow :
         Cardinality(OfDay(Day(t))) + Cardinality(Counting)
            < MaxDailyAttempts + Slack("counted")
  BY DEF BudgetInv, AttemptsInHand
<1>6. ASSUME NEW t \in now .. MaxNow
      PROVE  /\ Cardinality(OfDay(Day(t))') \in Nat /\ Cardinality(Counting') \in Nat
             /\ Cardinality(OfDay(Day(t))') + Cardinality(Counting')
                  < MaxDailyAttempts + Slack("counted")
  <2>1. OfDay(Day(t))' \subseteq OfDay(Day(t)) \cup {x}
    BY <1>1, <1>2 DEF OfDay, Day
  <2>2. /\ Cardinality(OfDay(Day(t))) \in Nat /\ Cardinality(Counting) \in Nat
        /\ Cardinality(OfDay(Day(t))') \in Nat /\ Cardinality(Counting') \in Nat
        /\ Cardinality(OfDay(Day(t))') + Cardinality(Counting')
             <= Cardinality(OfDay(Day(t))) + Cardinality(Counting)
    BY <1>1, <2>1, BudgetSets, SumOfPassing
  <2>3. QED
    BY <1>2, <1>5, <1>6, <2>2
<1>6a. AttemptsInHand'
  BY <1>1, <1>1b, <1>6 DEF AttemptsInHand, OfDay, Day
<1>7. ActiveInHand'
  <2>1. /\ Cardinality(ActiveIntents) \in Nat /\ Cardinality(Placing) \in Nat
        /\ Cardinality(ActiveIntents') \in Nat /\ Cardinality(Placing') \in Nat
        /\ Cardinality(ActiveIntents') + Cardinality(Placing')
             <= Cardinality(ActiveIntents) + Cardinality(Placing)
    BY <1>1, <1>4, BudgetSets, SumOfPassing
  <2>2. QED
    BY <1>1b, <1>2, <2>1 DEF BudgetInv, ActiveInHand
<1>8. AttemptBudget'
  <2>1. SUFFICES ASSUME NEW i \in DOMAIN intents'
                 PROVE  Cardinality(SameDay(i)') < MaxDailyAttempts + Slack("counted")
    BY <1>1b DEF AttemptBudget
  <2>2. CASE Day(intents'[i].at) = Day(now)
    <3>1. PICK t \in now .. MaxNow : t = now
      BY <1>3
    <3>2. SameDay(i)' = OfDay(Day(t))'
      BY <1>1, <2>2, <3>1 DEF SameDay, OfDay, Day
    <3>3. Cardinality(OfDay(Day(t))') < MaxDailyAttempts + Slack("counted")
      BY <1>2, <1>3, <1>6, <3>1
    <3>4. QED
      BY <3>2, <3>3
  <2>3. CASE Day(intents'[i].at) # Day(now)
    <3>1. i \in DOMAIN intents /\ SameDay(i)' \subseteq SameDay(i)
      BY <1>1, <2>3 DEF SameDay, Day
    <3>2. Cardinality(SameDay(i)) < MaxDailyAttempts + Slack("counted")
      BY <3>1 DEF BudgetInv, AttemptBudget
    <3>3. SameDay(i) = OfDay(Day(intents[i].at))
      BY DEF SameDay, OfDay
    <3>4. IsFiniteSet(SameDay(i)) /\ Cardinality(SameDay(i)) \in Nat
      BY <3>3, BudgetSets
    <3>5. Cardinality(SameDay(i)') \in Nat /\ Cardinality(SameDay(i)') <= Cardinality(SameDay(i))
      BY <3>1, <3>4, FS_Subset, FS_CardinalityType
    <3>6. QED
      BY <1>2, <3>2, <3>4, <3>5
  <2>4. QED
    BY <2>2, <2>3
<1>9. ASSUME NEW i \in DOMAIN intents', NEW k, k = intents'[i].key
      PROVE  /\ Cardinality(Within(i)') <= Slack("approved")
             /\ now - intents'[i].at <= KeyCooldown =>
                   Cardinality(Within(i)') + Cardinality(ApprovedFor(k)')
                      <= Slack("approved")
  <2> USE <1>9
  <2> DEFINE Near(j) == /\ j \in DOMAIN intents /\ intents[j].key = k
                        /\ now - intents[j].at <= KeyCooldown
                        /\ Within(i)' \subseteq Within(j) \cup {x}
  <2>1. Within(i)' \subseteq DOMAIN intents \cup {x}
    BY <1>1 DEF Within
  <2>2. CASE /\ k = auth[a].key
             /\ \E j : Near(j)
    <3>1. PICK j : Near(j)
      BY <2>2
    <3>2. Cardinality(Within(j)) + Cardinality(ApprovedFor(k)) <= Slack("approved")
      BY <3>1 DEF BudgetInv, KeysInHand
    <3>3. /\ IsFiniteSet(Within(j)) /\ IsFiniteSet(ApprovedFor(k))
          /\ a \in ApprovedFor(k) /\ ApprovedFor(k)' \subseteq ApprovedFor(k) \ {a}
      BY <1>1, <2>2, BudgetSets
    <3>4. /\ Cardinality(Within(j)) \in Nat /\ Cardinality(ApprovedFor(k)) \in Nat
          /\ Cardinality(Within(i)') \in Nat /\ Cardinality(ApprovedFor(k)') \in Nat
          /\ Cardinality(Within(i)') + Cardinality(ApprovedFor(k)')
               <= Cardinality(Within(j)) + Cardinality(ApprovedFor(k))
      BY <3>1, <3>3, SumOfPassing
    <3>5. QED
      BY <1>2, <3>2, <3>4
  <2>3. CASE i \in DOMAIN intents /\ x \notin Within(i)'
    <3>1. intents'[i] = intents[i] /\ Within(i)' \subseteq Within(i)
      BY <1>1, <2>3 DEF Within
    <3>2. /\ Cardinality(Within(i)) <= Slack("approved")
          /\ now - intents[i].at <= KeyCooldown =>
                Cardinality(Within(i)) + Cardinality(ApprovedFor(k)) <= Slack("approved")
      BY <2>3, <3>1 DEF BudgetInv, KeysInHand, KeysCoolDown
    <3>3. /\ IsFiniteSet(Within(i)) /\ IsFiniteSet(ApprovedFor(k))
          /\ ApprovedFor(k)' \subseteq ApprovedFor(k)
      BY <1>1, BudgetSets
    <3>4. /\ Cardinality(Within(i)) \in Nat /\ Cardinality(ApprovedFor(k)) \in Nat
          /\ Cardinality(Within(i)') \in Nat /\ Cardinality(ApprovedFor(k)') \in Nat
          /\ Cardinality(Within(i)') <= Cardinality(Within(i))
          /\ Cardinality(Within(i)') + Cardinality(ApprovedFor(k)')
               <= Cardinality(Within(i)) + Cardinality(ApprovedFor(k))
      BY <3>1, <3>3, SumNoMore, FS_Subset
    <3>5. QED
      BY <1>2, <3>1, <3>2, <3>4
  <2>4. CASE /\ k = auth[a].key
             /\ Within(i)' \subseteq {x}
    <3>a. ApprovedFor(k) \subseteq Authorities
      BY DEF ApprovedFor
    <3>1. /\ IsFiniteSet(ApprovedFor(k))
          /\ a \in ApprovedFor(k) /\ ApprovedFor(k)' \subseteq ApprovedFor(k) \ {a}
      BY <1>1, <2>4, BudgetSets
    <3>2. /\ Cardinality(ApprovedFor(k)) \in Nat
          /\ Cardinality(Within(i)') \in Nat /\ Cardinality(ApprovedFor(k)') \in Nat
          /\ Cardinality(Within(i)') + Cardinality(ApprovedFor(k)')
               <= Cardinality(ApprovedFor(k))
      <4>1. Cardinality({x}) = 1 /\ IsFiniteSet({x})
        BY FS_Singleton
      <4>2. Cardinality(Within(i)') \in Nat /\ Cardinality(Within(i)') <= 1
        BY <2>4, <4>1, FS_Subset, FS_CardinalityType
      <4>3. /\ Cardinality(ApprovedFor(k)) \in Nat
            /\ Cardinality(ApprovedFor(k) \ {a}) = Cardinality(ApprovedFor(k)) - 1
            /\ IsFiniteSet(ApprovedFor(k) \ {a})
        BY <3>1, FS_RemoveElement, FS_CardinalityType
      <4>4. /\ Cardinality(ApprovedFor(k) \ {a}) \in Nat
            /\ Cardinality(ApprovedFor(k)') \in Nat
            /\ Cardinality(ApprovedFor(k)') <= Cardinality(ApprovedFor(k) \ {a})
        BY <3>1, <4>3, FS_Subset, FS_CardinalityType
      <4>5. QED
        BY <4>2, <4>3, <4>4
    <3>3. Cardinality(ApprovedFor(k)) <= Cardinality(Authorities)
      BY <3>a, FS_Subset, ConstantsAssumption
    <3>4. QED
      BY <1>2, <3>2, <3>3
  <2>5. CASE i \in DOMAIN intents /\ x \in Within(i)'
    <3>1. /\ k = auth[a].key /\ now - intents[i].at <= KeyCooldown
          /\ intents'[i] = intents[i]
      BY <1>1, <2>5 DEF Within
    <3>2. Within(i)' \subseteq Within(i) \cup {x}
      BY <1>1, <2>5 DEF Within
    <3>3. QED
      BY <2>2, <2>5, <3>1, <3>2
  <2>6. CASE i = x
    <3>1. k = auth[a].key /\ intents'[i].at = now
      BY <1>1, <2>6
    <3>2. CASE Within(i)' \subseteq {x}
      BY <2>4, <3>1, <3>2
    <3>3. CASE ~(Within(i)' \subseteq {x})
      <4>1. PICK j \in Within(i)' : j # x
        BY <3>3
      <4>2. /\ j \in DOMAIN intents /\ intents[j].key = k /\ intents[j].at >= now
            /\ intents[j].at \in Nat /\ intents[j].at <= now
        BY <1>1, <1>2, <3>1, <4>1 DEF Within
      <4>3. intents[j].at = now
        BY <1>2, <4>2
      <4>4. Within(i)' \subseteq Within(j) \cup {x}
        BY <1>1, <1>3, <3>1, <4>2, <4>3 DEF Within
      <4>5. QED
        BY <1>3, <2>2, <3>1, <4>2, <4>3, <4>4
    <3>4. QED
      BY <3>2, <3>3
  <2>7. QED
    BY <1>1, <2>3, <2>5, <2>6
<1>10. TimesArePast'
  BY <1>1, <1>2, <1>3 DEF TimesArePast
<1>11. KeysCoolDown'
  BY <1>1b, <1>9 DEF KeysCoolDown
<1>12. KeysInHand'
  <2>1. SUFFICES ASSUME NEW i \in DOMAIN intents', now' - intents'[i].at <= KeyCooldown
                 PROVE  Cardinality(Within(i)') + Cardinality((ApprovedFor(intents[i].key))')
                           <= Slack("approved")
    BY <1>1b DEF KeysInHand
  <2>2. PICK k : k = intents'[i].key
    OBVIOUS
  <2>3. (ApprovedFor(intents[i].key))' = ApprovedFor(k)'
    BY <2>2 DEF ApprovedFor
  <2>4. QED
    BY <1>1, <1>9, <2>1, <2>2, <2>3
<1>13. QED
  BY <1>6a, <1>7, <1>8, <1>10, <1>11, <1>12 DEF BudgetInv

\* Every step keeps the budgets.
LEMMA StepKeepsBudget ==
    ASSUME PipelineInv, PipelineInv', BudgetInv, [Next]_vars
    PROVE  BudgetInv'
<1>1. now \in Nat /\ now <= now
  BY DEF PipelineInv, TypeOK
<1>1a. ASSUME misreads' = misreads PROVE \A g \in Gate : Slack(g) <= (Slack(g))'
  <2>1. \A g \in Gate : Slack(g) \in Nat
    BY BudgetSets
  <2>2. \A g \in Gate : (Slack(g))' = Slack(g)
    BY <1>1a DEF Slack
  <2>3. QED
    BY <2>1, <2>2
<1>2. ASSUME UNCHANGED <<now, intents, auth, misreads>>,
             phase' # "idle" => \A i \in DOMAIN intents : txIntents'[i].at = intents[i].at
      PROVE  BudgetInv'
  <2>1. Counting' = Counting /\ Placing' = Placing /\ \A k : ApprovedFor(k)' = ApprovedFor(k)
    BY <1>2 DEF Counting, Placing, ApprovedFor
  <2>2. QED
    BY <1>1, <1>1a, <1>2, <2>1, QuietKeepsBudget
<1>3. ASSUME UNCHANGED <<intents, phase, txIntents, misreads>>, now <= now',
             Counting' \subseteq Counting, Placing' \subseteq Placing,
             \A k : ApprovedFor(k)' \subseteq ApprovedFor(k)
      PROVE  BudgetInv'
  BY <1>1a, <1>3, QuietKeepsBudget DEF BudgetInv, TimesArePast
<1>4. CASE Tick
  <2>1. Counting' = Counting /\ Placing' = Placing /\ \A k : ApprovedFor(k)' = ApprovedFor(k)
    BY <1>4 DEF Tick, Counting, Placing, ApprovedFor
  <2>2. QED
    BY <1>1, <1>3, <1>4, <2>1 DEF Tick, tables, adapterVars
<1>5. ASSUME NEW a \in Authorities, AuthorityStep(a) PROVE BudgetInv'
  <2>1. auth \in [Authorities -> AuthorityState]
    BY DEF PipelineInv, TypeOK
  <2>2. ASSUME NEW k \in Keys, ScreenKey(a, k) PROVE BudgetInv'
    <3>1. /\ Counting' \subseteq Counting /\ Placing' \subseteq Placing
          /\ \A j : ApprovedFor(j)' \subseteq ApprovedFor(j)
      BY <2>1, <2>2 DEF ScreenKey, Counting, Placing, ApprovedFor
    <3>2. QED
      BY <1>1, <1>3, <2>2, <3>1 DEF ScreenKey, tables, adapterVars
  <2>3. CASE AuthorityQuit(a)
    <3>1. /\ Counting' \subseteq Counting /\ Placing' \subseteq Placing
          /\ \A j : ApprovedFor(j)' \subseteq ApprovedFor(j)
      BY <2>1, <2>3 DEF AuthorityQuit, Counting, Placing, ApprovedFor, Resting
    <3>2. QED
      BY <1>1, <1>3, <2>3, <3>1 DEF AuthorityQuit, tables, adapterVars
  <2>4. QED
    BY <1>5, <2>2, <2>3, GateKeepsBudget, EmitKeepsBudget DEF AuthorityStep
<1>6. CASE BeginCycle
  BY <1>2, <1>6 DEF BeginCycle, tables
<1>7. ASSUME NEW i \in todo, VisitIntent(i) PROVE BudgetInv'
  <2>1. PICK status, reason : Settle(i, status, reason)
    BY <1>7 DEF VisitIntent, RejectAtCap, RejectUnpriced, OpenPosition, QuarantineIntent,
                QuarantineAfterInsert
  <2>2. Visiting(i)
    BY <1>7 DEF VisitIntent, RejectAtCap, RejectUnpriced, OpenPosition, QuarantineIntent,
                QuarantineAfterInsert
  <2>3. /\ phase = "intents" /\ i \in DOMAIN txIntents /\ txIntents \in Seq(Intent)
        /\ DOMAIN txIntents = DOMAIN intents
    BY <2>2, VisitedIsPending DEF PipelineInv, TypeOK, CycleView
  <2>4. /\ UNCHANGED <<now, intents, auth, misreads, phase>>
        /\ txIntents' = [txIntents EXCEPT ![i] = Settled(@, status, reason)]
    BY <2>1 DEF Settle, tables
  <2>5. txIntents[i] \in Intent
    BY <2>3, ElementOfSeq, LenProperties
  <2>6. Settled(txIntents[i], status, reason).at = txIntents[i].at
    BY <2>5 DEF Settled, Intent
  <2>7. \A j \in DOMAIN intents : txIntents'[j].at = txIntents[j].at
    BY <2>3, <2>4, <2>6
  <2>8. QED
    BY <1>2, <2>3, <2>4, <2>7 DEF BudgetInv, TimesArePast
<1>8. CASE TurnToPositions
  BY <1>2, <1>8 DEF TurnToPositions, tables, BudgetInv, TimesArePast
<1>9. ASSUME NEW p \in todo, ManagePosition(p) PROVE BudgetInv'
  BY <1>2, <1>9 DEF ManagePosition, tables, BudgetInv, TimesArePast
<1>10. CASE CommitCycle
  <2>1. /\ intents' = txIntents /\ phase' = "idle" /\ UNCHANGED <<now, auth, misreads>> /\ phase # "idle"
        /\ DOMAIN txIntents = DOMAIN intents
        /\ \A i \in DOMAIN intents :
              /\ txIntents[i].key = intents[i].key
              /\ intents[i].status # "pending" => txIntents[i] = intents[i]
    BY <1>10 DEF CommitCycle, PipelineInv, CycleView
  <2>2. \A i \in DOMAIN intents : txIntents[i].at = intents[i].at
    BY <2>1 DEF BudgetInv, TimesArePast
  <2>3. Counting' = Counting /\ Placing' = Placing /\ \A k : ApprovedFor(k)' = ApprovedFor(k)
    BY <2>1 DEF Counting, Placing, ApprovedFor
  <2>4. \A i \in DOMAIN intents : intents'[i].status \in {"pending", "opened"}
                                     => intents[i].status \in {"pending", "opened"}
    BY <2>1
  <2>5. QED
    BY <1>1, <1>1a, <2>1, <2>2, <2>3, <2>4, QuietKeepsBudget
<1>11. CASE AbandonCycle
  BY <1>2, <1>11 DEF AbandonCycle, tables
<1>12. CASE UNCHANGED vars
  BY <1>2, <1>12 DEF vars, tables, adapterVars, BudgetInv, TimesArePast
<1>13. QED
  BY <1>4, <1>5, <1>6, <1>7, <1>8, <1>9, <1>10, <1>11, <1>12 DEF Next, AdapterStep

\* With what is in hand counted in, the budgets are inductive: they hold in every
\* reachable state, together with the invariant of the tables.
THEOREM BudgetsHold == Spec => []BudgetInv
<1>1. PipelineInv /\ PipelineInv' /\ BudgetInv /\ [Next]_vars => BudgetInv'
  BY StepKeepsBudget
<1>2. QED
  BY <1>1, InitBudget, InvariantHolds, PTL DEF Spec

\* However many authorities run, and however their reads and inserts interleave,
\* each of them beyond the first, and each failed read of the attempts, adds at most
\* one attempt to a day.
THEOREM AttemptBudgetHolds == Spec => []AttemptBudget
<1>1. BudgetInv => AttemptBudget
  BY DEF BudgetInv
<1>2. QED
  BY <1>1, BudgetsHold, PTL

\* ... and each of them, and each failed read of the live intents, at most one live
\* intent to the cap on live intents.
THEOREM ActiveBudgetHolds == Spec => []ActiveBudget
<1>1. PipelineInv /\ BudgetInv => ActiveBudget
  BY BudgetSets, ConstantsAssumption DEF BudgetInv, ActiveInHand, ActiveBudget, Gate
<1>2. QED
  BY <1>1, BudgetsHold, InvariantHolds, PTL

\* Within a cooldown a key is handed in no more often than there are authorities and
\* failed reads of the cooldown; one authority whose reads succeed keeps its intents
\* of a key apart by more than a cooldown.
THEOREM KeysCoolDownHolds == Spec => []KeysCoolDown
<1>1. BudgetInv => KeysCoolDown
  BY DEF BudgetInv
<1>2. QED
  BY <1>1, BudgetsHold, PTL

-----------------------------------------------------------------------------
(* Settled rows are final.                                                 *)

Final ==
    /\ \A i \in DOMAIN intents :
          /\ i \in DOMAIN intents'
          /\ intents[i].status # "pending" => intents'[i] = intents[i]
    /\ \A p \in DOMAIN positions :
          /\ p \in DOMAIN positions'
          /\ positions'[p].open => positions[p].open

\* Only two actions change a committed table.
LEMMA TablesChange ==
    ASSUME [Next]_vars
    PROVE  \/ intents' = intents /\ positions' = positions
           \/ \E a \in Authorities : EmitIntent(a)
           \/ CommitCycle
BY DEF Next, vars, tables, adapterVars, Tick, AuthorityStep, ScreenKey, PassGate, CountAttempts,
       CountActive, ApproveKey, AuthorityQuit, AdapterStep, BeginCycle, VisitIntent,
       RejectAtCap, RejectUnpriced, OpenPosition, QuarantineIntent, QuarantineAfterInsert,
       Settle, TurnToPositions, ManagePosition, AbandonCycle

\* What a commit does to the committed tables.
LEMMA CommitPublishes ==
    ASSUME PipelineInv, CommitCycle
    PROVE  /\ intents' = txIntents /\ positions' = txPositions
           /\ DOMAIN txIntents = DOMAIN intents
           /\ \A i \in DOMAIN intents :
                 /\ txIntents[i].key = intents[i].key
                 /\ intents[i].status # "pending" => txIntents[i] = intents[i]
           /\ Continues(txPositions, positions)
           /\ \A p \in DOMAIN txPositions \ DOMAIN positions :
                 txPositions[p].open /\ txPositions[p].intent \in Pending(intents)
BY DEF PipelineInv, CycleView, CommitCycle

LEMMA StepIsFinal == PipelineInv /\ [Next]_vars => Final
<1> SUFFICES ASSUME PipelineInv, [Next]_vars PROVE Final
  OBVIOUS
<1>1. CASE intents' = intents /\ positions' = positions
  BY <1>1 DEF Final
<1>2. ASSUME NEW a \in Authorities, EmitIntent(a) PROVE Final
  <2> DEFINE row == [key |-> auth[a].key, at |-> now, status |-> "pending",
                     reason |-> "none"]
  <2>1. intents' = Append(intents, row) /\ positions' = positions
    BY <1>2 DEF EmitIntent
  <2> HIDE DEF row
  <2>2. /\ DOMAIN intents \subseteq DOMAIN intents'
        /\ \A i \in DOMAIN intents : intents'[i] = intents[i]
    BY <2>1, AppendProperties, LenProperties DEF PipelineInv, TypeOK
  <2>3. QED
    BY <2>1, <2>2 DEF Final
<1>3. CASE CommitCycle
  BY <1>3, CommitPublishes DEF Final, Continues
<1>4. QED
  BY <1>1, <1>2, <1>3, TablesChange

\* A settled intent is never revived and a closed position never reopened.
THEOREM SettledRowsAreFinal == Spec => SettledIsFinal
<1>1. PipelineInv /\ [Next]_vars => [Final]_<<intents, positions>>
  BY StepIsFinal
<1>2. QED
  BY <1>1, InvariantHolds, PTL DEF Spec, SettledIsFinal, Final

-----------------------------------------------------------------------------
(* The pipeline implements the ledger when no statement of the adapter fails *)
(* after a position insert.                                                *)

AllAudited ==
    /\ \A p \in DOMAIN positions : positions[p].audited
    /\ \A p \in DOMAIN txPositions : txPositions[p].audited

LEMMA StepKeepsAudited ==
    ASSUME ~BindCanFail, PipelineInv, AllAudited, [Next]_vars
    PROVE  AllAudited'
<1>1. CASE UNCHANGED <<positions, txPositions>>
  BY <1>1 DEF AllAudited
<1>2. CASE BeginCycle
  BY <1>2 DEF BeginCycle, AllAudited, tables
<1>3. ASSUME NEW i \in todo, OpenPosition(i)
      PROVE  AllAudited'
  <2> DEFINE row == [intent |-> i, key |-> txIntents[i].key, day |-> Day(now),
                     open |-> TRUE, audited |-> TRUE]
  <2>1. txPositions' = Append(txPositions, row) /\ positions' = positions /\ row.audited
    BY <1>3 DEF OpenPosition, InsertPosition, Settle, tables
  <2> HIDE DEF row
  <2>2. /\ DOMAIN txPositions' = DOMAIN txPositions \cup {Len(txPositions) + 1}
        /\ txPositions'[Len(txPositions) + 1] = row
        /\ \A p \in DOMAIN txPositions : txPositions'[p] = txPositions[p]
    BY <2>1, AppendProperties, LenProperties DEF PipelineInv, TypeOK
  <2>3. QED
    BY <2>1, <2>2 DEF AllAudited
<1>4. ASSUME NEW p \in todo, ManagePosition(p)
      PROVE  AllAudited'
  <2>1. positions' = positions
    BY <1>4 DEF ManagePosition, tables
  <2>2. QED
    BY <1>4, <2>1, ManageStep DEF AllAudited, Continues
<1>5. CASE CommitCycle
  BY <1>5 DEF CommitCycle, AllAudited
<1>6. CASE AbandonCycle
  BY <1>6 DEF AbandonCycle, AllAudited, tables
<1>7. QED
  BY <1>1, <1>2, <1>3, <1>4, <1>5, <1>6
     DEF Next, vars, tables, adapterVars, Tick, AuthorityStep, ScreenKey, PassGate,
         CountAttempts, CountActive, ApproveKey,
         EmitIntent, AuthorityQuit, AdapterStep, VisitIntent, RejectAtCap, RejectUnpriced,
         QuarantineIntent, QuarantineAfterInsert, Settle, TurnToPositions

\* The refinement mapping of Ledger.
LedgerOf(I) == [i \in DOMAIN I |-> [key |-> I[i].key, status |-> I[i].status]]

BookOf(P) == [p \in DOMAIN P |-> [intent |-> P[p].intent, key |-> P[p].key,
                                  open |-> P[p].open]]

\* A row appended to the intent table is a row appended to the ledger.
LEMMA LedgerOfAppend ==
    ASSUME NEW I \in Seq(Intent), NEW row \in Intent
    PROVE  LedgerOf(Append(I, row))
             = Append(LedgerOf(I), [key |-> row.key, status |-> row.status])
<1> DEFINE n == Len(I)
           entry == [key |-> row.key, status |-> row.status]
           Entry == [key : Keys, status : IntentStatus]
<1>1. n \in Nat /\ DOMAIN I = 1 .. n
  BY LenProperties
<1>2. /\ entry \in Entry
      /\ \A i \in 1 .. n : [key |-> I[i].key, status |-> I[i].status] \in Entry
  <2>1. \A i \in 1 .. n : I[i] \in Intent
    BY ElementOfSeq
  <2>2. \A r \in Intent : [key |-> r.key, status |-> r.status] \in Entry
    BY DEF Intent
  <2>3. QED
    BY <2>1, <2>2
<1> HIDE DEF n, entry, Entry
<1>3. LedgerOf(I) \in [1 .. n -> Entry]
  BY <1>1, <1>2 DEF LedgerOf
<1>4. LedgerOf(I) \in Seq(Entry) /\ Len(LedgerOf(I)) = n
  BY <1>1, <1>3
<1>5. /\ Append(LedgerOf(I), entry) \in Seq(Entry)
      /\ Len(Append(LedgerOf(I), entry)) = n + 1
      /\ Append(LedgerOf(I), entry)[n + 1] = entry
      /\ \A i \in 1 .. n : Append(LedgerOf(I), entry)[i] = LedgerOf(I)[i]
  BY <1>2, <1>4, AppendProperties
<1>6. /\ DOMAIN LedgerOf(Append(I, row)) = 1 .. (n + 1)
      /\ LedgerOf(Append(I, row))[n + 1] = entry
      /\ \A i \in 1 .. n : LedgerOf(Append(I, row))[i] = LedgerOf(I)[i]
  <2>1. /\ DOMAIN Append(I, row) = 1 .. (n + 1)
        /\ Append(I, row)[n + 1] = row
        /\ \A i \in 1 .. n : Append(I, row)[i] = I[i]
    BY AppendProperties, LenProperties DEF n
  <2>2. QED
    BY <1>1, <2>1 DEF LedgerOf, entry
<1>7. DOMAIN Append(LedgerOf(I), entry) = 1 .. (n + 1)
  BY <1>5, LenProperties
<1>8. \A i \in 1 .. (n + 1) : i \in 1 .. n \/ i = n + 1
  BY <1>1
<1>9. \A i \in 1 .. (n + 1) : LedgerOf(Append(I, row))[i] = Append(LedgerOf(I), entry)[i]
  BY <1>5, <1>6, <1>8
<1>10. QED
  BY <1>5, <1>6, <1>7, <1>9 DEF LedgerOf

\* The book within its caps is the position table within its caps.
LEMMA BookWithinCaps ==
    ASSUME NEW P, WithinOpenCaps(P)
    PROVE  Ledger!WithinCaps(BookOf(P))
<1>1. DOMAIN BookOf(P) = DOMAIN P
  BY DEF BookOf
<1>2. \A p \in DOMAIN P : BookOf(P)[p].open = P[p].open /\ BookOf(P)[p].key = P[p].key
  BY DEF BookOf
<1>3. Ledger!OpenInBook(BookOf(P)) = OpenIds(P)
  BY <1>1, <1>2 DEF Ledger!OpenInBook, OpenIds
<1>4. \A s : {p \in Ledger!OpenInBook(BookOf(P)) : SymbolOf[BookOf(P)[p].key] = s}
                = OpenOfSymbol(P, s)
  BY <1>2, <1>3 DEF OpenIds, OpenOfSymbol
<1>5. \A k : {p \in Ledger!OpenInBook(BookOf(P)) : BookOf(P)[p].key = k} = OpenOfKey(P, k)
  BY <1>2, <1>3 DEF OpenIds, OpenOfKey
<1>6. Cardinality(Ledger!OpenInBook(BookOf(P))) <= MaxOpenGlobal
  BY <1>3 DEF WithinOpenCaps
<1>7. ASSUME NEW s \in Symbols
      PROVE  Cardinality({p \in Ledger!OpenInBook(BookOf(P)) : SymbolOf[BookOf(P)[p].key] = s})
               <= MaxOpenPerSymbol
  BY <1>4 DEF WithinOpenCaps
<1>8. ASSUME NEW k \in Keys
      PROVE  Cardinality({p \in Ledger!OpenInBook(BookOf(P)) : BookOf(P)[p].key = k})
               <= MaxOpenPerKey
  BY <1>5 DEF WithinOpenCaps
<1>9. \A S : Ledger!Cardinality(S) = Cardinality(S)
  BY DEF Ledger!Cardinality, Cardinality
<1>10. QED
  BY <1>6, <1>7, <1>8, <1>9 DEF Ledger!WithinCaps

LEMMA InitImplementsLedger == Init => Ledger!LedgerInit
BY DEF Init, Ledger!LedgerInit

\* The ledger step of an intent handed in.
LEMMA EmitImplementsHandIn ==
    ASSUME PipelineInv, NEW a \in Authorities, EmitIntent(a)
    PROVE  Ledger!HandIn
<1> DEFINE row == [key |-> auth[a].key, at |-> now, status |-> "pending", reason |-> "none"]
<1>1. intents' = Append(intents, row) /\ positions' = positions
  BY DEF EmitIntent
<1>2. auth[a].key \in Keys
  BY DEF PipelineInv, TypeOK, EmitIntent, AuthorityState, Resting
<1>3. row \in Intent /\ row.key = auth[a].key /\ row.status = "pending"
  BY <1>2 DEF Intent, IntentStatus, RejectReason, PipelineInv, TypeOK
<1> HIDE DEF row
<1>4. LedgerOf(intents') = Append(LedgerOf(intents), [key |-> auth[a].key, status |-> "pending"])
  BY <1>1, <1>3, LedgerOfAppend DEF PipelineInv, TypeOK
<1>5. QED
  BY <1>1, <1>2, <1>4 DEF Ledger!HandIn, LedgerOf

\* The ledger step of a commit: the whole cycle at once.
LEMMA CommitImplementsRunCycle ==
    ASSUME ~BindCanFail, PipelineInv, AllAudited, CommitCycle
    PROVE  Ledger!RunCycle
<1> DEFINE L == LedgerOf(intents)
           M == LedgerOf(intents')
           B == BookOf(positions)
           C == BookOf(positions')
           Opening == {i \in DOMAIN L : L[i].status = "pending" /\ M[i].status = "opened"}
           Added == DOMAIN C \ DOMAIN B
<1>1. /\ DOMAIN intents' = DOMAIN intents
      /\ \A i \in DOMAIN intents :
            /\ intents'[i].key = intents[i].key
            /\ intents[i].status # "pending" => intents'[i] = intents[i]
      /\ Continues(positions', positions)
      /\ \A p \in DOMAIN positions' \ DOMAIN positions :
            positions'[p].open /\ positions'[p].intent \in Pending(intents)
  BY CommitPublishes
<1>2. /\ \A p \in DOMAIN positions' : positions'[p].audited
      /\ BoundOnce(intents, positions)
      /\ BoundOnce(intents', positions')
      /\ WithinOpenCaps(positions')
  BY CommitPublishes DEF PipelineInv, AllAudited
<1>3. /\ DOMAIN L = DOMAIN intents /\ DOMAIN M = DOMAIN intents'
      /\ DOMAIN B = DOMAIN positions /\ DOMAIN C = DOMAIN positions'
      /\ \A i \in DOMAIN intents : L[i] = [key |-> intents[i].key, status |-> intents[i].status]
      /\ \A i \in DOMAIN intents' :
            M[i] = [key |-> intents'[i].key, status |-> intents'[i].status]
      /\ \A p \in DOMAIN positions :
            B[p] = [intent |-> positions[p].intent, key |-> positions[p].key,
                    open |-> positions[p].open]
      /\ \A p \in DOMAIN positions' :
            C[p] = [intent |-> positions'[p].intent, key |-> positions'[p].key,
                    open |-> positions'[p].open]
  BY DEF LedgerOf, BookOf
<1> HIDE DEF L, M, B, C
<1>4. Added = DOMAIN positions' \ DOMAIN positions
  BY <1>3
<1>5. Opening = {i \in Pending(intents) : intents'[i].status = "opened"}
  BY <1>1, <1>3 DEF Pending
<1> HIDE DEF Added, Opening
<1>6. \A i \in DOMAIN L :
        M[i].key = L[i].key /\ (L[i].status # "pending" => M[i] = L[i])
  BY <1>1, <1>3
<1>7. /\ DOMAIN B \subseteq DOMAIN C
      /\ \A p \in DOMAIN B : C[p] \in {B[p], [B[p] EXCEPT !.open = FALSE]}
  <2>1. DOMAIN B \subseteq DOMAIN C
    BY <1>1, <1>3 DEF Continues
  <2>2. ASSUME NEW p \in DOMAIN B
        PROVE  C[p] \in {B[p], [B[p] EXCEPT !.open = FALSE]}
    <3>1. /\ positions'[p].intent = positions[p].intent
          /\ positions'[p].key = positions[p].key
          /\ positions'[p].open => positions[p].open
          /\ p \in DOMAIN positions /\ p \in DOMAIN positions'
      BY <1>1, <1>3 DEF Continues
    <3>2. positions[p].open \in BOOLEAN /\ positions'[p].open \in BOOLEAN
      <4>1. positions \in Seq(Position) /\ txPositions \in Seq(Position)
            /\ positions' = txPositions
        BY CommitPublishes DEF PipelineInv, TypeOK
      <4>2. positions[p] \in Position /\ positions'[p] \in Position
        BY <3>1, <4>1, ElementOfSeq, LenProperties
      <4>3. QED
        BY <4>2 DEF Position
    <3>3. CASE positions'[p].open = positions[p].open
      BY <1>3, <3>1, <3>3
    <3>4. CASE positions'[p].open = FALSE
      BY <1>3, <3>1, <3>4
    <3>5. QED
      BY <3>1, <3>2, <3>3, <3>4
  <2>3. QED
    BY <2>1, <2>2
<1>8. \A p \in Added : /\ C[p].intent \in Opening
                       /\ C[p].key = L[C[p].intent].key
                       /\ C[p].open
  BY <1>1, <1>2, <1>3, <1>4, <1>5 DEF BoundOnce, Pending
<1>9. \A i \in Opening : \E p \in Added : C[p].intent = i
  <2>1. SUFFICES ASSUME NEW i \in Opening PROVE \E p \in Added : C[p].intent = i
    OBVIOUS
  <2>2. PICK p \in DOMAIN positions' : positions'[p].intent = i
    BY <1>1, <1>2, <1>5 DEF BoundOnce, Pending
  <2>3. p \notin DOMAIN positions
    BY <1>1, <1>2, <1>5, <2>2 DEF BoundOnce, Pending, Continues
  <2>4. QED
    BY <1>3, <1>4, <2>2, <2>3
<1>10. \A p, q \in Added : C[p].intent = C[q].intent => p = q
  BY <1>2, <1>3, <1>4 DEF BoundOnce
<1>11. Ledger!WithinCaps(C)
  BY <1>2, BookWithinCaps DEF C
<1>12. QED
  BY <1>1, <1>3, <1>6, <1>7, <1>8, <1>9, <1>10, <1>11
     DEF Ledger!RunCycle, Ledger!Opening, Ledger!Added, L, M, B, C, Opening, Added,
         LedgerOf, BookOf

LEMMA StepImplementsLedger ==
    ASSUME ~BindCanFail, PipelineInv, AllAudited, [Next]_vars
    PROVE  [Ledger!LedgerNext]_<<LedgerOf(intents), BookOf(positions)>>
<1>1. CASE intents' = intents /\ positions' = positions
  BY <1>1
<1>2. ASSUME NEW a \in Authorities, EmitIntent(a) PROVE Ledger!LedgerNext
  BY <1>2, EmitImplementsHandIn DEF Ledger!LedgerNext
<1>3. CASE CommitCycle
  BY <1>3, CommitImplementsRunCycle DEF Ledger!LedgerNext
<1>4. QED
  BY <1>1, <1>2, <1>3, TablesChange

\* When no statement of the adapter fails after a position insert, everything
\* the readers of the database can see is a behaviour of CanaryLedger.
THEOREM PipelineImplementsLedger ==
    ASSUME ~BindCanFail
    PROVE  Spec => ImplementsLedger
<1>1. Init => AllAudited
  BY DEF Init, AllAudited
<1>2. PipelineInv /\ AllAudited /\ [Next]_vars => AllAudited'
  BY StepKeepsAudited
<1>3. PipelineInv /\ AllAudited /\ [Next]_vars
        => [Ledger!LedgerNext]_<<LedgerOf(intents), BookOf(positions)>>
  BY StepImplementsLedger
<1>4. QED
  BY <1>1, <1>2, <1>3, InvariantHolds, InitImplementsLedger, PTL
     DEF Spec, ImplementsLedger, Ledger!LedgerSpec, LedgerOf, BookOf
=============================================================================
