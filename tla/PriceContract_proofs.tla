------------------------ MODULE PriceContract_proofs ------------------------
(***************************************************************************)
(* Proofs about PriceContract: how old the prices are that the authority   *)
(* and the adapter trade on, for any number of daemons, and how far an     *)
(* accepted price jumps, for one.                                          *)
(***************************************************************************)
EXTENDS PriceContract, TLAPS

-----------------------------------------------------------------------------
(* Types.                                                                  *)

Fetched == [step : {"fetched"}, candidate : Candidate, fresh : BOOLEAN]
Holding == [step : Publishing, result : Result]

\* The step of a daemon says what it holds.
LEMMA StepTells ==
    ASSUME TypeOK, NEW w \in Writers
    PROVE  /\ writer[w].step = "fetched" => writer[w] \in Fetched
           /\ writer[w].step \in Publishing => writer[w] \in Holding
           /\ writer[w].step \notin Publishing \cup {"fetched"} => writer[w] = Resting
<1>1. \/ writer[w] = Resting
      \/ writer[w] \in Fetched
      \/ writer[w] \in Holding
  <2>1. writer[w] \in WriterState
    BY DEF TypeOK
  <2>2. QED
    BY <2>1 DEF WriterState, Fetched, Holding, Publishing
<1>2. Resting.step = "idle"
  BY DEF Resting
<1>3. writer[w] \in Fetched => writer[w].step = "fetched"
  BY DEF Fetched
<1>4. writer[w] \in Holding => writer[w].step \in Publishing
  BY DEF Holding
<1>5. QED
  BY <1>1, <1>2, <1>3, <1>4 DEF Publishing

\* Each kind of value that a daemon may hold.
LEMMA HoldingTyped == Resting \in WriterState /\ Fetched \subseteq WriterState
                        /\ Holding \subseteq WriterState
BY DEF WriterState, Fetched, Holding, Publishing

\* A step of one daemon gives it another state and leaves the others alone.
LEMMA WriterTyped ==
    ASSUME TypeOK, NEW w \in Writers, NEW s \in WriterState,
           writer' = [writer EXCEPT ![w] = s]
    PROVE  /\ writer' \in [Writers -> WriterState]
           /\ writer'[w] = s
           /\ \A v \in Writers \ {w} : writer'[v] = writer[v]
BY DEF TypeOK

\* A daemon that goes from one statement of the publication to the next keeps
\* its result.
LEMMA AdvanceTyped ==
    ASSUME TypeOK, NEW w \in Writers, writer[w].step \in Publishing,
           NEW t \in Publishing, Advance(w, t)
    PROVE  /\ writer' \in [Writers -> WriterState]
           /\ writer'[w].step = t /\ writer'[w].result = writer[w].result
           /\ \A v \in Writers \ {w} : writer'[v] = writer[v]
<1>1. writer[w] \in Holding
  BY StepTells
<1>2. [writer[w] EXCEPT !.step = t] \in Holding
  BY <1>1 DEF Holding
<1>3. writer' = [writer EXCEPT ![w] = [writer[w] EXCEPT !.step = t]]
  BY DEF Advance
<1>4. QED
  BY <1>1, <1>2, <1>3, HoldingTyped, WriterTyped DEF Holding

\* A daemon that is done, failed or died rests.
LEMMA RestTyped ==
    ASSUME TypeOK, NEW w \in Writers, Rest(w)
    PROVE  /\ writer' \in [Writers -> WriterState]
           /\ writer'[w] = Resting
           /\ \A v \in Writers \ {w} : writer'[v] = writer[v]
BY HoldingTyped, WriterTyped DEF Rest

-----------------------------------------------------------------------------
(* Recency.  A price was fresh at its source when it was accepted: while a  *)
(* daemon holds a candidate the clock stands, and from then on the result   *)
(* carries the moment of its check.                                         *)

\* Initially nothing is held or published.
LEMMA InitRecency == Init => RecencyInv
<1> SUFFICES ASSUME Init PROVE RecencyInv
  OBVIOUS
<1>1. /\ writer \in [Writers -> WriterState]
      /\ \A w \in Writers : writer[w].step = "idle"
  BY HoldingTyped DEF Init, Resting
<1>2. TypeOK
  BY <1>1, ContractAssumption DEF Init, TypeOK
<1>3. \A w \in Writers : HeldInv(w)
  BY <1>1 DEF HeldInv, Publishing
<1>4. QED
  BY <1>2, <1>3 DEF RecencyInv, Init

\* While the clock stands, what nobody touched stays fresh.
LEMMA OthersStay ==
    ASSUME RecencyInv, now' = now, NEW w \in Writers,
           \A v \in Writers \ {w} : writer'[v] = writer[v],
           HeldInv(w)'
    PROVE  \A v \in Writers : HeldInv(v)'
BY DEF RecencyInv, HeldInv, FreshAtSource, FreshResult

\* A fetched candidate is compared with the clock of its fetch.
LEMMA FetchKeepsRecency ==
    ASSUME RecencyInv, NEW w \in Writers, NEW t \in 0 .. now, Fetch(w, t)
    PROVE  RecencyInv'
<1> DEFINE s == [step |-> "fetched", candidate |-> [price |-> market, source_ts |-> t],
                 fresh |-> FreshAtSource(t)]
<1>1. writer' = [writer EXCEPT ![w] = s] /\ UNCHANGED <<now, market, status, latest, accepted>>
  BY DEF Fetch
<1>2. s \in Fetched
  BY ContractAssumption DEF Fetched, Candidate, FreshAtSource, RecencyInv, TypeOK
<1>3. /\ s.step = "fetched" /\ s.fresh = FreshAtSource(t) /\ s.candidate.source_ts = t
  OBVIOUS
<1> HIDE DEF s
<1>4. /\ writer' \in [Writers -> WriterState] /\ writer'[w] = s
      /\ \A v \in Writers \ {w} : writer'[v] = writer[v]
  BY <1>1, <1>2, HoldingTyped, WriterTyped DEF RecencyInv
<1>5. HeldInv(w)'
  BY <1>1, <1>3, <1>4 DEF HeldInv, FreshAtSource, Publishing
<1>6. \A v \in Writers : HeldInv(v)'
  BY <1>1, <1>4, <1>5, OthersStay
<1>7. QED
  BY <1>1, <1>4, <1>6 DEF RecencyInv, TypeOK, FreshResult

\* A source without a usable answer makes a result that is not accepted.
LEMMA UnusableKeepsRecency ==
    ASSUME RecencyInv, NEW w \in Writers, FetchUnusable(w)
    PROVE  RecencyInv'
<1> DEFINE r == [ok |-> FALSE, price |-> market, source_ts |-> now, ts |-> now]
           s == [step |-> "checked", result |-> r]
<1>1. writer' = [writer EXCEPT ![w] = s] /\ UNCHANGED <<now, market, status, latest, accepted>>
  BY DEF FetchUnusable
<1>2. r \in Result /\ FreshResult(r)
  BY ContractAssumption DEF Result, FreshResult, RecencyInv, TypeOK
<1>3. s \in Holding /\ s.step = "checked" /\ s.result = r
  BY <1>2 DEF Holding, Publishing
<1> HIDE DEF s, r
<1>4. /\ writer' \in [Writers -> WriterState] /\ writer'[w] = s
      /\ \A v \in Writers \ {w} : writer'[v] = writer[v]
  BY <1>1, <1>3, HoldingTyped, WriterTyped DEF RecencyInv
<1>5. HeldInv(w)'
  BY <1>1, <1>2, <1>3, <1>4 DEF HeldInv, FreshResult
<1>6. \A v \in Writers : HeldInv(v)'
  BY <1>1, <1>4, <1>5, OthersStay
<1>7. QED
  BY <1>1, <1>4, <1>6 DEF RecencyInv, TypeOK, FreshResult

\* The check trusts the age that was read with the candidate: the clock has not
\* moved since.
LEMMA ValidateKeepsRecency ==
    ASSUME RecencyInv, NEW w \in Writers, Validate(w)
    PROVE  RecencyInv'
<1> DEFINE c == writer[w].candidate
<1>1. PICK ok : /\ ok = (writer[w].fresh /\ \A p \in Baseline : Distance(c.price, p) <= MaxJump)
                /\ writer' = [writer EXCEPT ![w] = [step |-> "checked",
                      result |-> [ok |-> ok, price |-> c.price,
                                  source_ts |-> c.source_ts, ts |-> now]]]
                /\ UNCHANGED <<now, market, status, latest, accepted>>
  BY DEF Validate
<1> DEFINE r == [ok |-> ok, price |-> c.price, source_ts |-> c.source_ts, ts |-> now]
           s == [step |-> "checked", result |-> r]
<1>2. writer[w] \in Fetched /\ writer[w].step = "fetched"
  BY StepTells DEF Validate, RecencyInv
<1>3. ok \in BOOLEAN /\ (ok => FreshAtSource(c.source_ts))
  BY <1>1, <1>2 DEF RecencyInv, HeldInv
<1>4. c \in Candidate /\ now \in Nat
  BY <1>2, ContractAssumption DEF Fetched, RecencyInv, TypeOK
<1>5. r \in Result
  BY <1>3, <1>4 DEF Result, Candidate
<1>6. FreshResult(r)
  BY <1>3, <1>4 DEF FreshResult, FreshAtSource, Candidate
<1>7. s \in Holding /\ s.step = "checked" /\ s.result = r
  BY <1>5 DEF Holding, Publishing
<1>8. writer' = [writer EXCEPT ![w] = s] /\ UNCHANGED <<now, market, status, latest, accepted>>
  BY <1>1
<1> HIDE DEF s, r
<1>9. /\ writer' \in [Writers -> WriterState] /\ writer'[w] = s
      /\ \A v \in Writers \ {w} : writer'[v] = writer[v]
  BY <1>8, <1>7, HoldingTyped, WriterTyped DEF RecencyInv
<1>10. HeldInv(w)'
  BY <1>6, <1>7, <1>8, <1>9 DEF HeldInv, FreshResult
<1>11. \A v \in Writers : HeldInv(v)'
  BY <1>8, <1>9, <1>10, OthersStay
<1>12. QED
  BY <1>8, <1>9, <1>11 DEF RecencyInv, TypeOK, FreshResult

\* What a daemon that publishes holds.
LEMMA HeldResult ==
    ASSUME RecencyInv, NEW w \in Writers, writer[w].step \in Publishing
    PROVE  /\ writer[w].result \in Result /\ FreshResult(writer[w].result)
           /\ writer[w].step \in {"accepted", "latest deleted"} => writer[w].result.ok
BY StepTells DEF RecencyInv, HeldInv, Holding

\* Only the result in hand survives the delete of the status row.
LEMMA DeleteStatusKeepsRecency ==
    ASSUME RecencyInv, NEW w \in Writers, DeleteStatus(w)
    PROVE  RecencyInv'
<1>1. /\ writer[w].step \in Publishing /\ Advance(w, "status deleted")
      /\ status' = NoRow /\ UNCHANGED <<now, market, latest, accepted>>
  BY DEF DeleteStatus, Publishing
<1>2. /\ writer' \in [Writers -> WriterState]
      /\ writer'[w].step = "status deleted" /\ writer'[w].result = writer[w].result
      /\ \A v \in Writers \ {w} : writer'[v] = writer[v]
  BY <1>1, AdvanceTyped DEF RecencyInv, Publishing
<1>3. HeldInv(w)'
  BY <1>1, <1>2, HeldResult DEF HeldInv, FreshResult
<1>4. \A v \in Writers : HeldInv(v)'
  BY <1>1, <1>2, <1>3, OthersStay
<1>5. QED
  BY <1>1, <1>2, <1>4 DEF RecencyInv, TypeOK, FreshResult

\* The status row that is inserted is the result in hand.
LEMMA InsertStatusKeepsRecency ==
    ASSUME RecencyInv, NEW w \in Writers, InsertStatus(w)
    PROVE  RecencyInv'
<1> DEFINE r == writer[w].result
<1>1. /\ writer[w].step \in Publishing
      /\ status' = r /\ UNCHANGED <<now, market, latest>>
  BY DEF InsertStatus, Publishing
<1>2. r \in Result /\ FreshResult(r)
  BY <1>1, HeldResult
<1>3. accepted' \in [price : Levels, gap : BOOLEAN]
  <2>1. r.price \in Levels /\ accepted \in [price : Levels, gap : BOOLEAN]
    BY <1>2 DEF Result, RecencyInv, TypeOK
  <2>2. CASE r.ok
    <3>1. accepted' = [price |-> r.price, gap |-> FALSE]
      BY <2>2 DEF InsertStatus
    <3> HIDE DEF r
    <3>2. QED
      BY <2>1, <3>1
  <2>3. CASE ~r.ok
    <3>1. accepted' = [accepted EXCEPT !.gap = TRUE]
      BY <2>3 DEF InsertStatus
    <3>2. QED
      BY <2>1, <3>1
  <2>4. QED
    BY <2>2, <2>3
<1>4. /\ writer' \in [Writers -> WriterState] /\ HeldInv(w)'
      /\ \A v \in Writers \ {w} : writer'[v] = writer[v]
  <2>1. CASE r.ok
    <3>1. Advance(w, "accepted")
      BY <2>1 DEF InsertStatus
    <3>2. /\ writer' \in [Writers -> WriterState]
          /\ writer'[w].step = "accepted" /\ writer'[w].result = r
          /\ \A v \in Writers \ {w} : writer'[v] = writer[v]
      BY <1>1, <3>1, AdvanceTyped DEF RecencyInv, Publishing
    <3>3. QED
      BY <1>1, <1>2, <2>1, <3>2 DEF HeldInv, FreshResult
  <2>2. CASE ~r.ok
    <3>1. Rest(w)
      BY <2>2 DEF InsertStatus
    <3>2. /\ writer' \in [Writers -> WriterState] /\ writer'[w] = Resting
          /\ \A v \in Writers \ {w} : writer'[v] = writer[v]
      BY <3>1, RestTyped DEF RecencyInv
    <3>3. HeldInv(w)'
      BY <3>2 DEF HeldInv, Resting, Publishing
    <3>4. QED
      BY <3>2, <3>3
  <2>3. QED
    BY <2>1, <2>2
<1>5. \A v \in Writers : HeldInv(v)'
  BY <1>1, <1>4, OthersStay
<1>6. QED
  BY <1>1, <1>2, <1>3, <1>4, <1>5 DEF RecencyInv, TypeOK, FreshResult

\* Only an accepted result goes on to the delete of the latest row.
LEMMA DeleteLatestKeepsRecency ==
    ASSUME RecencyInv, NEW w \in Writers, DeleteLatest(w)
    PROVE  RecencyInv'
<1>1. /\ writer[w].step = "accepted" /\ writer[w].step \in Publishing
      /\ Advance(w, "latest deleted")
      /\ latest' = NoRow /\ UNCHANGED <<now, market, status, accepted>>
  BY DEF DeleteLatest, Publishing
<1>2. /\ writer' \in [Writers -> WriterState]
      /\ writer'[w].step = "latest deleted" /\ writer'[w].result = writer[w].result
      /\ \A v \in Writers \ {w} : writer'[v] = writer[v]
  BY <1>1, AdvanceTyped DEF RecencyInv, Publishing
<1>3. HeldInv(w)'
  BY <1>1, <1>2, HeldResult DEF HeldInv, FreshResult
<1>4. \A v \in Writers : HeldInv(v)'
  BY <1>1, <1>2, <1>3, OthersStay
<1>5. QED
  BY <1>1, <1>2, <1>4 DEF RecencyInv, TypeOK, FreshResult

\* The latest row that is inserted is an accepted result.
LEMMA InsertLatestKeepsRecency ==
    ASSUME RecencyInv, NEW w \in Writers, InsertLatest(w)
    PROVE  RecencyInv'
<1>1. /\ writer[w].step = "latest deleted" /\ writer[w].step \in Publishing /\ Rest(w)
      /\ latest' = writer[w].result /\ UNCHANGED <<now, market, status, accepted>>
  BY DEF InsertLatest, Publishing
<1>2. latest' \in Result /\ latest'.ok /\ FreshResult(latest')
  BY <1>1, HeldResult
<1>3. /\ writer' \in [Writers -> WriterState] /\ writer'[w] = Resting
      /\ \A v \in Writers \ {w} : writer'[v] = writer[v]
  BY <1>1, RestTyped DEF RecencyInv
<1>4. HeldInv(w)'
  BY <1>3 DEF HeldInv, Resting, Publishing
<1>5. \A v \in Writers : HeldInv(v)'
  BY <1>1, <1>3, <1>4, OthersStay
<1>6. QED
  BY <1>1, <1>2, <1>3, <1>5 DEF RecencyInv, TypeOK, FreshResult

\* A collision and a crash leave both tables as they are.
LEMMA RestKeepsRecency ==
    ASSUME RecencyInv, NEW w \in Writers, Rest(w),
           UNCHANGED <<now, market, status, latest>>,
           accepted' \in [price : Levels, gap : BOOLEAN]
    PROVE  RecencyInv'
<1>1. /\ writer' \in [Writers -> WriterState] /\ writer'[w] = Resting
      /\ \A v \in Writers \ {w} : writer'[v] = writer[v]
  BY RestTyped DEF RecencyInv
<1>2. HeldInv(w)'
  BY <1>1 DEF HeldInv, Resting, Publishing
<1>3. \A v \in Writers : HeldInv(v)'
  BY <1>1, <1>2, OthersStay
<1>4. QED
  BY <1>1, <1>3 DEF RecencyInv, TypeOK, FreshResult

\* Results do not change while time passes, and a candidate stops the clock.
LEMMA TickKeepsRecency ==
    ASSUME RecencyInv, Tick
    PROVE  RecencyInv'
<1>1. /\ now \in Nat /\ now' = now + 1 /\ now' \in 0 .. MaxNow
      /\ \A w \in Writers : writer[w].step # "fetched"
      /\ UNCHANGED <<market, status, latest, writer, accepted>>
  BY ContractAssumption DEF Tick, RecencyInv, TypeOK
<1>2. \A r \in Result : FreshResult(r) => FreshResult(r)'
  BY <1>1 DEF FreshResult, Result
<1>3. ASSUME NEW w \in Writers PROVE HeldInv(w)'
  BY <1>1, <1>2, HeldResult DEF RecencyInv, HeldInv
<1>4. QED
  BY <1>1, <1>2, <1>3 DEF RecencyInv, TypeOK, FreshResult

\* Every step keeps prices recent, those of the clock and of the market included.
LEMMA StepKeepsRecency == RecencyInv /\ [Next]_vars => RecencyInv'
<1> SUFFICES ASSUME RecencyInv, [Next]_vars PROVE RecencyInv'
  OBVIOUS
<1>1. CASE UNCHANGED vars
  BY <1>1 DEF vars, RecencyInv, TypeOK, HeldInv, FreshAtSource, FreshResult
<1>2. CASE MarketMoves
  BY <1>2 DEF MarketMoves, RecencyInv, TypeOK, HeldInv, FreshAtSource, FreshResult
<1>3. CASE Tick
  BY <1>3, TickKeepsRecency
<1>4. ASSUME NEW w \in Writers, GoodFetch(w) \/ StaleFetch(w) PROVE RecencyInv'
  BY <1>4, FetchKeepsRecency DEF GoodFetch, StaleFetch
<1>5. ASSUME NEW w \in Writers, FetchUnusable(w) PROVE RecencyInv'
  BY <1>5, UnusableKeepsRecency
<1>6. ASSUME NEW w \in Writers, Publish(w) PROVE RecencyInv'
  <2>1. CASE Validate(w)
    BY <2>1, ValidateKeepsRecency
  <2>2. CASE DeleteStatus(w)
    BY <2>2, DeleteStatusKeepsRecency
  <2>3. CASE InsertStatus(w)
    BY <2>3, InsertStatusKeepsRecency
  <2>4. CASE DeleteLatest(w)
    BY <2>4, DeleteLatestKeepsRecency
  <2>5. CASE InsertLatest(w)
    BY <2>5, InsertLatestKeepsRecency
  <2>6. CASE InsertCollides(w)
    BY <2>6, RestKeepsRecency DEF InsertCollides, RecencyInv, TypeOK
  <2>7. QED
    BY <1>6, <2>1, <2>2, <2>3, <2>4, <2>5, <2>6 DEF Publish
<1>7. ASSUME NEW w \in Writers, Crash(w) PROVE RecencyInv'
  BY <1>7, RestKeepsRecency DEF Crash, RecencyInv, TypeOK
<1>8. QED
  BY <1>1, <1>2, <1>3, <1>4, <1>5, <1>6, <1>7 DEF Next

\* The inductive invariant about recency.
THEOREM RecencyHolds == Spec => []RecencyInv
BY InitRecency, StepKeepsRecency, PTL DEF Spec

\* Rows and memory are well-typed, and LATEST_TABLE never has a refused result,
\* for any number of daemons that overwrite each other.
THEOREM TypesHold == Spec => []TypeOK
<1>1. RecencyInv => TypeOK
  BY DEF RecencyInv
<1>2. QED
  BY <1>1, RecencyHolds, PTL

\* What the authority or the adapter may trade on was true at the venue no longer
\* ago than the two age limits together, for any number of daemons, wherever they
\* collide or crash.
THEOREM PricesAreRecent == Spec => []TradableIsRecent
<1>1. RecencyInv => TradableIsRecent
  <2> SUFFICES ASSUME RecencyInv PROVE TradableIsRecent
    OBVIOUS
  <2>1. now \in Nat
    BY ContractAssumption DEF RecencyInv, TypeOK
  <2>2. ASSUME SnapshotOk PROVE now - status.source_ts <= MaxSourceAge + MaxStatusAge
    BY <2>1, <2>2, ContractAssumption
       DEF SnapshotOk, RecencyInv, TypeOK, FreshResult, Result
  <2>3. ASSUME AdapterPriced PROVE now - latest.source_ts <= MaxSourceAge + MaxPriceAge
    BY <2>1, <2>3, ContractAssumption
       DEF AdapterPriced, RecencyInv, TypeOK, FreshResult, Result
  <2>4. QED
    BY <2>2, <2>3 DEF TradableIsRecent
<1>2. QED
  BY <1>1, RecencyHolds, PTL

-----------------------------------------------------------------------------
(* Jumps.  With one daemon, the row it compares the next price with is the  *)
(* last price accepted, unless a refusal or a crash came after it.          *)

JumpInv(w) ==
    /\ writer[w].step = "status deleted" => status = NoRow
    /\ ~accepted.gap /\ writer[w].step # "status deleted" =>
          status # NoRow /\ status.ok /\ status.price = accepted.price
    /\ /\ ~accepted.gap
       /\ writer[w].step \in {"checked", "status deleted"}
       /\ writer[w].result.ok
       => Distance(writer[w].result.price, accepted.price) <= MaxJump

JumpStep == status' # status /\ status' # NoRow =>
               (status'.ok /\ ~accepted.gap => Distance(status'.price, accepted.price) <= MaxJump)

\* Initially no daemon compares with anything.
LEMMA InitJump ==
    ASSUME NEW w \in Writers, Init
    PROVE  JumpInv(w)
BY DEF Init, JumpInv, Resting

\* A fetch and a quiet step.
LEMMA QuietJump ==
    ASSUME NEW w \in Writers, JumpInv(w), UNCHANGED <<status, accepted>>,
           writer'[w] = writer[w]
    PROVE  JumpInv(w)'
BY DEF JumpInv

\* A fetch accepts nothing.
LEMMA FetchKeepsJump ==
    ASSUME RecencyInv, NEW w \in Writers, JumpInv(w), NEW t \in 0 .. now, Fetch(w, t)
    PROVE  JumpInv(w)'
<1>1. writer[w].step = "idle" /\ writer'[w].step = "fetched" /\ UNCHANGED <<status, accepted>>
  BY DEF Fetch, Resting, RecencyInv, TypeOK
<1>2. QED
  BY <1>1 DEF JumpInv

\* Nor does a source without a usable answer.
LEMMA UnusableKeepsJump ==
    ASSUME RecencyInv, NEW w \in Writers, JumpInv(w), FetchUnusable(w)
    PROVE  JumpInv(w)'
<1>1. /\ writer[w].step = "idle" /\ writer'[w].step = "checked" /\ ~writer'[w].result.ok
      /\ UNCHANGED <<status, accepted>>
  BY DEF FetchUnusable, Resting, RecencyInv, TypeOK
<1>2. QED
  BY <1>1 DEF JumpInv

\* The one daemon compares with the row it published last, or with none.
LEMMA ValidateKeepsJump ==
    ASSUME RecencyInv, NEW w \in Writers, JumpInv(w), Validate(w)
    PROVE  JumpInv(w)'
<1> DEFINE c == writer[w].candidate
<1>1. PICK ok : /\ ok = (writer[w].fresh /\ \A p \in Baseline : Distance(c.price, p) <= MaxJump)
                /\ writer' = [writer EXCEPT ![w] = [step |-> "checked",
                      result |-> [ok |-> ok, price |-> c.price,
                                  source_ts |-> c.source_ts, ts |-> now]]]
                /\ UNCHANGED <<now, market, status, latest, accepted>>
  BY DEF Validate
<1>2. writer[w].step = "fetched" /\ writer \in [Writers -> WriterState]
  BY DEF Validate, RecencyInv, TypeOK
<1>3. /\ writer'[w].step = "checked"
      /\ writer'[w].result.ok = ok /\ writer'[w].result.price = c.price
  BY <1>1, <1>2
<1>4. ASSUME ~accepted.gap, ok PROVE Distance(c.price, accepted.price) <= MaxJump
  BY <1>1, <1>2, <1>4 DEF JumpInv, Baseline
<1>5. QED
  BY <1>1, <1>2, <1>3, <1>4 DEF JumpInv

\* What the one daemon inserts is what it accepted last.
LEMMA InsertKeepsJump ==
    ASSUME RecencyInv, NEW w \in Writers, JumpInv(w), InsertStatus(w)
    PROVE  JumpInv(w)' /\ JumpStep
<1> DEFINE r == writer[w].result
<1>1. writer[w].step = "status deleted" /\ writer[w].step \in Publishing /\ status' = r
  BY DEF InsertStatus, Publishing
<1>2. r # NoRow
  BY <1>1, HeldResult, RowAssumption
<1>3. JumpStep
  BY <1>1 DEF JumpStep, JumpInv
<1>4. CASE r.ok
  <2>1. Advance(w, "accepted") /\ accepted' = [price |-> r.price, gap |-> FALSE]
    BY <1>4 DEF InsertStatus
  <2>2. writer'[w].step = "accepted"
    BY <1>1, <2>1, AdvanceTyped DEF RecencyInv, Publishing
  <2>3. accepted'.price = r.price
    BY <2>1
  <2>4. QED
    BY <1>1, <1>2, <1>3, <1>4, <2>2, <2>3 DEF JumpInv
<1>5. CASE ~r.ok
  <2>1. Rest(w) /\ accepted' = [accepted EXCEPT !.gap = TRUE]
    BY <1>5 DEF InsertStatus
  <2>2. writer'[w] = Resting
    BY <2>1, RestTyped DEF RecencyInv
  <2>3. accepted'.gap
    BY <2>1 DEF RecencyInv, TypeOK
  <2>4. writer'[w].step = "idle"
    BY <2>2 DEF Resting
  <2> HIDE DEF r
  <2>5. JumpInv(w)'
    BY <2>3, <2>4 DEF JumpInv
  <2>6. QED
    BY <1>3, <2>5
<1>6. QED
  BY <1>4, <1>5

\* The other statements neither touch the row that is compared with nor come to
\* a new result.
LEMMA PublishKeepsJump ==
    ASSUME RecencyInv, NEW w \in Writers, JumpInv(w), Publish(w)
    PROVE  JumpInv(w)' /\ JumpStep
<1>1. CASE Validate(w)
  BY <1>1, ValidateKeepsJump DEF Validate, JumpStep
<1>2. CASE DeleteStatus(w)
  <2>1. /\ writer[w].step = "checked" /\ writer[w].step \in Publishing
        /\ Advance(w, "status deleted") /\ status' = NoRow /\ accepted' = accepted
    BY <1>2 DEF DeleteStatus, Publishing
  <2>2. writer'[w].step = "status deleted" /\ writer'[w].result = writer[w].result
    BY <2>1, AdvanceTyped DEF RecencyInv, Publishing
  <2>3. QED
    BY <2>1, <2>2 DEF JumpInv, JumpStep
<1>3. CASE InsertStatus(w)
  BY <1>3, InsertKeepsJump
<1>4. CASE DeleteLatest(w)
  <2>1. /\ writer[w].step = "accepted" /\ writer[w].step \in Publishing
        /\ Advance(w, "latest deleted") /\ UNCHANGED <<status, accepted>>
    BY <1>4 DEF DeleteLatest, Publishing
  <2>2. writer'[w].step = "latest deleted"
    BY <2>1, AdvanceTyped DEF RecencyInv, Publishing
  <2>3. QED
    BY <2>1, <2>2 DEF JumpInv, JumpStep
<1>5. CASE InsertLatest(w) \/ InsertCollides(w)
  <2>1. Rest(w) /\ UNCHANGED <<status, accepted>> /\ writer[w].step # "status deleted"
    BY <1>5 DEF InsertLatest, InsertCollides, JumpInv
  <2>2. writer'[w] = Resting
    BY <2>1, RestTyped DEF RecencyInv
  <2>3. writer'[w].step = "idle"
    BY <2>2 DEF Resting
  <2>4. QED
    BY <2>1, <2>3 DEF JumpInv, JumpStep
<1>6. QED
  BY <1>1, <1>2, <1>3, <1>4, <1>5 DEF Publish

\* A crash leaves the latest row as it is, or deleted.
LEMMA CrashKeepsJump ==
    ASSUME RecencyInv, NEW w \in Writers, Crash(w)
    PROVE  JumpInv(w)' /\ JumpStep
<1>1. Rest(w) /\ accepted' = [accepted EXCEPT !.gap = TRUE] /\ status' = status
  BY DEF Crash
<1>2. writer'[w] = Resting
  BY <1>1, RestTyped DEF RecencyInv
<1>3. accepted'.gap
  BY <1>1 DEF RecencyInv, TypeOK
<1>4. QED
  BY <1>1, <1>2, <1>3 DEF JumpInv, JumpStep, Resting

\* Every step of a single daemon keeps the jumps guarded.
LEMMA StepKeepsJump ==
    ASSUME NEW w, Writers = {w}, RecencyInv, JumpInv(w), [Next]_vars
    PROVE  JumpInv(w)' /\ [JumpStep]_<<status, accepted>>
<1>1. CASE UNCHANGED vars \/ MarketMoves \/ Tick
  BY <1>1, QuietJump DEF vars, MarketMoves, Tick
<1>2. CASE GoodFetch(w) \/ StaleFetch(w)
  BY <1>2, FetchKeepsJump DEF GoodFetch, StaleFetch, Fetch
<1>3. CASE FetchUnusable(w)
  BY <1>3, UnusableKeepsJump DEF FetchUnusable
<1>4. CASE Publish(w)
  BY <1>4, PublishKeepsJump
<1>5. CASE Crash(w)
  BY <1>5, CrashKeepsJump
<1>6. QED
  BY <1>1, <1>2, <1>3, <1>4, <1>5 DEF Next

\* With one daemon the accepted price never jumps by more than the limit, but
\* over a refusal or a crash, for all levels and limits.
THEOREM JumpsAreGuarded ==
    ASSUME NEW w, Writers = {w}
    PROVE  Spec => JumpsNeedAGap
<1>1. Init => JumpInv(w)
  BY InitJump
<1>2. RecencyInv /\ JumpInv(w) /\ [Next]_vars => JumpInv(w)' /\ [JumpStep]_<<status, accepted>>
  BY StepKeepsJump
<1>3. QED
  BY <1>1, <1>2, RecencyHolds, PTL DEF Spec, JumpsNeedAGap, JumpStep
=============================================================================
