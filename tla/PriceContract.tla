---------------------------- MODULE PriceContract ----------------------------
(***************************************************************************)
(* The market price contract V24.9                                         *)
(* (joanbot/institutional/canonical_market_data_contract_v24_9_final.py):  *)
(* a daemon fetches the price of a symbol, checks it against the last      *)
(* price it accepted, and publishes the result in two tables.              *)
(*   - STATUS_TABLE holds the last result, accepted or refused; the quant  *)
(*     authority and the supervisor read it (canonical_price_snapshot), and*)
(*     so does the daemon itself, for the price to check the next against; *)
(*   - LATEST_TABLE holds the last accepted result; the paper adapter reads*)
(*     it (canonical_price of canonical_paper_accounting_v24_4.py).        *)
(*                                                                         *)
(* A row is replaced by a DELETE and an INSERT that commit by themselves,  *)
(* so readers, a second daemon and a crash can come in between.  Symbols   *)
(* have rows of their own: the model follows one.  Time is counted in      *)
(* ticks, prices in levels.                                                *)
(***************************************************************************)
EXTENDS Integers

CONSTANTS
    Writers,        \* daemon processes (the supervisor wants one)
    Levels,         \* price levels of the market
    Bounds,         \* SYMBOL_BOUNDS of the paper adapter
    NoRow,          \* a table has no row of the symbol
    MaxJump,        \* MAX_CANONICAL_JUMP_PCT
    MaxSourceAge,   \* MAX_SOURCE_AGE_MIN
    MaxStatusAge,   \* MAX_STATUS_AGE_MIN
    MaxPriceAge,    \* MAX_PRICE_AGE_MIN of the paper adapter
    MaxNow          \* bound: last tick of the clock

ASSUME ContractAssumption ==
    /\ Levels \subseteq Nat /\ Bounds \subseteq Levels
    /\ MaxJump \in Nat /\ MaxSourceAge \in Nat /\ MaxStatusAge \in Nat
    /\ MaxPriceAge \in Nat /\ MaxNow \in Nat

VARIABLES
    now,       \* wall clock
    market,    \* the price at the venue
    status,    \* the row of STATUS_TABLE
    latest,    \* the row of LATEST_TABLE
    writer,    \* what each daemon holds, and how far its cycle is
    accepted   \* history: the last price STATUS_TABLE accepted, and whether a
               \* refusal or a crash came after it

vars == <<now, market, status, latest, writer, accepted>>

Candidate == [price : Levels, source_ts : Nat]
Result == [ok : BOOLEAN, price : Levels, source_ts : Nat, ts : Nat]
Resting == [step |-> "idle"]

ASSUME RowAssumption == NoRow \notin Result

Distance(x, y) == IF x < y THEN y - x ELSE x - y

-----------------------------------------------------------------------------
(* Evaluation: fetch_binance(), then validate_candidate().                 *)

\* Mutant: every source timestamp will do.
AnyAge(t) == TRUE

FreshAtSource(t) == now - t <= MaxSourceAge

\* A complete answer of the venue, and how old the venue says it is.
Fetch(w, t) ==
    /\ writer[w] = Resting
    /\ writer' = [writer EXCEPT ![w] = [step |-> "fetched",
                       candidate |-> [price |-> market, source_ts |-> t],
                       fresh |-> FreshAtSource(t)]]
    /\ UNCHANGED <<now, market, status, latest, accepted>>

\* No answer, or one without price, mark or index, or with the two too far apart.
FetchUnusable(w) ==
    /\ writer[w] = Resting
    /\ writer' = [writer EXCEPT ![w] = [step |-> "checked",
                       result |-> [ok |-> FALSE, price |-> market,
                                   source_ts |-> now, ts |-> now]]]
    /\ UNCHANGED <<now, market, status, latest, accepted>>

\* Mutants: no price to compare with, or the one that survives refusals.
NoBaseline == {}
LatestBaseline == IF latest = NoRow THEN {} ELSE {latest.price}

\* previous_final_canonical(): at most one price, and none after a refusal.
Baseline == IF status = NoRow THEN {} ELSE IF status.ok THEN {status.price} ELSE {}

Validate(w) ==
    /\ writer[w].step = "fetched"
    /\ LET c  == writer[w].candidate
           ok == /\ writer[w].fresh
                 /\ \A p \in Baseline : Distance(c.price, p) <= MaxJump
       IN  writer' = [writer EXCEPT ![w] = [step |-> "checked",
                           result |-> [ok |-> ok, price |-> c.price,
                                       source_ts |-> c.source_ts, ts |-> now]]]
    /\ UNCHANGED <<now, market, status, latest, accepted>>

-----------------------------------------------------------------------------
(* Publication: write_status(), then write_latest_if_ok().                 *)

Advance(w, step) == writer' = [writer EXCEPT ![w].step = step]
Rest(w) == writer' = [writer EXCEPT ![w] = Resting]

DeleteStatus(w) ==
    /\ writer[w].step = "checked"
    /\ status' = NoRow
    /\ Advance(w, "status deleted")
    /\ UNCHANGED <<now, market, latest, accepted>>

\* Mutant: a refused result is published as well.
InsertStatusPublishes(w) ==
    /\ writer[w].step = "status deleted"
    /\ status = NoRow
    /\ status' = writer[w].result
    /\ Advance(w, "accepted")
    /\ accepted' = [price |-> status'.price, gap |-> FALSE]
    /\ UNCHANGED <<now, market, latest>>

InsertStatus(w) ==
    /\ writer[w].step = "status deleted"
    /\ status = NoRow
    /\ LET r == writer[w].result
       IN  /\ status' = r
           /\ IF r.ok THEN /\ Advance(w, "accepted")
                           /\ accepted' = [price |-> r.price, gap |-> FALSE]
                      ELSE /\ Rest(w)
                           /\ accepted' = [accepted EXCEPT !.gap = TRUE]
    /\ UNCHANGED <<now, market, latest>>

DeleteLatest(w) ==
    /\ writer[w].step = "accepted"
    /\ latest' = NoRow
    /\ Advance(w, "latest deleted")
    /\ UNCHANGED <<now, market, status, accepted>>

InsertLatest(w) ==
    /\ writer[w].step = "latest deleted"
    /\ latest = NoRow
    /\ latest' = writer[w].result
    /\ Rest(w)
    /\ UNCHANGED <<now, market, status, accepted>>

\* The symbol is the primary key: the insert of a second daemon raises, and its
\* cycle is over.
InsertCollides(w) ==
    /\ \/ writer[w].step = "status deleted" /\ status # NoRow
       \/ writer[w].step = "latest deleted" /\ latest # NoRow
    /\ Rest(w)
    /\ UNCHANGED <<now, market, status, latest, accepted>>

\* The daemon is killed, or a statement gives up on a lock.
Crash(w) ==
    /\ writer[w] # Resting
    /\ Rest(w)
    /\ accepted' = [accepted EXCEPT !.gap = TRUE]
    /\ UNCHANGED <<now, market, status, latest>>

-----------------------------------------------------------------------------
(* Readers.                                                                *)

\* canonical_price_snapshot(): what the authority and the supervisor see.
SnapshotOk == IF status = NoRow THEN FALSE
              ELSE status.ok /\ now - status.ts <= MaxStatusAge

\* canonical_price(): what the paper adapter opens, marks and closes with.  The
\* adapter alone has bounds of its own for a price.
AdapterPriced == IF latest = NoRow THEN FALSE
                 ELSE latest.price \in Bounds /\ now - latest.ts <= MaxPriceAge

-----------------------------------------------------------------------------
Init ==
    /\ now = 0
    /\ market \in Levels
    /\ status = NoRow
    /\ latest = NoRow
    /\ writer = [w \in Writers |-> Resting]
    /\ accepted = [price |-> market, gap |-> TRUE]

MarketMoves ==
    /\ market' \in Levels
    /\ UNCHANGED <<now, status, latest, writer, accepted>>

\* The validation is one read that no lock delays: it takes no time on this
\* clock.
Tick ==
    /\ now < MaxNow
    /\ \A w \in Writers : writer[w].step # "fetched"
    /\ now' = now + 1
    /\ UNCHANGED <<market, status, latest, writer, accepted>>

GoodFetch(w) == \E t \in 0 .. now : FreshAtSource(t) /\ Fetch(w, t)
StaleFetch(w) == \E t \in 0 .. now : now - t > MaxSourceAge /\ Fetch(w, t)

Publish(w) ==
    \/ Validate(w)
    \/ DeleteStatus(w)
    \/ InsertStatus(w)
    \/ DeleteLatest(w)
    \/ InsertLatest(w)
    \/ InsertCollides(w)

Next ==
    \/ MarketMoves
    \/ Tick
    \/ \E w \in Writers : \/ GoodFetch(w)
                          \/ StaleFetch(w)
                          \/ FetchUnusable(w)
                          \/ Publish(w)
                          \/ Crash(w)

Spec == Init /\ [][Next]_vars

\* What a daemon does when nothing goes wrong.
Wellbeing == \E w \in Writers : GoodFetch(w) \/ Publish(w)

\* The daemon loops for ever, and from some moment on it stays alive and the
\* venue answers with fresh and consistent prices, whatever they are.
FairSpec ==
    /\ Spec
    /\ \A w \in Writers : WF_vars(GoodFetch(w) \/ Publish(w))
    /\ <>[][MarketMoves \/ Tick \/ Wellbeing]_vars

-----------------------------------------------------------------------------
(* Properties.                                                             *)

WriterState ==
    {Resting}
    \cup [step : {"fetched"}, candidate : Candidate, fresh : BOOLEAN]
    \cup [step : {"checked", "status deleted", "accepted", "latest deleted"}, result : Result]

\* Types; and only accepted results are ever on the way to, or in, LATEST_TABLE.
TypeOK ==
    /\ now \in 0 .. MaxNow
    /\ market \in Levels
    /\ status \in {NoRow} \cup Result
    /\ latest \in {NoRow} \cup {r \in Result : r.ok}
    /\ writer \in [Writers -> WriterState]
    /\ accepted \in [price : Levels, gap : BOOLEAN]

\* With one daemon: STATUS_TABLE goes from one accepted price to another that is
\* more than MAX_CANONICAL_JUMP_PCT away only over a refusal or a crash.
JumpsNeedAGap ==
    [][status' # status /\ status' # NoRow =>
          (status'.ok /\ ~accepted.gap => Distance(status'.price, accepted.price) <= MaxJump)
      ]_<<status, accepted>>

\* The two age checks are about different clocks: whatever is read, by the
\* authority or by the adapter, was true at the venue no longer ago than both
\* limits together, also when two daemons overwrite each other.
TradableIsRecent ==
    /\ SnapshotOk => now - status.source_ts <= MaxSourceAge + MaxStatusAge
    /\ AdapterPriced => now - latest.source_ts <= MaxSourceAge + MaxPriceAge

\* A real move beyond the jump limit, a refusal, a crash between DELETE and
\* INSERT or a collision of two daemons never silences the price for ever:
\* once the venue is well the authority and the supervisor have it again and again,
\* and so has the adapter unless the market keeps leaving the adapter's bounds.
PriceReturns == /\ []<>SnapshotOk
                /\ <>[](market \in Bounds) => []<>AdapterPriced

-----------------------------------------------------------------------------
(* The inductive invariant behind TradableIsRecent.                        *)

\* The steps at which a daemon has a checked result in hand.
Publishing == {"checked", "status deleted", "accepted", "latest deleted"}

\* What a result promises: it carries the moment of its check, and was fresh then.
FreshResult(r) == r.ts <= now /\ (r.ok => r.ts - r.source_ts <= MaxSourceAge)

\* What a daemon holds keeps its promise about freshness, and only accepted
\* results are on their way to LATEST_TABLE.
HeldInv(w) ==
    /\ writer[w].step = "fetched" =>
          writer[w].fresh = FreshAtSource(writer[w].candidate.source_ts)
    /\ writer[w].step \in Publishing => FreshResult(writer[w].result)
    /\ writer[w].step \in {"accepted", "latest deleted"} => writer[w].result.ok

RecencyInv ==
    /\ TypeOK
    /\ \A w \in Writers : HeldInv(w)
    /\ status # NoRow => FreshResult(status)
    /\ latest # NoRow => FreshResult(latest)
=============================================================================
