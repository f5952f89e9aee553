----------------------------- MODULE IntentChain -----------------------------
(***************************************************************************)
(* The V17 canary chain: the promotion controller V17.6.1 queues contracts *)
(* for review, an operator approves one with the quant governance V17.7.2, *)
(* which leaves an intent, and the paper adapter V17.8.1 binds the intent  *)
(* to a position, manages the position and reconciles its map row.         *)
(*                                                                         *)
(* The three are separate programs over one SQLite file.  Only the adapter *)
(* takes a lock (a file, broken when it is ten minutes old) and only the   *)
(* adapter reads and writes in one transaction; the governance validates   *)
(* over a read-only connection and inserts the intent over another one.    *)
(*                                                                         *)
(* A key is symbol, side and setup.  Scores, sizes and prices are left     *)
(* out: whether the brain likes a key and whether a symbol has a fresh     *)
(* price are free choices.  now counts coarse steps of time.                *)
(***************************************************************************)
EXTENDS Integers, Sequences, FiniteSets

CONSTANTS
    Keys,
    Operators,      \* people who approve contracts, each in a process of theirs
    NoDraft,        \* an operator has nothing in hand
    Loop, ByHand,   \* the adapter under the forever script, and one run by hand
    ReviewCap,      \* DAILY_REVIEW_CONTRACT_CAP
    PerCycle,       \* MAX_REVIEW_CONTRACTS_PER_CYCLE
    DailyCap,       \* MAX_DAILY_INTENTS
    GlobalCap,      \* MAX_OPEN_GLOBAL, MAX_OPEN_CANARIES_GLOBAL
    KeyCap,         \* MAX_OPEN_PER_KEY, MAX_OPEN_CANARIES_PER_KEY
    DayLength, Ttl, Cooldown,   \* a day, CONTRACT_TTL_HOURS, COOLDOWN_HOURS_AFTER_INTENT
    MaxNow,         \* bound: the clock
    MaxPasses,      \* bound: passes of the promotion controller
    MaxIntents,     \* bound: intents ever emitted
    MaxUpsets       \* bound: crashes, failed transactions and runs by hand of the adapter,
                    \* and passes and approvals in which a count is not read

Adapters == {Loop, ByHand}

\* What the hash of a contract tells apart: the queue row and the promotion pass.
Contract == [key : Keys, day : Nat, pass : Nat]

ASSUME ChainAssumption ==
    /\ Loop # ByHand /\ NoDraft \notin Contract
    /\ IsFiniteSet(Keys) /\ IsFiniteSet(Operators)
    /\ ReviewCap \in Nat \ {0} /\ PerCycle \in Nat /\ DailyCap \in Nat \ {0}
    /\ GlobalCap \in Nat /\ KeyCap \in Nat
    /\ DayLength \in Nat \ {0} /\ Ttl \in Nat /\ Cooldown \in Nat
    /\ MaxNow \in Nat /\ MaxPasses \in Nat /\ MaxIntents \in Nat
    /\ MaxUpsets \in Nat

VARIABLES
    now,
    passes,      \* passes of the promotion controller: its timestamp in a contract
    promo,       \* keys whose latest promotion row says REVIEW_MICRO_CANARY_CONTRACT
    queue,       \* the contract queue: rows that ask for a manual review
    draft,       \* operator -> the contract it validated and has not yet written
    intents,     \* the intent table
    positions,   \* the position table, each row with its row of the intent map
    lock,        \* the adapter's lock file
    pc,          \* adapter -> where it stands in run_once()
    pending,     \* adapter -> ids it read before it began its transaction
    broken,      \* history: a lock was found stale
    misreads,    \* history: daily counts that failed to be read and came out as 0
    upsets       \* history: crashes, failed transactions, failed reads, runs by hand

chainVars == <<now, passes, promo, queue, draft, intents>>
adapterVars == <<lock, pc, pending, broken>>
mishapVars == <<misreads, upsets>>
vars == <<chainVars, positions, adapterVars, mishapVars>>

DayOf(t) == t \div DayLength
Today == DayOf(now)

Intent == [contract : Contract, ts : Nat, state : {"pending", "bound", "rejected"}]

\* map: map_state, OPEN_POSITION_CREATED or POSITION_CLOSED.
Position == [key : Keys, intent : Nat, open : BOOLEAN, map : {"open", "closed"}]

-----------------------------------------------------------------------------
(* What the three programs read.                                           *)

OpenIds == {p \in DOMAIN positions : positions[p].open}
OpenIdsOf(k) == {p \in OpenIds : positions[p].key = k}

\* open_count_global() and open_count_key(), the same in all three programs.
Room(k) == Cardinality(OpenIds) < GlobalCap /\ Cardinality(OpenIdsOf(k)) < KeyCap

\* daily_contract_count() and same_day_review_contract_exists().
ReviewsOf(day) == {r \in queue : DayOf(r.ts) = day}
ReviewedToday(k) == \E r \in ReviewsOf(Today) : r.key = k
ReviewSlot(k) == Cardinality(ReviewsOf(Today)) < ReviewCap \/ ReviewedToday(k)

\* daily_intent_count() and recent_intent_for_key().
IntentsOf(day) == {i \in DOMAIN intents : DayOf(intents[i].ts) = day}
CoolingDown(k) == \E i \in DOMAIN intents :
    intents[i].contract.key = k /\ now - intents[i].ts < Cooldown

\* existing_map_for_intent().
Mapped(i) == \E p \in DOMAIN positions : positions[p].intent = i

\* Counts what does not belong to an undisturbed loop.
Upset == upsets < MaxUpsets /\ upsets' = upsets + 1

DailyCounts == {"intents", "reviews"}

\* The counters of the controller and of the governance return 0 when their SELECT
\* raises.  unread: those that do, "open" for open_canaries_global() and _key().
Misread(unread) ==
    /\ IF unread = {} THEN UNCHANGED upsets ELSE Upset
    /\ misreads' = [c \in DailyCounts |->
                      IF c \in unread THEN misreads[c] + 1 ELSE misreads[c]]

-----------------------------------------------------------------------------
(* The promotion controller: build_report() and write_outputs().           *)

\* Mutant: the daily cap forgotten.
MayBeChosenAnyDay(chosen, unread) ==
    /\ Cardinality(chosen) <= PerCycle
    /\ \A k \in chosen : "open" \in unread \/ Room(k)

\* classify(): what the brain thinks of a key is free, so any set of keys with
\* room and a slot may win the PerCycle contracts of a pass.
MayBeChosen(chosen, unread) ==
    /\ Cardinality(chosen) <= PerCycle
    /\ \A k \in chosen : "open" \in unread \/ Room(k)
    /\ \A k \in chosen : "reviews" \in unread \/ ReviewSlot(k)

\* One row per key and day: today's row of a key is refreshed in place.
Refreshed(chosen) ==
    {r \in queue : ~(DayOf(r.ts) = Today /\ r.key \in chosen)}
        \cup [key : chosen, ts : {now}]

Promote ==
    /\ passes < MaxPasses
    /\ passes' = passes + 1
    /\ \E chosen \in SUBSET Keys, unread \in SUBSET {"open", "reviews"} :
         /\ MayBeChosen(chosen, unread)
         /\ Misread(unread)
         /\ promo' = chosen
         /\ queue' = Refreshed(chosen)
    /\ UNCHANGED <<now, draft, intents, positions, adapterVars>>

-----------------------------------------------------------------------------
(* The governance: build_report(approve_id, emit_intent).                  *)

\* Mutant: only intents that the adapter has not seen are looked at.
ValidOfPending(row, unread) ==
    LET waiting == {i \in DOMAIN intents : intents[i].state = "pending"}
    IN  /\ now - row.ts <= Ttl
        /\ row.key \in promo
        /\ "open" \in unread \/ Room(row.key)
        /\ "intents" \in unread \/ Cardinality(IntentsOf(Today) \cap waiting) < DailyCap
        /\ \A i \in waiting : intents[i].contract.key = row.key
                                => now - intents[i].ts >= Cooldown

\* validate_quant_contract() on a queue row, without the statistics.
Valid(row, unread) ==
    /\ now - row.ts <= Ttl
    /\ row.key \in promo
    /\ "open" \in unread \/ Room(row.key)
    /\ "intents" \in unread \/ Cardinality(IntentsOf(Today)) < DailyCap
    /\ ~CoolingDown(row.key)

ContractOf(row) == [key |-> row.key, day |-> DayOf(row.ts), pass |-> passes]

\* The validation ends with its read-only connection closed.
Validate(o) ==
    /\ draft[o] = NoDraft
    /\ \E row \in queue, unread \in SUBSET {"open", "intents"} :
         /\ Valid(row, unread)
         /\ Misread(unread)
         /\ draft' = [draft EXCEPT ![o] = ContractOf(row)]
    /\ UNCHANGED <<now, passes, promo, queue, intents, positions, adapterVars>>

\* The intent's hash is the day and the contract, and the insert ignores a second.
AlreadyEmitted(c) == \E i \in IntentsOf(Today) : intents[i].contract = c

Emit(o) ==
    /\ draft[o] # NoDraft
    /\ Len(intents) < MaxIntents
    /\ draft' = [draft EXCEPT ![o] = NoDraft]
    /\ intents' = IF AlreadyEmitted(draft[o]) THEN intents
                  ELSE Append(intents, [contract |-> draft[o], ts |-> now,
                                        state |-> "pending"])
    /\ UNCHANGED <<now, passes, promo, queue, positions, adapterVars, mishapVars>>

\* The process ends, or gives up on a locked database, before the insert.
Abandon(o) ==
    /\ draft[o] # NoDraft
    /\ draft' = [draft EXCEPT ![o] = NoDraft]
    /\ UNCHANGED <<now, passes, promo, queue, intents, positions, adapterVars, mishapVars>>

-----------------------------------------------------------------------------
(* AdapterLock.                                                            *)

\* Mutant: the age of the lock file is not looked at.
StartBlind(a) ==
    /\ pc[a] = "idle"
    /\ IF a = ByHand THEN Upset ELSE UNCHANGED upsets
    /\ pc' = [pc EXCEPT ![a] = "create"]
    /\ UNCHANGED <<chainVars, positions, lock, pending, broken, misreads>>

\* __enter__() looks at the age of the lock file...
Start(a) ==
    /\ pc[a] = "idle"
    /\ IF a = ByHand THEN Upset ELSE UNCHANGED upsets
    /\ pc' = [pc EXCEPT ![a] = IF lock = "stale" THEN "unlink" ELSE "create"]
    /\ broken' = (broken \/ lock = "stale")
    /\ UNCHANGED <<chainVars, positions, lock, pending, misreads>>

\* ...unlinks whatever file is there by now...
Unlink(a) ==
    /\ pc[a] = "unlink"
    /\ lock' = "none"
    /\ pc' = [pc EXCEPT ![a] = "create"]
    /\ UNCHANGED <<chainVars, positions, pending, broken, mishapVars>>

\* Mutant: the file is created without O_EXCL.
CreateAnyway(a) ==
    /\ pc[a] = "create"
    /\ lock' = "fresh"
    /\ pc' = [pc EXCEPT ![a] = "cycle"]
    /\ pending' = [pending EXCEPT ![a] = {i \in DOMAIN intents :
                                            intents[i].state = "pending"}]
    /\ UNCHANGED <<chainVars, positions, broken, mishapVars>>

\* ...and creates its own or raises ADAPTER_LOCKED_ALREADY_RUNNING.  Under it comes
\* pending_intents(), before BEGIN IMMEDIATE.
Create(a) ==
    /\ pc[a] = "create"
    /\ \/ /\ lock = "none"
          /\ lock' = "fresh"
          /\ pc' = [pc EXCEPT ![a] = "cycle"]
          /\ pending' = [pending EXCEPT ![a] = {i \in DOMAIN intents :
                                                  intents[i].state = "pending"}]
       \/ /\ lock # "none"
          /\ pc' = [pc EXCEPT ![a] = "idle"]
          /\ UNCHANGED <<lock, pending>>
    /\ UNCHANGED <<chainVars, positions, broken, mishapVars>>

\* __exit__(): it unlinks the file that is there, its own or not.
Release(a) ==
    /\ pc[a] = "release"
    /\ lock' = "none"
    /\ pc' = [pc EXCEPT ![a] = "idle"]
    /\ UNCHANGED <<chainVars, positions, pending, broken, mishapVars>>

\* Ten minutes pass over a lock file.
LockAges ==
    /\ lock = "fresh"
    /\ lock' = "stale"
    /\ UNCHANGED <<chainVars, positions, pc, pending, broken, mishapVars>>

-----------------------------------------------------------------------------
(* run_once() between the two.                                             *)

\* Mutant: the intent map is not looked up.
BindsAgain(i, fresh) ==
    LET k == intents[i].contract.key
    IN  Room(k) /\ k \in fresh

\* Mutant: only the cap of the key.
BindsUncapped(i, fresh) ==
    LET k == intents[i].contract.key
    IN  ~Mapped(i) /\ k \in fresh /\ Cardinality(OpenIdsOf(k)) < KeyCap

\* bind_intent() opens a position for i: the checks that can refuse it.  The state of
\* the intent is not read again.
Binds(i, fresh) ==
    LET k == intents[i].contract.key
    IN  ~Mapped(i) /\ Room(k) /\ k \in fresh

\* The loop over the intents stops after MAX_NEW_OPENS_PER_CYCLE = 1 opening: it
\* opens for the first intent that binds and has refused the ones before it.
Opens(i, ids, fresh) == Binds(i, fresh) /\ \A j \in ids : j < i => ~Binds(j, fresh)
Refuses(i, ids, fresh) == \A j \in ids : j <= i => ~Binds(j, fresh)

Verdict(i, ids, fresh) ==
    IF i \in ids /\ Opens(i, ids, fresh) THEN "bound"
    ELSE IF i \in ids /\ Refuses(i, ids, fresh) THEN "rejected"
    ELSE intents[i].state

NewPosition(i) ==
    [key |-> intents[i].contract.key, intent |-> i, open |-> TRUE, map |-> "open"]

\* Mutant: the map row takes over the status of the position.
SettleStatus(p, exits) ==
    LET open == positions[p].open /\ p \notin exits
    IN  [positions[p] EXCEPT !.open = open,
                             !.map = IF open THEN @ ELSE "CLOSED"]

\* manage_position() and close_position(), then reconcile().
Settle(p, exits) ==
    LET open == positions[p].open /\ p \notin exits
    IN  [positions[p] EXCEPT !.open = open,
                             !.map = IF open THEN @ ELSE "closed"]

\* One transaction: bind, manage, reconcile.  fresh: the keys whose symbol has a
\* fresh price; exits: the positions that reach their stop, target or horizon.
Transact(ids, fresh, exits) ==
    LET settled == [p \in DOMAIN positions |-> Settle(p, exits)]
    IN  /\ intents' = [i \in DOMAIN intents |->
                         [intents[i] EXCEPT !.state = Verdict(i, ids, fresh)]]
        /\ \/ \E i \in ids : /\ Opens(i, ids, fresh)
                             /\ positions' = Append(settled, NewPosition(i))
           \/ /\ \A i \in ids : ~Binds(i, fresh)
              /\ positions' = settled

Cycle(a) ==
    /\ pc[a] = "cycle"
    /\ \E fresh \in SUBSET Keys :
       \E exits \in SUBSET {p \in OpenIds : positions[p].key \in fresh} :
          Transact(pending[a], fresh, exits)
    /\ pc' = [pc EXCEPT ![a] = "release"]
    /\ pending' = [pending EXCEPT ![a] = {}]
    /\ UNCHANGED <<now, passes, promo, queue, draft, lock, broken, mishapVars>>

\* The transaction does not begin or does not commit, and is rolled back.
CycleFails(a) ==
    /\ pc[a] = "cycle"
    /\ Upset
    /\ pc' = [pc EXCEPT ![a] = "release"]
    /\ pending' = [pending EXCEPT ![a] = {}]
    /\ UNCHANGED <<chainVars, positions, lock, broken, misreads>>

\* The process is killed: its lock file stays.
Crash(a) ==
    /\ pc[a] # "idle"
    /\ Upset
    /\ pc' = [pc EXCEPT ![a] = "idle"]
    /\ pending' = [pending EXCEPT ![a] = {}]
    /\ UNCHANGED <<chainVars, positions, lock, broken, misreads>>

-----------------------------------------------------------------------------
(* The rest of the world.                                                  *)

\* The V11 position manager closes open rows of the same table, whoever opened them.
OutsideClose(p) ==
    /\ p \in OpenIds
    /\ positions' = [positions EXCEPT ![p].open = FALSE]
    /\ UNCHANGED <<chainVars, adapterVars, mishapVars>>

Tick ==
    /\ now < MaxNow
    /\ now' = now + 1
    /\ UNCHANGED <<passes, promo, queue, draft, intents, positions, adapterVars, mishapVars>>

-----------------------------------------------------------------------------

Init ==
    /\ now = 0 /\ passes = 0
    /\ promo = {} /\ queue = {}
    /\ draft = [o \in Operators |-> NoDraft]
    /\ intents = <<>> /\ positions = <<>>
    /\ lock = "none"
    /\ pc = [a \in Adapters |-> "idle"]
    /\ pending = [a \in Adapters |-> {}]
    /\ broken = FALSE
    /\ misreads = [c \in DailyCounts |-> 0] /\ upsets = 0

AdapterStep(a) ==
    Start(a) \/ Unlink(a) \/ Create(a) \/ Cycle(a) \/ Release(a)

Next ==
    \/ Promote
    \/ \E o \in Operators : Validate(o) \/ Emit(o) \/ Abandon(o)
    \/ \E a \in Adapters : AdapterStep(a) \/ CycleFails(a) \/ Crash(a)
    \/ LockAges
    \/ \E p \in DOMAIN positions : OutsideClose(p)
    \/ Tick

Spec == Init /\ [][Next]_vars

\* The forever script runs the adapter again and again, and a lock file grows old by
\* itself.  Nothing else is promised to happen.
FairSpec == Spec /\ WF_vars(AdapterStep(Loop)) /\ WF_vars(LockAges)

-----------------------------------------------------------------------------
(* Properties.                                                             *)

TypeOK ==
    /\ now \in Nat /\ passes \in Nat
    /\ promo \subseteq Keys
    /\ queue \subseteq [key : Keys, ts : Nat]
    /\ draft \in [Operators -> Contract \cup {NoDraft}]
    /\ intents \in Seq(Intent)
    /\ positions \in Seq(Position)
    /\ lock \in {"none", "fresh", "stale"}
    /\ pc \in [Adapters -> {"idle", "unlink", "create", "cycle", "release"}]
    /\ pending \in [Adapters -> SUBSET DOMAIN intents]
    /\ broken \in BOOLEAN
    /\ misreads \in [DailyCounts -> Nat] /\ upsets \in Nat

\* The caps on open canaries hold whatever happens to the adapter's lock: the count and
\* the insert are in one transaction.
OpenCaps ==
    /\ Cardinality(OpenIds) <= GlobalCap
    /\ \A k \in Keys : Cardinality(OpenIdsOf(k)) <= KeyCap

\* An intent is worth one position, also when two adapters work from the same list.
OnePositionPerIntent ==
    \A p, q \in DOMAIN positions : positions[p].intent = positions[q].intent => p = q

\* The verdict an intent shows is the one it got: a pending one has no position, a bound
\* one has, and a rejected one has none unless the lock was broken under an adapter.
VerdictsStand ==
    \A i \in DOMAIN intents :
        /\ intents[i].state = "pending" => ~Mapped(i)
        /\ intents[i].state = "bound" => Mapped(i)
        /\ intents[i].state = "rejected" /\ Mapped(i) => broken

\* MAX_DAILY_INTENTS is checked on another connection than the insert's: every further
\* operator may add one, on any day, and every validation that could not read the count.
IntentRoom == DailyCap - 1 + Cardinality(Operators) + misreads["intents"]
DailyIntents == \A d \in 0 .. Today : Cardinality(IntentsOf(d)) <= IntentRoom

\* DAILY_REVIEW_CONTRACT_CAP is checked against the count at the start of a pass: a pass
\* may exceed it by all it queues but one, and one that could not read the count by all.
ReviewRoom == ReviewCap - 1 + PerCycle * (1 + misreads["reviews"])
DailyReviews == \A d \in 0 .. Today : Cardinality(ReviewsOf(d)) <= ReviewRoom

\* No intent stays pending: crashes of the adapter, leftover locks and rival runs only
\* delay its verdict, and the list of pending intents runs empty again.
SomePending == \E i \in DOMAIN intents : intents[i].state = "pending"
PendingSettles == SomePending ~> ~SomePending

-----------------------------------------------------------------------------
(* The inductive invariant behind the invariants above.                    *)

\* Rows refer to rows that exist, and none is from the future.
KnownRows ==
    /\ IsFiniteSet(queue)
    /\ \A p \in DOMAIN positions : positions[p].intent \in DOMAIN intents
    /\ \A i \in DOMAIN intents : intents[i].ts <= now

\* Inside its lock file an adapter is alone and works from an up-to-date list, until
\* some adapter finds a stale file.
Inside(a) == pc[a] \in {"cycle", "release"}
LockInv ==
    ~broken =>
        /\ \A a \in Adapters : pc[a] # "unlink"
        /\ \A a \in Adapters : Inside(a) => lock # "none"
        /\ \A a, b \in Adapters : Inside(a) /\ Inside(b) => a = b
        /\ \A a \in Adapters : pc[a] = "cycle" =>
              \A i \in pending[a] : intents[i].state = "pending"

\* A contract in hand counts as an intent of today.
InHand == {o \in Operators : draft[o] # NoDraft}
DraftsCount == Cardinality(IntentsOf(Today)) + Cardinality(InHand) <= IntentRoom

ChainInv ==
    /\ TypeOK /\ KnownRows /\ LockInv
    /\ OpenCaps /\ OnePositionPerIntent /\ VerdictsStand
    /\ DailyIntents /\ DraftsCount /\ DailyReviews
=============================================================================
