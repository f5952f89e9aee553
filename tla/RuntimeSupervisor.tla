-------------------------- MODULE RuntimeSupervisor --------------------------
(***************************************************************************)
(* The runtime supervisor V24.8                                            *)
(* (joanbot/institutional/runtime_supervisor_v24_8.py) and one enabled     *)
(* service whose wrapper script runs one python daemon in the foreground,  *)
(* as those of the V24 price contract, authority and adapter do.           *)
(*                                                                         *)
(* A cycle of the supervisor loads its state file, lists the processes,    *)
(* acts on that list, and saves the state file at its end.  Processes come *)
(* and go meanwhile: the list is stale when it is acted upon.  The file is *)
(* overwritten in place, and one that cannot be read or parsed is taken for*)
(* an empty one.  The lateral stack script                                 *)
(* (scripts/run_v24_4_quant_stack_forever.sh) starts the same service when *)
(* it sees no daemon of it.                                                *)
(*                                                                         *)
(* Time is counted in ticks and kept as ages, so that it never ends.       *)
(***************************************************************************)
EXTENDS Naturals, Sequences, FiniteSets

CONSTANTS
    Ids,           \* start-ups of the service that can exist at a time
    Grace,         \* STARTUP_GRACE_SEC
    Window,        \* RESTART_WINDOW_SEC
    MaxRestarts,   \* MAX_RESTARTS_IN_WINDOW
    Cooldown,      \* COOLDOWN_SEC
    MaxCuts,       \* bound: cycles that are cut short
    MaxBlanks      \* bound: times the state file comes out blank

ASSUME SupervisorAssumption ==
    /\ IsFiniteSet(Ids) /\ Grace \in Nat /\ Window \in Nat /\ MaxRestarts \in Nat \ {0}
    /\ Cooldown \in Nat /\ MaxCuts \in Nat /\ MaxBlanks \in Nat /\ Grace <= Window

VARIABLES
    procs,    \* processes of the service: wrappers and workers
    sick,     \* the logical health probe of the service would fail
    saved,    \* the service's part of the state file
    st,       \* the same in memory, during a cycle
    step,     \* where the cycle is
    rows,     \* service_rows(): the processes listed in this cycle
    rival,    \* whether the lateral stack is about to start the service
    starts,   \* history: ages of the supervisor's starts, within the window
    cuts,     \* history: cycles that were cut short before they saved
    blanks    \* history: times the whole state was lost

vars == <<procs, sick, saved, st, step, rows, rival, starts, cuts, blanks>>

Process == [id : Ids, role : {"wrapper", "worker"}]

\* restart_epochs, oldest first; the time since last_start_epoch, as far as it
\* matters; the time until cooldown_until.
ServiceState == [restarts : Seq(0 .. Window), last_start : 0 .. Grace + 1,
                 cooldown : 0 .. Cooldown]

Fresh == [restarts |-> <<>>, last_start |-> Grace + 1, cooldown |-> 0]

Of(role) == {p \in procs : p.role = role}
Busy == {p.id : p \in procs}

-----------------------------------------------------------------------------
(* The processes of the service.                                           *)

Others == <<saved, st, step, rows, starts, cuts, blanks>>

\* The wrapper gets to its last line: it starts the daemon and waits for it.
Spawn(i) ==
    /\ [id |-> i, role |-> "wrapper"] \in procs
    /\ procs' = procs \cup {[id |-> i, role |-> "worker"]}
    /\ procs' # procs
    /\ UNCHANGED <<sick, rival, Others>>

\* The daemon ends, and so does its wrapper.
DaemonDies(i) ==
    /\ [id |-> i, role |-> "worker"] \in procs
    /\ procs' = {p \in procs : p.id # i}
    /\ UNCHANGED <<sick, rival, Others>>

\* Something kills the shell only: the daemon lives on.
WrapperDies(i) ==
    /\ [id |-> i, role |-> "wrapper"] \in procs
    /\ procs' = procs \ {[id |-> i, role |-> "wrapper"]}
    /\ UNCHANGED <<sick, rival, Others>>

HealthChanges == sick' = ~sick /\ UNCHANGED <<procs, rival, Others>>

\* start_if_missing: pgrep looks for the daemon, not for its wrapper.
RivalLooks ==
    /\ ~rival
    /\ Of("worker") = {}
    /\ rival' = TRUE
    /\ UNCHANGED <<procs, sick, Others>>

\* Bound: one id is left for the supervisor.
RivalStarts ==
    /\ rival
    /\ Cardinality(Busy) + 1 < Cardinality(Ids)
    /\ \E i \in Ids \ Busy : procs' = procs \cup {[id |-> i, role |-> "wrapper"]}
    /\ rival' = FALSE
    /\ UNCHANGED <<sick, Others>>

-----------------------------------------------------------------------------
(* The supervisor, step by step.                                           *)

World == <<sick, rival, starts, cuts, blanks>>

\* load_state(); of a file that a save left torn it gets Fresh.
LoadState ==
    /\ step = "idle"
    /\ st' = saved
    /\ step' = "list"
    /\ UNCHANGED <<procs, saved, rows, World>>

\* The file is whole, but reading it fails: load_state() returns an empty state.
LoadBlank ==
    /\ step = "idle"
    /\ blanks < MaxBlanks
    /\ blanks' = blanks + 1
    /\ st' = Fresh
    /\ step' = "list"
    /\ UNCHANGED <<procs, sick, saved, rows, rival, starts, cuts>>

\* in_startup_grace().
InGrace == st.last_start <= Grace

\* Mutant: a service is probed however young it is.
Unhealthy == sick

\* logical_health(), for a service that has processes.
LogicallyUnhealthy == ~InGrace /\ sick

WrappersOf(ps) == {p \in ps : p.role = "wrapper"}

\* Mutant: two wrappers are taken for a wrapper and its worker.
ClassifyWithoutDedup(ps) ==
    IF ps = {} THEN "restart"
    ELSE IF LogicallyUnhealthy THEN "heal" ELSE "save"

\* What supervise_service() decides to do about the processes it listed.
Classify(ps) ==
    IF Cardinality(WrappersOf(ps)) > 1 THEN "dedup"
    ELSE IF ps = {} THEN "restart"
    ELSE IF LogicallyUnhealthy THEN "heal" ELSE "save"

\* service_rows() and split_rows().
ListProcesses ==
    /\ step = "list"
    /\ rows' = procs
    /\ step' = Classify(procs)
    /\ UNCHANGED <<procs, saved, st, World>>

\* kill_rows(): the listed processes, whatever came since.
KillDuplicates ==
    /\ step = "dedup"
    /\ procs' = procs \ rows
    /\ step' = "restart"
    /\ UNCHANGED <<saved, st, rows, World>>

\* Mutant: an off-by-one in the limit.
RestartsAvailableLate == st.cooldown = 0 /\ Len(st.restarts) <= MaxRestarts

\* restart_allowed().
RestartsAvailable == st.cooldown = 0 /\ Len(st.restarts) < MaxRestarts

\* Mutant: a restart that is not allowed is counted like one that is.
RefrainAndCount ==
    /\ step \in {"restart", "heal"}
    /\ ~RestartsAvailable
    /\ st' = [st EXCEPT !.restarts = Append(Tail(@), 0)]
    /\ step' = "save"
    /\ UNCHANGED <<procs, saved, rows, World>>

\* ... not allowed: a spent budget starts a cooldown.
Refrain ==
    /\ step \in {"restart", "heal"}
    /\ ~RestartsAvailable
    /\ st' = IF st.cooldown = 0 THEN [st EXCEPT !.cooldown = Cooldown] ELSE st
    /\ step' = "save"
    /\ UNCHANGED <<procs, saved, rows, World>>

\* ... allowed, for a service that runs but is not well: only now it is killed.
KillUnhealthy ==
    /\ step = "heal"
    /\ RestartsAvailable
    /\ procs' = procs \ rows
    /\ step' = "start"
    /\ UNCHANGED <<saved, st, rows, World>>

\* Mutant: mark_start() does not set last_start_epoch.
StartUnmarked ==
    /\ \/ step = "start"
       \/ step = "restart" /\ RestartsAvailable
    /\ \E i \in Ids \ Busy : procs' = procs \cup {[id |-> i, role |-> "wrapper"]}
    /\ st' = [st EXCEPT !.restarts = Append(@, 0)]
    /\ starts' = Append(starts, 0)
    /\ step' = "save"
    /\ UNCHANGED <<saved, rows, sick, rival, cuts, blanks>>

\* start_service() and mark_start().  At the bound, when every id is taken by a
\* start-up that still has a process, a start adds nothing.
Start ==
    /\ \/ step = "start"
       \/ step = "restart" /\ RestartsAvailable
    /\ \/ \E i \in Ids \ Busy : procs' = procs \cup {[id |-> i, role |-> "wrapper"]}
       \/ Busy = Ids /\ procs' = procs
    /\ st' = [st EXCEPT !.restarts = Append(@, 0), !.last_start = 0]
    /\ starts' = Append(starts, 0)
    /\ step' = "save"
    /\ UNCHANGED <<saved, rows, sick, rival, cuts, blanks>>

SaveState ==
    /\ step = "save"
    /\ saved' = st
    /\ st' = Fresh
    /\ rows' = {}
    /\ step' = "idle"
    /\ UNCHANGED <<procs, World>>

\* write_text() has truncated the file and gets no further: the disk is full, or
\* the supervisor is killed.  No part of what it writes is readable by itself.
SaveTorn ==
    /\ step = "save"
    /\ blanks < MaxBlanks
    /\ blanks' = blanks + 1
    /\ saved' = Fresh
    /\ st' = Fresh
    /\ rows' = {}
    /\ step' = "idle"
    /\ UNCHANGED <<procs, sick, rival, starts, cuts>>

\* Something in the cycle raises, and main() goes on with the next one, or the
\* supervisor is killed and started again: what the cycle had marked is not saved.
CycleRaises ==
    /\ step # "idle"
    /\ cuts < MaxCuts
    /\ cuts' = cuts + 1
    /\ st' = Fresh
    /\ rows' = {}
    /\ step' = "idle"
    /\ UNCHANGED <<procs, sick, saved, rival, starts, blanks>>

-----------------------------------------------------------------------------
(* Time.                                                                   *)

\* Epochs that leave the window are never counted again.  The lists are oldest
\* first, so those are the first ones.
OlderAll(ages) ==
    LET left == Cardinality({i \in DOMAIN ages : ages[i] >= Window})
    IN  [i \in 1 .. Len(ages) - left |-> ages[i + left] + 1]

OlderState(s) ==
    [restarts   |-> OlderAll(s.restarts),
     last_start |-> IF s.last_start > Grace THEN Grace + 1 ELSE s.last_start + 1,
     cooldown   |-> IF s.cooldown = 0 THEN 0 ELSE s.cooldown - 1]

Tick ==
    /\ saved' = OlderState(saved)
    /\ st' = OlderState(st)
    /\ starts' = OlderAll(starts)
    /\ UNCHANGED <<procs, sick, step, rows, rival, cuts, blanks>>

-----------------------------------------------------------------------------
Init ==
    /\ procs = {}
    /\ sick \in BOOLEAN
    /\ saved = Fresh
    /\ st = Fresh
    /\ step = "idle"
    /\ rows = {}
    /\ rival = FALSE
    /\ starts = <<>>
    /\ cuts = 0
    /\ blanks = 0

Supervise ==
    \/ LoadState
    \/ ListProcesses
    \/ KillDuplicates
    \/ Refrain
    \/ KillUnhealthy
    \/ Start
    \/ SaveState

Environment ==
    \/ \E i \in Ids : Spawn(i) \/ DaemonDies(i) \/ WrapperDies(i)
    \/ HealthChanges
    \/ RivalLooks
    \/ RivalStarts

Mishap == LoadBlank \/ SaveTorn \/ CycleRaises

Next == Supervise \/ Mishap \/ Environment \/ Tick

Spec == Init /\ [][Next]_vars

\* The supervisor cycles for ever and time passes; nobody else need do anything.
FairSpec == Spec /\ WF_vars(Supervise) /\ WF_vars(Tick)

-----------------------------------------------------------------------------
(* Properties.                                                             *)

TypeOK ==
    /\ procs \subseteq Process /\ rows \subseteq Process
    /\ sick \in BOOLEAN /\ rival \in BOOLEAN
    /\ saved \in ServiceState /\ st \in ServiceState
    /\ Len(saved.restarts) <= MaxRestarts /\ Len(st.restarts) <= MaxRestarts
    /\ step \in {"idle", "list", "dedup", "restart", "heal", "start", "save"}
    /\ starts \in Seq(0 .. Window)
    /\ cuts \in 0 .. MaxCuts /\ blanks \in 0 .. MaxBlanks

\* The starts that the supervisor may have forgotten: a cycle cut short forgets the
\* one it made, a blank state file all that it can hold.
Forgotten == cuts + blanks * MaxRestarts

\* However the service dies, is killed, falls ill or is doubled, no window of
\* RESTART_WINDOW_SEC sees more starts by the supervisor than allowed, but for
\* those it forgot.
StartBudget == Len(starts) <= MaxRestarts + Forgotten

\* A service that the supervisor started is left alone by the health checks for
\* STARTUP_GRACE_SEC: when it is about to be killed as unhealthy, every start that
\* was not forgotten is older.
GraceHolds ==
    step = "heal" =>
        Cardinality({i \in DOMAIN starts : starts[i] <= Grace}) <= Forgotten

\* The inductive invariant behind both.  A list of ages covers another but for c
\* when, counted from the newest, each age of the other after the first c has its
\* like, at most as old, in the list.
Covers(known, ages, c) ==
    \A k \in c .. Len(ages) : k < Len(ages) =>
        /\ k - c < Len(known)
        /\ known[Len(known) - (k - c)] <= ages[Len(ages) - k]

OldestFirst(ages) == \A i, j \in DOMAIN ages : i <= j => ages[i] >= ages[j]

\* No known start is younger than the last one.
LastStartIsLast(s) == \A i \in DOMAIN s.restarts : s.restarts[i] >= s.last_start

\* The state a cycle works on covers all starts but the forgotten ones, and so does
\* the state file, which misses at most the start of the cycle about to save it.
SupervisorInv ==
    /\ TypeOK
    /\ OldestFirst(starts) /\ OldestFirst(saved.restarts) /\ OldestFirst(st.restarts)
    /\ LastStartIsLast(saved) /\ LastStartIsLast(st)
    /\ step # "idle" => Covers(st.restarts, starts, Forgotten)
    /\ step # "save" => Covers(saved.restarts, starts, Forgotten)
    /\ step = "save" => Covers(saved.restarts, starts, Forgotten + 1)
    /\ step = "start" => Len(st.restarts) < MaxRestarts
    /\ step = "heal" => st.last_start > Grace

\* A supervised service is not left without any process for ever, though a
\* duplicate is killed also when the budget does not allow a new start.
ComesBack == []<>(procs # {})

\* "Service is alive but logically unhealthy: restart, but not permanently
\* disable": a service that stays ill is started again and again.
KeepsTrying == []<>(~sick \/ \E i \in DOMAIN starts : starts[i] = 0)

\* "Multiple wrapper loops are real duplication": they do not last.
DuplicatesEnd == []<>(Cardinality(Of("wrapper")) <= 1)
=============================================================================
