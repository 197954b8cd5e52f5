----------------------------- MODULE SafetyControl -----------------------------
(***************************************************************************)
(* The circuit breakers and the emergency stop (engine/circuit_breakers.py,*)
(* engine/emergency_stop.py), what they persist (db/repo.py) and how a     *)
(* restart brings them back (app.start).                                   *)
(*                                                                         *)
(* The manager keeps its lock across the database write, so a call is      *)
(* three steps: it waits for the lock, changes the breakers and commits.   *)
(* Loops trip and reset breakers of their own; operators, through the API, *)
(* reset breakers and activate or release the stop.  A crash loses what is *)
(* in memory and the transaction in progress.                              *)
(***************************************************************************)
EXTENDS FiniteSets, Integers

CONSTANTS
    Breakers,       \* the keys "scope|reason" that can be active
    Manual,         \* the emergency stop's own: global|MANUAL
    VenueBreakers,  \* those the health check resets for each connected venue
    Loops,          \* background tasks and executions that trip and reset
    Operators,      \* API requests being served
    VenuesAtBoot,   \* an enabled venue may connect while the application starts
    SafetyFaults          \* "crash", "db_error"

ASSUME BreakerAssumption == Manual \in Breakers /\ VenueBreakers \subseteq Breakers \ {Manual}
ASSUME CallerAssumption  == Loops \cap Operators = {}
ASSUME BootAssumption    == VenuesAtBoot \in BOOLEAN

VARIABLES
    stage,      \* "rebuild", "restore", "load": where start() is; "up"
    active,     \* CircuitBreakerManager._active
    busy,       \* the callers that hold the manager's lock
    call,       \* what each caller is doing
    stored,     \* the circuit breaker rows that are active in the database
    flag,       \* ctx.emergency_stop
    doc,        \* the settings document "emergency_stop"
    owed,       \* history: breakers committed by a trip and not reset since
    engaged,    \* history: activate() has returned and no release was asked for
    missed,     \* history: the last write of the breakers failed
    erased      \* history: of those owed, what a start wrote over before reading it

memory == <<active, busy, call, flag>>
safetyVars == <<stage, memory, stored, doc, owed, engaged, missed, erased>>

Callers == Loops \cup Operators
Nothing == [op |-> "none", at |-> "idle", arg |-> {}, snap |-> {}]

\* What reset(reason, scope) can name: one breaker, or all of them.
Named == {{b} : b \in Breakers} \cup {Breakers}

--------------------------------------------------------------------------------
(* The calls.  "op" is the call, "arg" the breakers it trips or resets.    *)

Call(c, op, arg) ==
    /\ stage = "up" /\ call[c].at = "idle"
    /\ call' = [call EXCEPT ![c] = [Nothing EXCEPT !.op = op, !.at = "lock", !.arg = arg]]
    /\ UNCHANGED <<stage, active, busy, stored, doc, owed, missed, erased>>

Trip(c) == \E b \in Breakers \ {Manual} : Call(c, "trip", {b}) /\ UNCHANGED <<flag, engaged>>

Reset(c) ==
    /\ \E bs \in IF c \in Operators THEN Named ELSE {{b} : b \in VenueBreakers} :
          Call(c, "reset", bs)
    /\ UNCHANGED <<flag, engaged>>

Activate(c) == Call(c, "activate", {Manual}) /\ flag' = TRUE /\ UNCHANGED engaged

ReleaseStop(c) == Call(c, "release", {Manual}) /\ flag' = FALSE /\ engaged' = FALSE

Adds(c) == call[c].op \in {"trip", "activate"}

\* The lock is taken and the breakers change; _on_change is given the list.
LockIgnored(c) == TRUE         \* mutant: the lock is not held across the write
LockFree(c) == busy = {}

Change(c) ==
    /\ call[c].at = "lock" /\ LockFree(c)
    /\ busy' = busy \cup {c}
    /\ active' = IF Adds(c) THEN active \cup call[c].arg ELSE active \ call[c].arg
    /\ owed' = IF Adds(c) THEN owed ELSE owed \ call[c].arg
    /\ call' = [call EXCEPT ![c].at = "save", ![c].snap = active']
    /\ UNCHANGED <<stage, stored, flag, doc, engaged, missed, erased>>

\* save_breakers: one transaction deactivates every row and adds the list.
\* activate() goes on to cancel orders and reconcile, release() to its audit.
StoredAdded(c) == stored \cup call[c].snap      \* mutant: old rows stay active
Stored(c) == call[c].snap

Commit(c) ==
    /\ call[c].at = "save"
    /\ stored' = Stored(c)
    /\ owed' = IF Adds(c) THEN owed \cup call[c].arg ELSE owed
    /\ busy' = busy \ {c}
    /\ erased' = erased \ call[c].snap
    /\ missed' = FALSE
    /\ call' = [call EXCEPT ![c] = IF @.op \in {"activate", "release"}
                                     THEN [@ EXCEPT !.at = "doc", !.snap = {}] ELSE Nothing]
    /\ UNCHANGED <<stage, active, flag, doc, engaged>>

\* The last write of activate() and of release().
SaveDoc(c) ==
    /\ call[c].at = "doc"
    /\ doc' = (call[c].op = "activate")
    /\ engaged' = IF call[c].op = "activate" THEN TRUE ELSE engaged
    /\ call' = [call EXCEPT ![c] = Nothing]
    /\ UNCHANGED <<stage, active, busy, stored, flag, owed, missed, erased>>

\* A write fails: the transaction is rolled back and the call raises.
WriteFails(c) ==
    /\ "db_error" \in SafetyFaults /\ call[c].at \in {"save", "doc"}
    /\ busy' = busy \ {c}
    /\ missed' = (missed \/ call[c].at = "save")
    /\ call' = [call EXCEPT ![c] = Nothing]
    /\ UNCHANGED <<stage, active, stored, flag, doc, owed, engaged, erased>>

--------------------------------------------------------------------------------
(* The end of the process, and restart.                                    *)

ProcessDies ==
    /\ "crash" \in SafetyFaults
    /\ stage' = "rebuild"
    /\ active' = {} /\ busy' = {} /\ flag' = FALSE
    /\ call' = [c \in Callers |-> Nothing]
    /\ UNCHANGED <<stored, doc, owed, engaged, missed, erased>>

\* The health check leaves the breakers bs, in memory and in the database: what was
\* stored by an earlier process is written over.
Erases(bs) ==
    /\ active' = bs /\ stored' = bs
    /\ owed' = owed \ VenueBreakers
    /\ erased' = (erased \ VenueBreakers) \cup owed'

\* rebuild_connectors ends with a health check of every connected venue, if any
\* connects: it trips or resets the venue's breakers, and each call saves the list.
BootRebuild ==
    /\ stage = "rebuild"
    /\ \/ VenuesAtBoot /\ \E bs \in SUBSET VenueBreakers : Erases(bs)
       \/ UNCHANGED <<active, stored, owed, erased>>
    /\ stage' = "restore"
    /\ UNCHANGED <<busy, call, flag, doc, engaged, missed>>

\* EmergencyStop.restore reads the document.
RestoredNever == flag          \* mutant: the document is not read
Restored == flag \/ doc

RestoreStop ==
    /\ stage = "restore"
    /\ flag' = Restored
    /\ stage' = "load"
    /\ UNCHANGED <<active, busy, call, stored, doc, owed, engaged, missed, erased>>

\* load_active_breakers and CircuitBreakerManager.restore.
ReloadedNothing == active      \* mutant: the rows are not read back
Reloaded == active \cup stored

LoadBreakers ==
    /\ stage = "load"
    /\ active' = Reloaded
    /\ stage' = "up"
    /\ missed' = FALSE
    /\ UNCHANGED <<busy, call, stored, flag, doc, owed, engaged, erased>>

Boot == BootRebuild \/ RestoreStop \/ LoadBreakers

--------------------------------------------------------------------------------

SafetyInit ==
    /\ stage = "rebuild"
    /\ active = {} /\ busy = {}
    /\ call = [c \in Callers |-> Nothing]
    /\ stored = {}
    /\ flag = FALSE /\ doc = FALSE
    /\ owed = {} /\ engaged = FALSE /\ missed = FALSE /\ erased = {}

Request(c) == Reset(c) \/ (c \in Loops /\ Trip(c)) \/ (c \in Operators /\ (Activate(c) \/ ReleaseStop(c)))

Serve(c) == Change(c) \/ Commit(c) \/ SaveDoc(c) \/ WriteFails(c)

SafetyNext ==
    \/ \E c \in Callers : Request(c) \/ Serve(c)
    \/ ProcessDies
    \/ Boot

SafetySpec == SafetyInit /\ [][SafetyNext]_safetyVars

--------------------------------------------------------------------------------
(* What the safety controls promise.                                       *)

Calls == [op  : {"none", "trip", "reset", "activate", "release"},
          at  : {"idle", "lock", "save", "doc"},
          arg : SUBSET Breakers, snap : SUBSET Breakers]

\* Every variable keeps its shape, through crashes and restarts too, and the
\* manager's lock never has two holders.
SafetyTypeOK ==
    /\ stage \in {"rebuild", "restore", "load", "up"}
    /\ active \subseteq Breakers /\ stored \subseteq Breakers /\ {owed, erased} \subseteq SUBSET Breakers
    /\ busy \subseteq Callers /\ \A c, d \in busy : c = d
    /\ call \in [Callers -> Calls]
    /\ flag \in BOOLEAN /\ doc \in BOOLEAN /\ engaged \in BOOLEAN /\ missed \in BOOLEAN

\* Whenever no write is in progress the database holds exactly the breakers in
\* memory, however trips and resets of different tasks interleave, and after a
\* failed write again from the next one on: a slower write never overwrites a
\* later one (the lock kept across _on_change).
PersistedWhenQuiet == stage = "up" /\ busy = {} /\ ~missed => stored = active

\* A breaker whose trip was committed is active whenever the system is up,
\* until it is reset (docs/ARCHITECTURE.md: a restart restores the active
\* circuit breakers).  A start that connects a venue breaks it.
TrippedStaysTripped == stage = "up" => owed \subseteq active

\* Nothing else breaks it: crashes at any moment, failed writes and interleaved
\* calls lose no committed trip, a start that connects no venue does not, and what
\* a start wrote over is safe again once a later list with it is committed (app.start).
OnlyStartsErase == stage = "up" => owed \ erased \subseteq active

\* Once activate() has returned, the stop holds whenever the system is up,
\* through crashes and restarts, until a release is asked for.
StopSurvives == stage = "up" /\ engaged => flag
================================================================================
