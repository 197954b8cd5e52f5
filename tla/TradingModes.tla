------------------------------ MODULE TradingModes ------------------------------
(***************************************************************************)
(* The trading mode (app.py): settings updates, the live activation, the   *)
(* rebuild of the connectors for the mode in force, restarts, and the      *)
(* trades that go on meanwhile (engine/execution/executor.py).             *)
(*                                                                         *)
(* The application runs on one event loop: a request or a trade is a       *)
(* sequence of steps, cut where it awaits the database or a venue.  The    *)
(* mode changes in one step and the connectors follow in a later one.      *)
(***************************************************************************)
EXTENDS Sequences

CONSTANTS
    UserModes,  \* the modes that settings updates ask for, besides LIVE
    Toggles,    \* the shadow mode and auto-execute they ask for
    TestRoute,  \* live.small_test_route names the route of the trades
    Requests,   \* API requests being served
    Trades,     \* tasks that execute trades
    Faults      \* "restart", "db_error"

Simulated == {"SIMULATION", "PAPER"}
Real      == {"TESTNET", "LIVE"}
Modes     == Simulated \cup Real

ASSUME ModeAssumption    == UserModes \subseteq Modes \ {"LIVE"}
ASSUME ToggleAssumption  == Toggles \subseteq [shadow : BOOLEAN, auto : BOOLEAN]
ASSUME RouteAssumption   == TestRoute \in BOOLEAN
ASSUME RequestAssumption == Requests # {}

VARIABLES
    allowed,   \* env.live_trading_allowed, fixed when the process starts
    settings,  \* self.settings, which ctx.settings is
    saved,     \* the settings document "app" of the database
    venues,    \* the mode ctx.connectors were built for
    executor,  \* the mode ctx.paper_executor simulates, "none" without one
    queue,     \* the rebuild lock: its holder and those that wait, in order
    request,   \* what each request is doing
    trade,     \* what each task is doing
    adrift     \* history: a rebuild failed, or a request that owes none set the mode

control == <<allowed, settings, saved, adrift>>
built   == <<venues, executor, queue>>
vars    == <<control, built, request, trade>>

Settings ==
    [mode : Modes, activated : BOOLEAN, stage : {"small_test", "full"},
     shadow : BOOLEAN, auto : BOOLEAN]

\* next: the document the request computed; rebuild: it is structural.
Work == [at : {"dump", "save"}, next : Settings, rebuild : BOOLEAN]
Wait == [at : {"idle", "list", "queue", "connect"}]
Idle == [at |-> "idle"]

\* mode: TradeRecord.mode; venues: the mode its venue objects were built for;
\* sent: an order went to a venue that the credentials of that mode open.
Quoting   == [at : {"quote"}, mode : Modes]
Execution == [at : {"submit", "sent"}, mode : Modes, venues : Modes]
NoTrade   == [at |-> "idle"]

TypeOK ==
    /\ allowed \in BOOLEAN /\ adrift \in BOOLEAN
    /\ settings \in Settings /\ saved \in Settings
    /\ venues \in Modes /\ executor \in Simulated \cup {"none"}
    /\ queue \in Seq(Requests)
    /\ request \in [Requests -> Work \cup Wait]
    /\ trade \in [Trades -> Quoting \cup Execution \cup {NoTrade}]

--------------------------------------------------------------------------------
(* Settings.                                                               *)

\* default_settings for FEDR_DEFAULT_MODE, which is never LIVE.
Default(m) == [mode |-> m, activated |-> FALSE, stage |-> "small_test", shadow |-> FALSE, auto |-> TRUE]

\* Mutant: the stored activation is enough, whatever the environment says.
RevertedUnlessActivated(doc, env) ==
    IF doc.mode = "LIVE" /\ ~doc.activated
    THEN [doc EXCEPT !.mode = "PAPER"]
    ELSE doc

\* What start() makes of the stored document.
Reverted(doc, env) ==
    IF doc.mode = "LIVE" /\ ~(doc.activated /\ env)
    THEN [doc EXCEPT !.mode = "PAPER", !.activated = FALSE]
    ELSE doc

ActivationMissing(m) == m = "LIVE" /\ ~(settings.activated /\ allowed)

\* Mutant: leaving LIVE keeps the activation.
PatchedStillActivated(m, toggle) ==
    [settings EXCEPT !.mode = m, !.shadow = toggle.shadow, !.auto = toggle.auto]

\* The current settings with a patch merged into them.
Patched(m, toggle) ==
    [settings EXCEPT !.mode = m, !.shadow = toggle.shadow, !.auto = toggle.auto,
                     !.activated = @ /\ ~(settings.mode = "LIVE" /\ m # "LIVE")]

\* Mutant: a change of the mode alone is not structural.
StructuralWithoutMode(m, other) == other

\* The patch calls for a rebuild: the mode changes, or the pairs, the DEXes, the
\* strategies or the starting balances do (other).
Structural(m, other) == other \/ m # settings.mode

\* Mutant: the stage an earlier activation was promoted to is kept.
ActivatedAtItsStage ==
    [settings EXCEPT !.mode = "LIVE", !.activated = TRUE, !.shadow = TRUE, !.auto = FALSE]

Activated ==
    [settings EXCEPT !.mode = "LIVE", !.activated = TRUE, !.stage = "small_test",
                     !.shadow = TRUE, !.auto = FALSE]

At(r, stage) == request[r].at = stage
Goes(r, stage) == request' = [request EXCEPT ![r] = [at |-> stage]]
Ends(r)        == Goes(r, "idle")

\* Mutant: every rebuild gets a paper executor.
SimulatorAlways(m) == m

\* The mode that the paper executor simulates once the venues of m connected.
SimulatorOf(m) == IF m \in Simulated THEN m ELSE "none"

--------------------------------------------------------------------------------
(* Requests.                                                               *)

\* update_settings, and deactivate_live, which asks for PAPER.  With a ledger
\* in force the paper balances are saved before the new settings are assigned.
\* Without an executor the database may be asked too (looks): for balances saved
\* under new starting ones, or of a ledger that a rebuild has just made.
Update(r) ==
    /\ At(r, "idle")
    /\ \E m \in UserModes \cup {"LIVE"}, toggle \in Toggles, other, looks \in BOOLEAN :
         LET new  == Patched(m, toggle)
             work == [at |-> "save", next |-> new, rebuild |-> Structural(m, other)]
         IN  /\ ~ActivationMissing(m)
             /\ looks => m = settings.mode \/ venues \in Simulated
             /\ IF settings.mode \in Simulated /\ (executor # "none" \/ looks)
                THEN /\ request' = [request EXCEPT ![r] = [work EXCEPT !.at = "dump"]]
                     /\ settings' = settings
                ELSE /\ request' = [request EXCEPT ![r] = work]
                     /\ settings' = new
    /\ UNCHANGED <<allowed, saved, adrift, built, trade>>

\* The database has answered: the settings computed before it are assigned.
Assign(r) ==
    /\ At(r, "dump")
    /\ settings' = request[r].next
    /\ adrift' = (adrift \/ (~request[r].rebuild /\ settings'.mode # settings.mode))
    /\ request' = [request EXCEPT ![r].at = "save"]
    /\ UNCHANGED <<allowed, saved, built, trade>>

\* activate_live, from the end of live_readiness on.
Activate(r) ==
    /\ At(r, "idle") /\ allowed
    /\ settings' = Activated
    /\ request' = [request EXCEPT ![r] = [at |-> "save", next |-> Activated, rebuild |-> TRUE]]
    /\ UNCHANGED <<allowed, saved, adrift, built, trade>>

\* activate_full_live: the guards, then the list of the live trades is awaited.
Promote(r) ==
    /\ At(r, "idle") /\ allowed
    /\ settings.mode = "LIVE" /\ settings.activated /\ settings.stage # "full"
    /\ Goes(r, "list")
    /\ UNCHANGED <<control, built, trade>>

\* The list is there: the stage of the settings now in force is raised.
Confirm(r) ==
    /\ At(r, "list")
    /\ settings' = [settings EXCEPT !.stage = "full"]
    /\ request' = [request EXCEPT ![r] = [at |-> "save", next |-> settings', rebuild |-> FALSE]]
    /\ UNCHANGED <<allowed, saved, adrift, built, trade>>

\* No filled trade is on record and the request does not waive it.
Decline(r) ==
    /\ At(r, "list")
    /\ Ends(r)
    /\ UNCHANGED <<control, built, trade>>

\* save_settings_doc and audit return.
Save(r) ==
    /\ At(r, "save")
    /\ saved' = request[r].next
    /\ IF request[r].rebuild
       THEN Goes(r, "queue") /\ queue' = Append(queue, r)
       ELSE Ends(r) /\ UNCHANGED queue
    /\ UNCHANGED <<allowed, settings, adrift, venues, executor, trade>>

\* The database refuses: the request fails, the settings stay assigned.
SaveFails(r) ==
    /\ "db_error" \in Faults
    /\ At(r, "save")
    /\ adrift' = (adrift \/ request[r].rebuild)
    /\ Ends(r)
    /\ UNCHANGED <<allowed, settings, saved, built, trade>>

--------------------------------------------------------------------------------
(* rebuild_connectors.                                                     *)

\* Requests that only rebuild: an exchange account was added, changed, removed.
Account(r) ==
    /\ At(r, "idle")
    /\ Goes(r, "queue")
    /\ queue' = Append(queue, r)
    /\ UNCHANGED <<control, venues, executor, trade>>

\* The holder of the lock has closed the old connectors: it builds those of the
\* mode now in force and has them connect.
Build(r) ==
    /\ At(r, "queue") /\ queue # <<>> /\ Head(queue) = r
    /\ venues' = settings.mode
    /\ executor' = "none"
    /\ Goes(r, "connect")
    /\ UNCHANGED <<control, queue, trade>>

\* Mutant: the lock is not released.
ConnectedHolding(r) ==
    /\ At(r, "connect")
    /\ executor' = SimulatorOf(venues)
    /\ Ends(r)
    /\ UNCHANGED <<control, venues, queue, trade>>

\* All have connected or failed: the simulator follows and the lock is free.
Connected(r) ==
    /\ At(r, "connect")
    /\ executor' = SimulatorOf(venues)
    /\ queue' = Tail(queue)
    /\ Ends(r)
    /\ UNCHANGED <<control, venues, trade>>

\* The saved balances cannot be read, or new ones saved: no simulator follows.
ConnectFails(r) ==
    /\ "db_error" \in Faults /\ venues \in Simulated
    /\ At(r, "connect")
    /\ queue' = Tail(queue)
    /\ adrift' = TRUE
    /\ Ends(r)
    /\ UNCHANGED <<allowed, settings, saved, venues, executor, trade>>

--------------------------------------------------------------------------------
(* Trades.                                                                 *)

\* execute(), up to the quotes it awaits: the preconditions on the mode.
Start(t) ==
    /\ trade[t].at = "idle"
    /\ settings.mode = "LIVE" => settings.activated
    /\ settings.mode \in Real /\ executor = "none" => venues \in Real
    /\ ~settings.shadow
    /\ trade' = [trade EXCEPT ![t] = [at |-> "quote", mode |-> settings.mode]]
    /\ UNCHANGED <<control, built, request>>

\* The quotes arrive: the risk engine has a say on live trades, the venues of
\* the route are looked up and funds reserved.
Reserve(t) ==
    /\ trade[t].at = "quote"
    /\ settings.mode = "LIVE" => settings.stage = "full" \/ TestRoute
    /\ trade' = [trade EXCEPT ![t] = [at |-> "submit", mode |-> @.mode, venues |-> venues]]
    /\ UNCHANGED <<control, built, request>>

\* _submit simulates the order if the mode now in force is simulated and has a
\* simulator.
Simulates == settings.mode \in Simulated /\ executor # "none"

\* Otherwise the venue places it; one without credentials refuses.
Submit(t) ==
    /\ trade[t].at = "submit" /\ ~Simulates /\ trade[t].venues \in Real
    /\ trade' = [trade EXCEPT ![t].at = "sent"]
    /\ UNCHANGED <<control, built, request>>

\* The trade ends: after its orders, simulated or real, or when the re-validation,
\* the reservation or a venue without credentials refuses.
Finish(t) ==
    /\ trade[t].at # "idle"
    /\ trade' = [trade EXCEPT ![t] = NoTrade]
    /\ UNCHANGED <<control, built, request>>

--------------------------------------------------------------------------------
(* The process.                                                            *)

\* It ends, at any step, and start() runs: no request is served and no trade
\* starts before it is over.
Restart ==
    /\ "restart" \in Faults
    /\ allowed' \in BOOLEAN
    /\ settings' = Reverted(saved, allowed')
    /\ saved' = settings'
    /\ venues' = settings'.mode
    /\ executor' = SimulatorOf(settings'.mode)
    /\ queue' = <<>>
    /\ request' = [r \in Requests |-> Idle]
    /\ trade' = [t \in Trades |-> NoTrade]
    /\ adrift' = FALSE

Init ==
    /\ allowed \in BOOLEAN
    /\ settings \in {Default(m) : m \in UserModes}
    /\ saved = settings
    /\ venues = settings.mode
    /\ executor = SimulatorOf(settings.mode)
    /\ queue = <<>>
    /\ request = [r \in Requests |-> Idle]
    /\ trade = [t \in Trades |-> NoTrade]
    /\ adrift = FALSE

\* What the loop runs on with once a request was accepted.
Proceed(r) == Assign(r) \/ Confirm(r) \/ Decline(r) \/ Save(r) \/ Build(r) \/ Connected(r)

Serve(r)   ==
    \/ Update(r) \/ Activate(r) \/ Promote(r) \/ Account(r)
    \/ Proceed(r) \/ SaveFails(r) \/ ConnectFails(r)
Execute(t) == Start(t) \/ Reserve(t) \/ Submit(t) \/ Finish(t)

Next ==
    \/ \E r \in Requests : Serve(r)
    \/ \E t \in Trades : Execute(t)
    \/ Restart

Spec == Init /\ [][Next]_vars

\* The event loop runs every task that can run; awaited calls return.
FairSpec == Spec /\ \A r \in Requests : WF_vars(Proceed(r))
--------------------------------------------------------------------------------
(* Properties.                                                             *)

\* LIVE is in force, in memory or in the document a restart reads, exactly when
\* the live trading is activated, and never without the environment's consent:
\* no overlap of updates, activations, deactivations and restarts gets there
\* around the activation or leaves an activation behind.
LiveIsEarned ==
    /\ settings.mode = "LIVE" <=> settings.activated
    /\ saved.mode = "LIVE" <=> saved.activated
    /\ settings.mode = "LIVE" => allowed

\* However requests overlap, the mode turns LIVE only as the small live test, in
\* shadow mode and with auto-execute off, unless a restart finds it LIVE.
EntersLiveSafely ==
    [][settings.mode # "LIVE" /\ settings'.mode = "LIVE" =>
         \/ settings'.stage = "small_test" /\ settings'.shadow /\ ~settings'.auto
         \/ settings' = saved]_vars

\* No order goes to a live venue from a process whose environment forbids live
\* trading, whatever the mode does between a trade's start and its orders.
NoLiveOrderUnlessAllowed ==
    \A t \in Trades : trade[t].at = "sent" /\ trade[t].venues = "LIVE" => allowed

Owes(r) ==
    \/ request[r].at \in {"queue", "connect"}
    \/ request[r].at = "save" /\ request[r].rebuild

\* When no rebuild is owed, the venues and the simulator are those of the mode in
\* force, whatever the order in which updates, activations and account changes
\* were answered: only a failing database or an update computed before another
\* request changed the mode (adrift) leaves them apart.
BuiltForMode ==
    ~adrift /\ (\A r \in Requests : ~Owes(r)) =>
        venues = settings.mode /\ executor = SimulatorOf(settings.mode)

\* The rebuild lock is passed on: every request that was accepted ends.
RequestEnds == \A r \in Requests : request[r].at # "idle" ~> request[r].at = "idle"

\* A trade recorded in SIMULATION or PAPER sends no order to a venue that holds
\* credentials (core/enums.py: "simulated balances and execution").
SimulatedTradesStaySimulated ==
    \A t \in Trades : trade[t].at = "sent" => trade[t].mode \notin Simulated
================================================================================
