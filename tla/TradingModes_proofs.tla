-------------------------- MODULE TradingModes_proofs --------------------------
(***************************************************************************)
(* What no overlap of requests, trades and restarts can break about the    *)
(* trading mode, for any modes, requests and trades.                       *)
(***************************************************************************)
EXTENDS TradingModes, TLAPS

--------------------------------------------------------------------------------
(* The inductive invariant, part by part.                                  *)

\* A connected rebuild is the head of the lock's queue.
Locked ==
    \A r \in Requests : request[r].at = "connect" => queue # <<>> /\ Head(queue) = r

\* A document is LIVE exactly when it is activated.
Earned(doc) == doc.mode = "LIVE" <=> doc.activated

\* So are all documents; none that awaits its assignment is LIVE; live venues,
\* like the live mode, need the environment's consent.
Lawful ==
    /\ Earned(settings) /\ Earned(saved)
    /\ \A r \in Requests : /\ request[r].at \in {"dump", "save"} => Earned(request[r].next)
                           /\ request[r].at = "dump" => request[r].next.mode # "LIVE"
    /\ settings.mode = "LIVE" \/ venues = "LIVE" => allowed
    /\ \A t \in Trades : trade[t].at \in {"submit", "sent"} /\ trade[t].venues = "LIVE" => allowed

\* The venues are those of the mode once every rebuild owed has built them, the
\* simulator is that of the venues once they have connected.
Fitting ==
    /\ ~adrift /\ (\A r \in Requests : Owes(r) => request[r].at = "connect") => venues = settings.mode
    /\ ~adrift /\ (\A r \in Requests : request[r].at # "connect") => executor = SimulatorOf(venues)

IInv == TypeOK /\ Locked /\ Lawful /\ Fitting

--------------------------------------------------------------------------------
(* Types.                                                                  *)

\* What a request that carries a document knows of it, by its stage.
LEMMA RequestFacts ==
    ASSUME TypeOK, NEW r \in Requests
    PROVE  /\ request[r] \in Work \cup Wait
           /\ request[r].at \in {"dump", "save"} =>
                request[r] \in Work /\ request[r].next \in Settings /\ request[r].rebuild \in BOOLEAN
<1>1. request[r] \in Work \cup Wait
  BY DEF TypeOK
<1>2. request[r] \in Wait => request[r].at \notin {"dump", "save"}
  BY DEF Wait
<1> QED BY <1>1, <1>2 DEF Work

\* Moving a request on to a stage without a document keeps requests well typed.
LEMMA GoesType ==
    ASSUME TypeOK, NEW r \in Requests, NEW stage \in {"idle", "list", "queue", "connect"}, Goes(r, stage)
    PROVE  request' \in [Requests -> Work \cup Wait]
<1>1. [at |-> stage] \in Wait
  BY DEF Wait
<1> QED BY <1>1 DEF Goes, TypeOK

\* Giving a request a document to save keeps requests well typed.
LEMMA WorkType ==
    ASSUME TypeOK, NEW r \in Requests, NEW work \in Work, request' = [request EXCEPT ![r] = work]
    PROVE  request' \in [Requests -> Work \cup Wait]
  BY DEF TypeOK

\* Patching, activating and reverting settings yields settings.
LEMMA DocumentTypes ==
    ASSUME settings \in Settings, allowed \in BOOLEAN
    PROVE  /\ \A m \in Modes, toggle \in [shadow : BOOLEAN, auto : BOOLEAN] : Patched(m, toggle) \in Settings
           /\ Activated \in Settings
           /\ [settings EXCEPT !.stage = "full"] \in Settings
           /\ \A doc \in Settings, env \in BOOLEAN : Reverted(doc, env) \in Settings
  BY DEF Settings, Patched, Activated, Reverted, Modes, Simulated, Real

\* The mode that is simulated is one that can be, or none.
LEMMA SimulatorType == \A m \in Modes : SimulatorOf(m) \in Simulated \cup {"none"}
  BY DEF SimulatorOf

\* Every step keeps the state well typed.
LEMMA TypeStep == TypeOK /\ Locked /\ [Next]_vars => TypeOK'
<1> SUFFICES ASSUME TypeOK, Locked, [Next]_vars PROVE TypeOK'
  OBVIOUS
<1> USE DEF control, built
<1>0. /\ settings \in Settings /\ saved \in Settings /\ allowed \in BOOLEAN /\ adrift \in BOOLEAN
      /\ venues \in Modes /\ executor \in Simulated \cup {"none"} /\ queue \in Seq(Requests)
      /\ settings.mode \in Modes
  BY DEF TypeOK, Settings
<1>1. ASSUME NEW r \in Requests, Update(r) PROVE TypeOK'
  <2>1. PICK m \in UserModes \cup {"LIVE"}, toggle \in Toggles, other \in BOOLEAN :
          \E at \in {"dump", "save"} :
             /\ request' = [request EXCEPT ![r] =
                              [at |-> at, next |-> Patched(m, toggle), rebuild |-> Structural(m, other)]]
             /\ settings' \in {settings, Patched(m, toggle)}
    <3>1. PICK m \in UserModes \cup {"LIVE"}, toggle \in Toggles, other, looks \in BOOLEAN :
             LET new  == Patched(m, toggle)
                 work == [at |-> "save", next |-> new, rebuild |-> Structural(m, other)]
             IN  IF settings.mode \in Simulated /\ (executor # "none" \/ looks)
                 THEN /\ request' = [request EXCEPT ![r] = [work EXCEPT !.at = "dump"]]
                      /\ settings' = settings
                 ELSE /\ request' = [request EXCEPT ![r] = work]
                      /\ settings' = new
      BY <1>1 DEF Update
    <3> QED BY <3>1
  <2>2. Patched(m, toggle) \in Settings /\ Structural(m, other) \in BOOLEAN
    BY <1>0, DocumentTypes, ModeAssumption, ToggleAssumption DEF Modes, Real, Structural
  <2>3. request' \in [Requests -> Work \cup Wait]
    <3>1. PICK at \in {"dump", "save"} :
             request' = [request EXCEPT ![r] =
                           [at |-> at, next |-> Patched(m, toggle), rebuild |-> Structural(m, other)]]
      BY <2>1
    <3>2. [at |-> at, next |-> Patched(m, toggle), rebuild |-> Structural(m, other)] \in Work
      BY <2>2 DEF Work
    <3> QED BY <3>1, <3>2, WorkType
  <2> QED BY <1>0, <1>1, <2>1, <2>2, <2>3 DEF Update, TypeOK
<1>2. ASSUME NEW r \in Requests, Assign(r) PROVE TypeOK'
  <2>1. request[r] \in Work /\ request[r].next \in Settings /\ request[r].rebuild \in BOOLEAN
    BY <1>2, RequestFacts DEF Assign, At
  <2>2. [request[r] EXCEPT !.at = "save"] \in Work
    BY <2>1 DEF Work
  <2>3. request' = [request EXCEPT ![r] = [request[r] EXCEPT !.at = "save"]]
    BY <1>2 DEF Assign
  <2>4. request' \in [Requests -> Work \cup Wait]
    BY <2>2, <2>3, WorkType
  <2> QED BY <1>0, <1>2, <2>1, <2>4 DEF Assign, TypeOK
<1>3. ASSUME NEW r \in Requests, Activate(r) PROVE TypeOK'
  <2>1. Activated \in Settings
    BY <1>0, DocumentTypes
  <2>2. [at |-> "save", next |-> Activated, rebuild |-> TRUE] \in Work
    BY <2>1 DEF Work
  <2>3. request' \in [Requests -> Work \cup Wait]
    BY <1>3, <2>2, WorkType DEF Activate
  <2> QED BY <1>0, <1>3, <2>1, <2>3 DEF Activate, TypeOK
<1>4. ASSUME NEW r \in Requests, Promote(r) \/ Decline(r) PROVE TypeOK'
  <2>1. request' \in [Requests -> Work \cup Wait]
    BY <1>4, GoesType DEF Promote, Decline, Ends
  <2> QED BY <1>4, <2>1 DEF Promote, Decline, TypeOK
<1>5. ASSUME NEW r \in Requests, Confirm(r) PROVE TypeOK'
  <2>1. settings' \in Settings
    BY <1>0, <1>5, DocumentTypes DEF Confirm
  <2>2. [at |-> "save", next |-> settings', rebuild |-> FALSE] \in Work
    BY <2>1 DEF Work
  <2>3. request' \in [Requests -> Work \cup Wait]
    BY <1>5, <2>2, WorkType DEF Confirm
  <2> QED BY <1>0, <1>5, <2>1, <2>3 DEF Confirm, TypeOK
<1>6. ASSUME NEW r \in Requests, Save(r) PROVE TypeOK'
  <2>1. saved' \in Settings
    BY <1>6, RequestFacts DEF Save, At
  <2>2. request' \in [Requests -> Work \cup Wait] /\ queue' \in Seq(Requests)
    BY <1>0, <1>6, GoesType DEF Save, Ends
  <2> QED BY <1>0, <1>6, <2>1, <2>2 DEF Save, TypeOK
<1>7. ASSUME NEW r \in Requests, SaveFails(r) PROVE TypeOK'
  <2>1. request' \in [Requests -> Work \cup Wait]
    BY <1>7, GoesType DEF SaveFails, Ends
  <2>2. adrift' \in BOOLEAN
    BY <1>0, <1>7, RequestFacts DEF SaveFails, At
  <2> QED BY <1>7, <2>1, <2>2 DEF SaveFails, TypeOK
<1>8. ASSUME NEW r \in Requests, Account(r) PROVE TypeOK'
  <2>1. request' \in [Requests -> Work \cup Wait] /\ queue' \in Seq(Requests)
    BY <1>0, <1>8, GoesType DEF Account
  <2> QED BY <1>8, <2>1 DEF Account, TypeOK
<1>9. ASSUME NEW r \in Requests, Build(r) PROVE TypeOK'
  <2>1. request' \in [Requests -> Work \cup Wait]
    BY <1>9, GoesType DEF Build
  <2> QED BY <1>0, <1>9, <2>1 DEF Build, TypeOK
<1>10. ASSUME NEW r \in Requests, Connected(r) \/ ConnectFails(r) PROVE TypeOK'
  <2>1. request' \in [Requests -> Work \cup Wait]
    BY <1>10, GoesType DEF Connected, ConnectFails, Ends
  <2>2. queue' \in Seq(Requests)
    BY <1>0, <1>10 DEF Connected, ConnectFails, At, Locked
  <2> QED BY <1>0, <1>10, <2>1, <2>2, SimulatorType DEF Connected, ConnectFails, TypeOK
<1>11. ASSUME NEW t \in Trades, Execute(t) PROVE TypeOK'
  <2>1. trade' \in [Trades -> Quoting \cup Execution \cup {NoTrade}]
    <3>1. trade[t].at = "quote" => trade[t].mode \in Modes
      BY DEF TypeOK, Quoting, Execution, NoTrade
    <3>2. trade[t].at = "submit" => [trade[t] EXCEPT !.at = "sent"] \in Execution
      BY DEF TypeOK, Quoting, Execution, NoTrade
    <3>3. [at |-> "quote", mode |-> settings.mode] \in Quoting
      BY <1>0 DEF Quoting
    <3>4. trade[t].at = "quote" => [at |-> "submit", mode |-> trade[t].mode, venues |-> venues] \in Execution
      BY <1>0, <3>1 DEF Execution
    <3>5. trade \in [Trades -> Quoting \cup Execution \cup {NoTrade}]
      BY DEF TypeOK
    <3> QED BY <1>11, <3>2, <3>3, <3>4, <3>5 DEF Execute, Start, Reserve, Submit, Finish
  <2> QED BY <1>11, <2>1 DEF Execute, Start, Reserve, Submit, Finish, TypeOK
<1>12. CASE Restart
  <2>1. settings' \in Settings /\ allowed' \in BOOLEAN
    BY <1>0, <1>12, DocumentTypes DEF Restart
  <2>2. settings'.mode \in Modes
    BY <2>1 DEF Settings
  <2>3. request' \in [Requests -> Work \cup Wait]
    BY <1>12 DEF Restart, Idle, Wait
  <2>4. trade' \in [Trades -> Quoting \cup Execution \cup {NoTrade}]
    BY <1>12 DEF Restart
  <2>5. executor' \in Simulated \cup {"none"} /\ queue' \in Seq(Requests)
    BY <1>12, <2>2, SimulatorType DEF Restart
  <2> QED BY <1>12, <2>1, <2>2, <2>3, <2>4, <2>5 DEF Restart, TypeOK
<1>13. CASE UNCHANGED vars
  BY <1>13 DEF vars, TypeOK
<1> QED BY <1>1, <1>2, <1>3, <1>4, <1>5, <1>6, <1>7, <1>8, <1>9, <1>10, <1>11, <1>12, <1>13
     DEF Next, Serve, Proceed
--------------------------------------------------------------------------------
(* Every step preserves the parts of the invariant.                        *)

\* A step of one request leaves the others alone; where it stands is known.
LEMMA RequestStep ==
    ASSUME TypeOK, NEW r \in Requests, Serve(r)
    PROVE  \A s \in Requests \ {r} : request'[s] = request[s]
  BY DEF Serve, Proceed, Update, Assign, Activate, Promote, Account, Confirm, Decline, Save,
         SaveFails, Build, Connected, ConnectFails, Goes, Ends, TypeOK

\* The only steps to and from a connected rebuild are Build, Connected, ConnectFails.
LEMMA LockedStep == TypeOK /\ Locked /\ [Next]_vars => Locked'
<1> SUFFICES ASSUME TypeOK, Locked, [Next]_vars PROVE Locked'
  OBVIOUS
<1> USE DEF Locked
<1>0. queue \in Seq(Requests)
  BY DEF TypeOK
<1>1. ASSUME NEW r \in Requests, Update(r) \/ Assign(r) \/ Activate(r) \/ Promote(r) \/ Confirm(r)
                                   \/ Decline(r) \/ SaveFails(r)
      PROVE  Locked'
  <2>1. queue' = queue
    BY <1>1 DEF Update, Assign, Activate, Promote, Confirm, Decline, SaveFails, built
  <2>2. request'[r].at # "connect"
    <3>1. CASE Update(r)
      BY <3>1 DEF Update, TypeOK
    <3>2. CASE Assign(r)
      BY <3>2, RequestFacts DEF Assign, At, TypeOK, Work
    <3>3. CASE Activate(r) \/ Promote(r) \/ Confirm(r) \/ Decline(r) \/ SaveFails(r)
      BY <3>3 DEF Activate, Promote, Confirm, Decline, SaveFails, Goes, Ends, TypeOK
    <3> QED BY <1>1, <3>1, <3>2, <3>3
  <2>3. \A s \in Requests \ {r} : request'[s] = request[s]
    BY <1>1, RequestStep DEF Serve, Proceed
  <2> QED BY <2>1, <2>2, <2>3
<1>2. ASSUME NEW r \in Requests, Save(r) \/ Account(r) PROVE Locked'
  <2>1. request'[r].at # "connect"
    BY <1>2 DEF Save, Account, Goes, Ends, TypeOK
  <2>2. \A s \in Requests \ {r} : request'[s] = request[s]
    BY <1>2, RequestStep DEF Serve, Proceed
  <2>3. queue' = queue \/ queue' = Append(queue, r)
    BY <1>2 DEF Save, Account
  <2>4. queue # <<>> => queue' # <<>> /\ Head(queue') = Head(queue)
    BY <1>0, <2>3
  <2> QED BY <2>1, <2>2, <2>4
<1>3. ASSUME NEW r \in Requests, Build(r) PROVE Locked'
  <2>1. \A s \in Requests \ {r} : request'[s] = request[s]
    BY <1>3, RequestStep DEF Serve, Proceed
  <2> QED BY <1>3, <2>1 DEF Build
<1>4. ASSUME NEW r \in Requests, Connected(r) \/ ConnectFails(r) PROVE Locked'
  <2>1. \A s \in Requests \ {r} : request'[s] = request[s]
    BY <1>4, RequestStep DEF Serve, Proceed
  <2>2. request'[r].at = "idle"
    BY <1>4 DEF Connected, ConnectFails, Goes, Ends, TypeOK
  <2>3. \A s \in Requests \ {r} : request[s].at # "connect"
    BY <1>4 DEF Connected, ConnectFails, At
  <2> QED BY <2>1, <2>2, <2>3
<1>5. ASSUME NEW t \in Trades, Execute(t) PROVE Locked'
  BY <1>5 DEF Execute, Start, Reserve, Submit, Finish, built
<1>6. CASE Restart
  BY <1>6 DEF Restart, Idle
<1>7. CASE UNCHANGED vars
  BY <1>7 DEF vars, built
<1> QED BY <1>1, <1>2, <1>3, <1>4, <1>5, <1>6, <1>7 DEF Next, Serve, Proceed

\* What an update computes is LIVE only if the settings were, and activated with it.
LEMMA PatchedIsEarned ==
    ASSUME TypeOK, Earned(settings), NEW m \in UserModes \cup {"LIVE"}, NEW toggle \in Toggles,
           ~ActivationMissing(m)
    PROVE  /\ Earned(Patched(m, toggle))
           /\ Patched(m, toggle).mode = "LIVE" => settings.mode = "LIVE"
<1>1. Patched(m, toggle) = [settings EXCEPT !.mode = m, !.shadow = toggle.shadow, !.auto = toggle.auto,
                             !.activated = settings.activated /\ ~(settings.mode = "LIVE" /\ m # "LIVE")]
  BY DEF Patched
<1>2. settings \in Settings
  BY DEF TypeOK
<1>3. Patched(m, toggle).mode = m
  BY <1>1, <1>2 DEF Settings
<1>4. Patched(m, toggle).activated = (settings.activated /\ ~(settings.mode = "LIVE" /\ m # "LIVE"))
  BY <1>1, <1>2 DEF Settings
<1>5. m = "LIVE" => settings.activated
  BY DEF ActivationMissing
<1> QED BY <1>2, <1>3, <1>4, <1>5 DEF Earned, Settings

\* What an update asks of the settings and of its own request.
LEMMA UpdateFacts ==
    ASSUME TypeOK, Earned(settings), NEW r \in Requests, Update(r)
    PROVE  \E new \in Settings, rebuild \in BOOLEAN :
             /\ Earned(new) /\ (new.mode = "LIVE" => settings.mode = "LIVE")
             /\ new.mode # settings.mode => rebuild
             /\ \/ /\ request'[r] = [at |-> "dump", next |-> new, rebuild |-> rebuild]
                   /\ settings' = settings /\ settings.mode # "LIVE"
                \/ /\ request'[r] = [at |-> "save", next |-> new, rebuild |-> rebuild]
                   /\ settings' = new
<1>1. PICK m \in UserModes \cup {"LIVE"}, toggle \in Toggles, other, looks \in BOOLEAN :
         LET new  == Patched(m, toggle)
             work == [at |-> "save", next |-> new, rebuild |-> Structural(m, other)]
         IN  /\ ~ActivationMissing(m)
             /\ IF settings.mode \in Simulated /\ (executor # "none" \/ looks)
                THEN /\ request' = [request EXCEPT ![r] = [work EXCEPT !.at = "dump"]]
                     /\ settings' = settings
                ELSE /\ request' = [request EXCEPT ![r] = work]
                     /\ settings' = new
  BY DEF Update
<1>2. Patched(m, toggle) \in Settings /\ Structural(m, other) \in BOOLEAN
  BY DocumentTypes, ModeAssumption, ToggleAssumption DEF TypeOK, Modes, Real, Structural
<1>3. Earned(Patched(m, toggle)) /\ (Patched(m, toggle).mode = "LIVE" => settings.mode = "LIVE")
  BY <1>1, PatchedIsEarned
<1>4. Patched(m, toggle).mode = m
  BY DEF Patched, TypeOK, Settings
<1>5. Patched(m, toggle).mode # settings.mode => Structural(m, other)
  BY <1>4 DEF Structural
<1>6. settings.mode \in Simulated => settings.mode # "LIVE"
  BY DEF Simulated
<1>7. \/ /\ request'[r] = [at |-> "dump", next |-> Patched(m, toggle), rebuild |-> Structural(m, other)]
         /\ settings' = settings /\ settings.mode # "LIVE"
      \/ /\ request'[r] = [at |-> "save", next |-> Patched(m, toggle), rebuild |-> Structural(m, other)]
         /\ settings' = Patched(m, toggle)
  BY <1>1, <1>6 DEF TypeOK
<1> QED BY <1>2, <1>3, <1>5, <1>7
\* Neither the live mode nor live venues nor an activation come from anything but
\* the activation, or from a document that is activated in a process that may.
LEMMA LawfulStep == TypeOK /\ Lawful /\ [Next]_vars => Lawful'
<1> SUFFICES ASSUME TypeOK, Lawful, [Next]_vars PROVE Lawful'
  OBVIOUS
<1> USE DEF control, built
<1>0. /\ Earned(settings) /\ Earned(saved)
      /\ \A r \in Requests : /\ request[r].at \in {"dump", "save"} => Earned(request[r].next)
                             /\ request[r].at = "dump" => request[r].next.mode # "LIVE"
      /\ settings.mode = "LIVE" \/ venues = "LIVE" => allowed
      /\ \A t \in Trades : trade[t].at \in {"submit", "sent"} /\ trade[t].venues = "LIVE" => allowed
  BY DEF Lawful
\* A step of a request that leaves the environment and the trades alone.
<1>a. ASSUME NEW r \in Requests, Serve(r), allowed' = allowed, trade' = trade,
             Earned(settings'), settings'.mode = "LIVE" => allowed,
             saved' = saved \/ Earned(saved'),
             venues' = venues \/ venues' = settings.mode,
             request'[r].at \in {"dump", "save"} => Earned(request'[r].next),
             request'[r].at = "dump" => request'[r].next.mode # "LIVE"
      PROVE  Lawful'
  <2>1. \A s \in Requests \ {r} : request'[s] = request[s]
    BY <1>a, RequestStep
  <2>2. Earned(saved')
    BY <1>0, <1>a
  <2>3. venues' = "LIVE" => allowed
    BY <1>0, <1>a
  <2>4. \A s \in Requests : /\ request'[s].at \in {"dump", "save"} => Earned(request'[s].next)
                            /\ request'[s].at = "dump" => request'[s].next.mode # "LIVE"
    BY <1>0, <1>a, <2>1
  <2> QED BY <1>0, <1>a, <2>2, <2>3, <2>4 DEF Lawful, Earned
<1>1. ASSUME NEW r \in Requests, Update(r) PROVE Lawful'
  <2>1. PICK new \in Settings, rebuild \in BOOLEAN :
             /\ Earned(new) /\ (new.mode = "LIVE" => settings.mode = "LIVE")
             /\ \/ /\ request'[r] = [at |-> "dump", next |-> new, rebuild |-> rebuild]
                   /\ settings' = settings /\ settings.mode # "LIVE"
                \/ /\ request'[r] = [at |-> "save", next |-> new, rebuild |-> rebuild]
                   /\ settings' = new
    BY <1>0, <1>1, UpdateFacts
  <2>2. Earned(settings') /\ (settings'.mode = "LIVE" => allowed) /\ Earned(request'[r].next)
    BY <1>0, <2>1
  <2>3. request'[r].at = "dump" => request'[r].next.mode # "LIVE"
    BY <2>1
  <2>4. allowed' = allowed /\ trade' = trade /\ saved' = saved /\ venues' = venues
    BY <1>1 DEF Update
  <2> QED BY <1>1, <1>a, <2>2, <2>3, <2>4 DEF Serve
<1>2. ASSUME NEW r \in Requests, Assign(r) PROVE Lawful'
  <2>1. request[r].at = "dump" /\ request[r] \in Work
    BY <1>2, RequestFacts DEF Assign, At
  <2>2. request'[r].at = "save" /\ request'[r].next = request[r].next
    BY <1>2, <2>1 DEF Assign, TypeOK, Work
  <2>3. allowed' = allowed /\ trade' = trade /\ saved' = saved /\ venues' = venues
        /\ settings' = request[r].next
    BY <1>2 DEF Assign
  <2>4. Earned(settings') /\ settings'.mode # "LIVE" /\ Earned(request'[r].next)
    BY <1>0, <2>1, <2>2, <2>3
  <2> QED BY <1>2, <1>a, <2>2, <2>3, <2>4 DEF Serve, Proceed
<1>3. ASSUME NEW r \in Requests, Activate(r) PROVE Lawful'
  <2>1. Earned(Activated)
    BY DEF Activated, Earned, TypeOK, Settings
  <2>2. request'[r].at = "save" /\ request'[r].next = Activated
    BY <1>3 DEF Activate, TypeOK
  <2>3. /\ allowed' = allowed /\ trade' = trade /\ saved' = saved /\ venues' = venues
        /\ settings' = Activated /\ allowed
    BY <1>3 DEF Activate
  <2> QED BY <1>3, <1>a, <2>1, <2>2, <2>3 DEF Serve
<1>4. ASSUME NEW r \in Requests, Confirm(r) PROVE Lawful'
  <2>1. /\ allowed' = allowed /\ trade' = trade /\ saved' = saved /\ venues' = venues
        /\ settings' = [settings EXCEPT !.stage = "full"]
    BY <1>4 DEF Confirm
  <2>2. settings'.mode = settings.mode /\ settings'.activated = settings.activated
    BY <2>1 DEF TypeOK, Settings
  <2>3. request'[r].at = "save" /\ request'[r].next = settings'
    BY <1>4 DEF Confirm, TypeOK
  <2>4. Earned(settings') /\ (settings'.mode = "LIVE" => allowed)
    BY <1>0, <2>2 DEF Earned
  <2> QED BY <1>4, <1>a, <2>1, <2>3, <2>4 DEF Serve, Proceed
<1>5. ASSUME NEW r \in Requests, Promote(r) \/ Decline(r) \/ Save(r) \/ SaveFails(r) \/ Account(r)
                                   \/ Build(r) \/ Connected(r) \/ ConnectFails(r)
      PROVE  Lawful'
  <2>1. request'[r].at \notin {"dump", "save"}
    BY <1>5 DEF Promote, Decline, Save, SaveFails, Account, Build, Connected, ConnectFails, Goes,
           Ends, TypeOK
  <2>2. allowed' = allowed /\ trade' = trade /\ settings' = settings
    BY <1>5 DEF Promote, Decline, Save, SaveFails, Account, Build, Connected, ConnectFails
  <2>3. venues' = venues \/ venues' = settings.mode
    BY <1>5 DEF Promote, Decline, Save, SaveFails, Account, Build, Connected, ConnectFails
  <2>4. saved' = saved \/ Earned(saved')
    BY <1>0, <1>5 DEF Promote, Decline, Save, SaveFails, Account, Build, Connected, ConnectFails,
                      At
  <2>5. Earned(settings') /\ (settings'.mode = "LIVE" => allowed)
    BY <1>0, <2>2
  <2> QED BY <1>5, <1>a, <2>1, <2>2, <2>3, <2>4, <2>5 DEF Serve, Proceed
<1>6. ASSUME NEW t \in Trades, Execute(t) PROVE Lawful'
  <2>1. UNCHANGED <<allowed, settings, saved, venues, request>>
    BY <1>6 DEF Execute, Start, Reserve, Submit, Finish
  <2>2. \A u \in Trades : trade'[u].at \in {"submit", "sent"} /\ trade'[u].venues = "LIVE" => allowed
    <3>1. \A u \in Trades \ {t} : trade'[u] = trade[u]
      BY <1>6 DEF Execute, Start, Reserve, Submit, Finish, TypeOK
    <3>2. trade'[t].at \in {"submit", "sent"} /\ trade'[t].venues = "LIVE" => allowed
      <4>1. CASE Start(t) \/ Finish(t)
        BY <4>1 DEF Start, Finish, NoTrade, TypeOK
      <4>2. CASE Reserve(t)
        BY <1>0, <4>2 DEF Reserve, TypeOK
      <4>3. CASE Submit(t)
        <5>1. trade'[t] = [trade[t] EXCEPT !.at = "sent"]
          BY <4>3 DEF Submit, TypeOK
        <5>2. trade[t].at = "submit" /\ trade[t] \in Execution
          BY <4>3 DEF Submit, TypeOK, Quoting, NoTrade
        <5> QED BY <1>0, <5>1, <5>2 DEF Execution
      <4> QED BY <1>6, <4>1, <4>2, <4>3 DEF Execute
    <3> QED BY <1>0, <3>1, <3>2
  <2> QED BY <1>0, <2>1, <2>2 DEF Lawful, Earned
<1>7. CASE Restart
  <2>1. settings' = Reverted(saved, allowed') /\ saved' = settings' /\ venues' = settings'.mode
    BY <1>7 DEF Restart
  <2>2. Earned(settings') /\ (settings'.mode = "LIVE" => allowed')
    BY <1>0, <2>1 DEF Reverted, Earned, TypeOK, Settings
  <2>3. \A r \in Requests : request'[r].at = "idle"
    BY <1>7 DEF Restart, Idle
  <2>4. \A t \in Trades : trade'[t].at = "idle"
    BY <1>7 DEF Restart, NoTrade
  <2> QED BY <2>1, <2>2, <2>3, <2>4 DEF Lawful, Earned
<1>8. CASE UNCHANGED vars
  BY <1>8 DEF vars, Lawful, Earned
<1> QED BY <1>1, <1>2, <1>3, <1>4, <1>5, <1>6, <1>7, <1>8 DEF Next, Serve, Proceed
\* A change of the mode owes a rebuild, or sets the mode adrift; a rebuild that
\* gets to build takes the mode then in force.
LEMMA FittingStep == TypeOK /\ Locked /\ Lawful /\ Fitting /\ [Next]_vars => Fitting'
<1> SUFFICES ASSUME TypeOK, Locked, Lawful, Fitting, [Next]_vars PROVE Fitting'
  OBVIOUS
<1> USE DEF control, built, Owes
<1>0. Earned(settings)
  BY DEF Lawful
\* A step of a request that leaves the venues alone and starts or ends no rebuild.
<1>a. ASSUME NEW r \in Requests, Serve(r), venues' = venues, executor' = executor,
             request[r].at # "connect", request'[r].at # "connect",
             Owes(r) => Owes(r)' \/ adrift', adrift => adrift',
             settings'.mode # settings.mode => adrift' \/ Owes(r)'
      PROVE  Fitting'
  <2>1. \A s \in Requests \ {r} : request'[s] = request[s]
    BY <1>a, RequestStep
  <2>2. ~adrift' /\ (\A s \in Requests : request'[s].at # "connect") => executor' = SimulatorOf(venues')
    BY <1>a, <2>1 DEF Fitting, SimulatorOf
  <2>3. ~adrift' /\ (\A s \in Requests : Owes(s)' => request'[s].at = "connect") => venues' = settings'.mode
    <3> SUFFICES ASSUME ~adrift', \A s \in Requests : Owes(s)' => request'[s].at = "connect"
                 PROVE  venues' = settings'.mode
      OBVIOUS
    <3>1. ~Owes(r)' /\ ~Owes(r) /\ ~adrift
      BY <1>a
    <3>2. \A s \in Requests : Owes(s) => request[s].at = "connect"
      BY <2>1, <3>1
    <3>3. venues = settings.mode
      BY <3>1, <3>2 DEF Fitting
    <3> QED BY <1>a, <3>1, <3>3
  <2> QED BY <2>2, <2>3 DEF Fitting, SimulatorOf
<1>1. ASSUME NEW r \in Requests, Update(r) PROVE Fitting'
  <2>1. PICK new \in Settings, rebuild \in BOOLEAN :
             /\ new.mode # settings.mode => rebuild
             /\ \/ /\ request'[r] = [at |-> "dump", next |-> new, rebuild |-> rebuild]
                   /\ settings' = settings
                \/ /\ request'[r] = [at |-> "save", next |-> new, rebuild |-> rebuild]
                   /\ settings' = new
    BY <1>0, <1>1, UpdateFacts
  <2>2. request'[r].at # "connect" /\ (settings'.mode # settings.mode => Owes(r)')
    BY <2>1
  <2>3. request[r].at = "idle" /\ venues' = venues /\ executor' = executor /\ adrift' = adrift
    BY <1>1 DEF Update, At
  <2> QED BY <1>1, <1>a, <2>2, <2>3 DEF Serve
<1>2. ASSUME NEW r \in Requests, Assign(r) PROVE Fitting'
  <2>1. request[r].at = "dump" /\ request[r] \in Work
    BY <1>2, RequestFacts DEF Assign, At
  <2>2. request'[r].at = "save" /\ request'[r].rebuild = request[r].rebuild
    BY <1>2, <2>1 DEF Assign, TypeOK, Work
  <2>3. /\ venues' = venues /\ executor' = executor
        /\ adrift' = (adrift \/ (~request[r].rebuild /\ settings'.mode # settings.mode))
    BY <1>2 DEF Assign
  <2> QED BY <1>2, <1>a, <2>1, <2>2, <2>3 DEF Serve, Proceed
<1>3. ASSUME NEW r \in Requests, Activate(r) PROVE Fitting'
  <2>1. request[r].at = "idle" /\ request'[r].at = "save" /\ request'[r].rebuild
    BY <1>3 DEF Activate, TypeOK, At
  <2>2. venues' = venues /\ executor' = executor /\ adrift' = adrift
    BY <1>3 DEF Activate
  <2> QED BY <1>3, <1>a, <2>1, <2>2 DEF Serve
<1>4. ASSUME NEW r \in Requests, Confirm(r) PROVE Fitting'
  <2>1. settings'.mode = settings.mode
    BY <1>4 DEF Confirm, TypeOK, Settings
  <2>2. request[r].at = "list" /\ request'[r].at = "save"
    BY <1>4 DEF Confirm, TypeOK, At
  <2>3. venues' = venues /\ executor' = executor /\ adrift' = adrift
    BY <1>4 DEF Confirm
  <2> QED BY <1>4, <1>a, <2>1, <2>2, <2>3 DEF Serve, Proceed
<1>5. ASSUME NEW r \in Requests, Promote(r) \/ Decline(r) \/ Save(r) \/ SaveFails(r) \/ Account(r)
      PROVE  Fitting'
  <2>1. request[r].at \in {"idle", "list", "save"}
    BY <1>5 DEF Promote, Decline, Save, SaveFails, Account, At
  <2>2. venues' = venues /\ executor' = executor /\ settings' = settings
    BY <1>5 DEF Promote, Decline, Save, SaveFails, Account
  <2>3. request'[r].at \in {"idle", "list", "queue"}
    BY <1>5 DEF Promote, Decline, Save, SaveFails, Account, Goes, Ends, TypeOK
  <2>4. (adrift => adrift') /\ (Owes(r) => Owes(r)' \/ adrift')
    <3>1. CASE Promote(r) \/ Decline(r) \/ Account(r)
      BY <3>1 DEF Promote, Decline, Account, At
    <3>2. CASE Save(r)
      BY <3>2 DEF Save, Goes, Ends, TypeOK, At
    <3>3. CASE SaveFails(r)
      <4>1. adrift' = (adrift \/ request[r].rebuild) /\ request[r].at = "save"
        BY <3>3 DEF SaveFails, At
      <4> QED BY <4>1
    <3> QED BY <1>5, <3>1, <3>2, <3>3
  <2> QED BY <1>5, <1>a, <2>1, <2>2, <2>3, <2>4 DEF Serve, Proceed
<1>6. ASSUME NEW r \in Requests, Build(r) PROVE Fitting'
  <2>1. venues' = settings.mode /\ settings' = settings
    BY <1>6 DEF Build
  <2>2. request'[r].at = "connect"
    BY <1>6 DEF Build, Goes, TypeOK
  <2> QED BY <2>1, <2>2 DEF Fitting
<1>7. ASSUME NEW r \in Requests, Connected(r) PROVE Fitting'
  <2>1. \A s \in Requests \ {r} : request'[s] = request[s]
    BY <1>7, RequestStep DEF Serve, Proceed
  <2>2. /\ venues' = venues /\ executor' = SimulatorOf(venues) /\ settings' = settings
        /\ adrift' = adrift /\ request[r].at = "connect"
    BY <1>7 DEF Connected, At
  <2>3. (\A s \in Requests : Owes(s)' => request'[s].at = "connect") =>
           \A s \in Requests : Owes(s) => request[s].at = "connect"
    BY <2>1, <2>2
  <2>4. ~adrift' /\ (\A s \in Requests : Owes(s)' => request'[s].at = "connect") => venues' = settings'.mode
    BY <2>2, <2>3 DEF Fitting
  <2> QED BY <2>2, <2>4 DEF Fitting, SimulatorOf
<1>b. ASSUME NEW r \in Requests, ConnectFails(r) PROVE Fitting'
  BY <1>b DEF ConnectFails, Fitting
<1>8. ASSUME NEW t \in Trades, Execute(t) PROVE Fitting'
  <2>1. UNCHANGED <<settings, adrift, venues, executor, request>>
    BY <1>8 DEF Execute, Start, Reserve, Submit, Finish
  <2> QED BY <2>1 DEF Fitting, SimulatorOf
<1>9. CASE Restart
  BY <1>9 DEF Restart, Fitting, SimulatorOf, Idle
<1>10. CASE UNCHANGED vars
  BY <1>10 DEF vars, Fitting, SimulatorOf
<1> QED BY <1>1, <1>2, <1>3, <1>4, <1>5, <1>6, <1>7, <1>8, <1>9, <1>10, <1>b
     DEF Next, Serve, Proceed

\* The initial states satisfy the invariant.
LEMMA Initially == Init => IInv
<1> SUFFICES ASSUME Init PROVE IInv
  OBVIOUS
<1>1. PICK m \in UserModes : settings = Default(m)
  BY DEF Init
<1>2. settings \in Settings /\ settings.mode = m /\ m \in Modes /\ m # "LIVE" /\ ~settings.activated
  BY <1>1, ModeAssumption DEF Default, Settings
<1>3. executor \in Simulated \cup {"none"}
  BY <1>2, SimulatorType DEF Init
<1>4. TypeOK
  <2>1. request \in [Requests -> Work \cup Wait]
    BY DEF Init, Idle, Wait
  <2>2. trade \in [Trades -> Quoting \cup Execution \cup {NoTrade}]
    BY DEF Init
  <2>3. queue \in Seq(Requests)
    BY DEF Init
  <2> QED BY <1>2, <1>3, <2>1, <2>2, <2>3 DEF Init, TypeOK
<1>5. Locked /\ Lawful /\ Fitting
  BY <1>2 DEF Init, Locked, Lawful, Earned, Fitting, Idle, NoTrade
<1> QED BY <1>4, <1>5 DEF IInv

\* The invariant holds in every state of every run.
LEMMA Invariance == Spec => []IInv
<1>1. IInv /\ [Next]_vars => IInv'
  BY TypeStep, LockedStep, LawfulStep, FittingStep DEF IInv
<1> QED BY Initially, <1>1, PTL DEF Spec

--------------------------------------------------------------------------------
(* The theorems.                                                           *)

\* Every variable keeps its type.
THEOREM TypeCorrect == Spec => []TypeOK
<1>1. IInv => TypeOK
  BY DEF IInv
<1> QED BY <1>1, Invariance, PTL

\* However updates, activations, deactivations and restarts overlap, LIVE is in
\* force and stored exactly when it is activated, and only where it is allowed.
THEOREM LiveOnlyByActivation == Spec => []LiveIsEarned
<1>1. IInv => LiveIsEarned
  BY DEF IInv, Lawful, Earned, LiveIsEarned
<1> QED BY <1>1, Invariance, PTL

\* A process that may not trade live sends no order to a live venue.
THEOREM LiveOrdersAreAllowed == Spec => []NoLiveOrderUnlessAllowed
<1>1. IInv => NoLiveOrderUnlessAllowed
  BY DEF IInv, Lawful, NoLiveOrderUnlessAllowed
<1> QED BY <1>1, Invariance, PTL

\* Once the rebuilds that are owed are done, venues and simulator are those of
\* the mode, however many requests overlapped, unless the mode went adrift.
THEOREM RebuiltForMode == Spec => []BuiltForMode
<1>1. IInv => BuiltForMode
  BY DEF IInv, Fitting, BuiltForMode, Owes
<1> QED BY <1>1, Invariance, PTL

\* The mode turns LIVE as the small live test, in shadow mode and with
\* auto-execute off, or by a restart that finds it LIVE: no update computed
\* before the settings changed brings it back.
THEOREM LiveStartsSafely == Spec => EntersLiveSafely
<1> DEFINE Safely == settings.mode # "LIVE" /\ settings'.mode = "LIVE" =>
                       \/ settings'.stage = "small_test" /\ settings'.shadow /\ ~settings'.auto
                       \/ settings' = saved
<1>1. IInv /\ [Next]_vars => [Safely]_vars
  <2> SUFFICES ASSUME IInv, Next, settings.mode # "LIVE", settings'.mode = "LIVE"
               PROVE  \/ settings'.stage = "small_test" /\ settings'.shadow /\ ~settings'.auto
                      \/ settings' = saved
    OBVIOUS
  <2> USE DEF control, built
  <2>0. TypeOK /\ Lawful /\ Earned(settings)
    BY DEF IInv, Lawful
  <2>1. ASSUME NEW r \in Requests, Update(r) PROVE FALSE
    <3>1. PICK new \in Settings, rebuild \in BOOLEAN :
               /\ new.mode = "LIVE" => settings.mode = "LIVE"
               /\ settings' = settings \/ settings' = new
      BY <2>0, <2>1, UpdateFacts
    <3> QED BY <3>1
  <2>2. ASSUME NEW r \in Requests, Assign(r) PROVE FALSE
    BY <2>0, <2>2 DEF Assign, At, Lawful
  <2>3. ASSUME NEW r \in Requests, Activate(r)
        PROVE  settings'.stage = "small_test" /\ settings'.shadow /\ ~settings'.auto
    BY <2>0, <2>3 DEF Activate, Activated, TypeOK, Settings
  <2>4. ASSUME NEW r \in Requests, Confirm(r) PROVE FALSE
    BY <2>0, <2>4 DEF Confirm, TypeOK, Settings
  <2>5. ASSUME NEW r \in Requests, Promote(r) \/ Decline(r) \/ Save(r) \/ SaveFails(r) \/ Account(r)
                                     \/ Build(r) \/ Connected(r) \/ ConnectFails(r)
        PROVE  FALSE
    BY <2>5 DEF Promote, Decline, Save, SaveFails, Account, Build, Connected, ConnectFails
  <2>6. ASSUME NEW t \in Trades, Execute(t) PROVE FALSE
    BY <2>6 DEF Execute, Start, Reserve, Submit, Finish
  <2>7. CASE Restart
    <3>1. settings' = Reverted(saved, allowed')
      BY <2>7 DEF Restart
    <3> QED BY <2>0, <3>1 DEF Reverted, TypeOK, Settings
  <2> QED BY <2>1, <2>2, <2>3, <2>4, <2>5, <2>6, <2>7 DEF Next, Serve, Proceed
<1> QED BY <1>1, Invariance, PTL DEF Spec, EntersLiveSafely
================================================================================
