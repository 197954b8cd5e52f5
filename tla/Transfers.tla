-------------------------------- MODULE Transfers --------------------------------
(***************************************************************************)
(* Withdrawals from the bot wallets (api/routes/wallets.py and             *)
(* wallets/transfers.py): the allowlist, the ledger of requests, the       *)
(* transaction and the chain it is sent to.                                *)
(*                                                                         *)
(* A request is a task of the event loop, cut where it awaits the RPC node *)
(* or the database.  The mode and the allowlist are settings, which other  *)
(* requests replace meanwhile.                                             *)
(***************************************************************************)
EXTENDS Integers

CONSTANTS
    Destinations,  \* addresses, each on its chain
    ClientKeys,    \* request keys that clients send
    Bodies,        \* the bodies of POST /wallets/withdraw
    Wallets,       \* the bot wallets
    Requests,      \* tasks that serve POST /wallets/withdraw
    Editors,       \* tasks that change the settings
    UserModes,     \* the modes that settings updates ask for, besides LIVE
    Minutes,       \* the minutes at which requests arrive
    RequireAllowlist,  \* settings.security.require_allowlist_for_withdrawals
    DelaysEntries, \* settings.security.new_address_delay_minutes is not zero
    Faults         \* "crash", "db_error"

Families  == {"evm", "solana"}
Simulated == {"PAPER"}
Modes     == Simulated \cup {"TESTNET", "LIVE"}

ASSUME WalletAssumption == Wallets \subseteq [family : Families, mode : {"testnet", "live"}]
ASSUME BodyAssumption   ==
    Bodies \subseteq [family : Families, to : Destinations, key : ClientKeys \cup {""}]
ASSUME ModeAssumption   == UserModes \subseteq Modes

\* A client's key, or the hash of what is asked for and the minute.
Keys == [client : ClientKeys] \cup [family : Families, to : Destinations, minute : Minutes]

VARIABLES
    mode,      \* settings.general.mode
    allow,     \* settings.security.withdrawal_allowlist, by destination
    ledger,    \* ctx.ledger is there: the connectors were built for a simulated mode
    editor,    \* what each settings request is doing
    request,   \* what each withdrawal request is doing
    rows,      \* the table withdrawals, by request key
    pool,      \* transactions that nodes accepted and no block holds
    mined,     \* the number of each wallet's transactions in blocks
    sent,      \* history: transactions accepted for each key
    lost,      \* history: keys whose answer was lost after the node accepted
    broken     \* history: a crash or a failing write left a row as it was

settings == <<mode, allow, ledger, editor>>
chain    == <<pool, mined, sent, lost>>
vars     == <<settings, request, rows, chain, broken>>

Entries == {"absent", "fresh", "aged"}
Lists   == [Destinations -> Entries]

\* rebuild: the update is structural, since it changes the mode.
Updating == [at : {"dump"}, mode : Modes, allow : Lists, rebuild : BOOLEAN]
Building == [at : {"connect"}, mode : Modes]
NoUpdate == [at : {"idle", "rebuild"}]
Idle     == [at |-> "idle"]

\* Solana transactions carry a recent block hash in place of a nonce.
NoNonce == -1
Quoting == [at : {"quote"}, body : Bodies]
Sending == [at : {"create", "send"}, key : Keys, to : Destinations, wallet : Wallets]
Signed  == [at : {"broadcast"}, key : Keys, to : Destinations, wallet : Wallets, nonce : Nat \cup {NoNonce}]
Writing == [at : {"book", "fail"}, key : Keys]

Transactions == [key : Keys, to : Destinations, wallet : Wallets, nonce : Nat \cup {NoNonce}]

TypeOK ==
    /\ mode \in Modes /\ allow \in Lists /\ ledger \in BOOLEAN /\ broken \in BOOLEAN
    /\ editor \in [Editors -> Updating \cup Building \cup NoUpdate]
    /\ request \in [Requests -> Quoting \cup Sending \cup Signed \cup Writing \cup {Idle}]
    /\ rows \in [Keys -> {"none", "requested", "broadcast", "failed"}]
    /\ pool \subseteq Transactions
    /\ mined \in [Wallets -> Nat] /\ sent \in [Keys -> Nat]
    /\ lost \subseteq Keys

Init ==
    /\ mode = "PAPER" /\ ledger = TRUE
    /\ allow = [d \in Destinations |-> "absent"]
    /\ editor = [e \in Editors |-> Idle]
    /\ request = [r \in Requests |-> Idle]
    /\ rows = [k \in Keys |-> "none"]
    /\ pool = {} /\ mined = [w \in Wallets |-> 0] /\ sent = [k \in Keys |-> 0]
    /\ lost = {} /\ broken = FALSE

--------------------------------------------------------------------------------
(* Settings: the mode and the allowlist.                                   *)

Edits(e, record) == editor' = [editor EXCEPT ![e] = record]

\* update_settings with a patch, structural if a rebuild follows: in a simulated mode
\* the balances of the paper account are saved before the document is assigned.
Update(e, m, list, structural) ==
    /\ editor[e] = Idle
    /\ IF mode \in Simulated /\ ledger
       THEN /\ Edits(e, [at |-> "dump", mode |-> m, allow |-> list, rebuild |-> structural])
            /\ UNCHANGED <<mode, allow>>
       ELSE /\ mode' = m /\ allow' = list
            /\ Edits(e, IF structural THEN [at |-> "rebuild"] ELSE Idle)
    /\ UNCHANGED <<ledger, request, rows, chain, broken>>

\* The document computed before the write replaces whatever is there after it.
Assign(e) ==
    /\ editor[e].at = "dump"
    /\ mode' = editor[e].mode /\ allow' = editor[e].allow
    /\ Edits(e, IF editor[e].rebuild THEN [at |-> "rebuild"] ELSE Idle)
    /\ UNCHANGED <<ledger, request, rows, chain, broken>>

\* rebuild_connectors, under its lock, drops the ledger and awaits the venues.
Rebuild(e) ==
    /\ editor[e].at = "rebuild"
    /\ \A other \in Editors : editor[other].at # "connect"
    /\ ledger' = FALSE
    /\ Edits(e, [at |-> "connect", mode |-> mode])
    /\ UNCHANGED <<mode, allow, request, rows, chain, broken>>

\* The ledger is that of the mode the rebuild began with.
Connect(e) ==
    /\ editor[e].at = "connect"
    /\ ledger' = (editor[e].mode \in Simulated)
    /\ Edits(e, Idle)
    /\ UNCHANGED <<mode, allow, request, rows, chain, broken>>

\* A new mode, or new pairs, venues or strategies in the mode there is.
Restructure(e) ==
    \E m \in (UserModes \ {"LIVE"}) \cup {mode} : Update(e, m, allow, TRUE)

\* activate_live assigns the mode at once.
ActivateLive(e) ==
    /\ editor[e] = Idle /\ mode # "LIVE"
    /\ mode' = "LIVE"
    /\ Edits(e, [at |-> "rebuild"])
    /\ UNCHANGED <<allow, ledger, request, rows, chain, broken>>

\* PUT /settings with a list: an entry with a time of its own is recent or old,
\* one without counts as old.  POST /wallets/allowlist changes nothing: it stamps
\* its entry with a number, and the document holds strings, so it is refused.
PatchAllowlist(e) ==
    \E d \in Destinations, entry \in {"fresh", "aged"} :
        Update(e, mode, [allow EXCEPT ![d] = entry], FALSE)

RemoveAllowlist(e) ==
    \E d \in Destinations : Update(e, mode, [allow EXCEPT ![d] = "absent"], FALSE)

\* new_address_delay_minutes have passed since the time of the entry.
DelayPasses(d) ==
    /\ allow[d] = "fresh"
    /\ allow' = [allow EXCEPT ![d] = "aged"]
    /\ UNCHANGED <<mode, ledger, editor, request, rows, chain, broken>>

--------------------------------------------------------------------------------
(* A withdrawal.                                                           *)

Goes(r, record) == request' = [request EXCEPT ![r] = record]
At(r, stage)    == request[r].at = stage

\* _allowlist_reason finds nothing against the destination.
Allowed(d) ==
    CASE allow[d] = "absent" -> ~RequireAllowlist
      [] allow[d] = "fresh"  -> ~DelaysEntries
      [] OTHER               -> TRUE

\* The checks that need no node: the simulation, the allowlist.
Submit(r) ==
    /\ At(r, "idle") /\ ~ledger
    /\ \E b \in Bodies :
         /\ Allowed(b.to)
         /\ Goes(r, [at |-> "quote", body |-> b])
    /\ UNCHANGED <<settings, rows, chain, broken>>

\* The wallet of the family for the mode; any of the family if there is none.
BotWallets(family, m) ==
    LET ofFamily == {w \in Wallets : w.family = family}
        ofMode   == {w \in ofFamily : w.mode = m}
    IN  IF ofMode # {} THEN ofMode ELSE ofFamily

\* Mutant: the hash leaves out the minute.
KeyWithoutMinute(b, minute) ==
    IF b.key # "" THEN [client |-> b.key] ELSE [family |-> b.family, to |-> b.to]

\* The key a body has at a minute.
KeyOf(b, minute) ==
    IF b.key # "" THEN [client |-> b.key]
    ELSE [family |-> b.family, to |-> b.to, minute |-> minute]

\* The node answers with the gas price, or the quote is unavailable.
Quote(r) ==
    /\ At(r, "quote")
    /\ LET b == request[r].body
           m == IF mode = "TESTNET" THEN "testnet" ELSE "live"
       IN  \/ Goes(r, Idle)
           \/ \E w \in BotWallets(b.family, m), minute \in Minutes :
                Goes(r, [at |-> "create", key |-> KeyOf(b, minute), to |-> b.to, wallet |-> w])
    /\ UNCHANGED <<settings, rows, chain, broken>>

\* Mutant: the insertion does not look for the key, and the column is not unique.
InsertsAlways(k) == TRUE

\* create_withdrawal finds no row with the key, and the unique column holds none.
Inserts(k) == rows[k] = "none"

\* Two tasks may both find no row; the unique column lets one of them commit.
Create(r) ==
    /\ At(r, "create")
    /\ IF Inserts(request[r].key)
       THEN /\ rows' = [rows EXCEPT ![request[r].key] = "requested"]
            /\ Goes(r, [request[r] EXCEPT !.at = "send"])
       ELSE Goes(r, Idle) /\ UNCHANGED rows
    /\ UNCHANGED <<settings, chain, broken>>

\* The insertion itself fails: nothing is stored and nothing is sent.
CreateFails(r) ==
    /\ "db_error" \in Faults /\ At(r, "create")
    /\ Goes(r, Idle)
    /\ UNCHANGED <<settings, rows, chain, broken>>

Signs(r, nonce) ==
    /\ At(r, "send")
    /\ LET s == request[r]
       IN  Goes(r, [at |-> "broadcast", key |-> s.key, to |-> s.to, wallet |-> s.wallet, nonce |-> nonce])
    /\ UNCHANGED <<settings, rows, chain, broken>>

\* The transaction is built on the number of mined transactions, so that one
\* still in the pool is not counted.
SignEvm(r) ==
    \E w \in Wallets :
        /\ At(r, "send") /\ w = request[r].wallet /\ w.family = "evm"
        /\ Signs(r, mined[w])

\* The transaction carries a recent block hash, and its simulation succeeds.
SignSolana(r) ==
    /\ At(r, "send") /\ request[r].wallet.family = "solana"
    /\ Signs(r, NoNonce)

\* Mutant: the exception of execute() is not caught.
Uncaught(k) == Idle

\* withdraw catches what execute() raises.
Caught(k) == [at |-> "fail", key |-> k]

\* The node serves another chain, refuses, or does not answer before the transaction is sent.
SendFails(r) ==
    /\ request[r].at \in {"send", "broadcast"}
    /\ Goes(r, Caught(request[r].key))
    /\ UNCHANGED <<settings, rows, chain, broken>>

\* Transactions of the pool that a node replaces by one with the same nonce.
Replaced(tx) == {p \in pool : p.wallet = tx.wallet /\ p.nonce = tx.nonce /\ tx.nonce # NoNonce}

\* The node accepts the transaction; its answer arrives, or is lost.
Broadcast(r) ==
    /\ At(r, "broadcast")
    /\ LET s  == request[r]
           tx == [key |-> s.key, to |-> s.to, wallet |-> s.wallet, nonce |-> s.nonce]
       IN  /\ s.nonce = NoNonce \/ s.nonce = mined[s.wallet]
           /\ pool' = (pool \ Replaced(tx)) \cup {tx}
           /\ sent' = [sent EXCEPT ![s.key] = @ + 1]
           /\ \E heard \in BOOLEAN :
                /\ Goes(r, [at |-> IF heard THEN "book" ELSE "fail", key |-> s.key])
                /\ lost' = IF heard THEN lost ELSE lost \cup {s.key}
    /\ UNCHANGED <<settings, rows, mined, broken>>

\* Mutant: the row is set to broadcast whether execute() raised or not.
AlwaysBroadcast(stage) == "broadcast"

Status(stage) == IF stage = "book" THEN "broadcast" ELSE "failed"

\* update_withdrawal writes what execute() came to, and the request is answered.
Record(r) ==
    /\ request[r].at \in {"book", "fail"}
    /\ rows' = [rows EXCEPT ![request[r].key] = Status(request[r].at)]
    /\ Goes(r, Idle)
    /\ UNCHANGED <<settings, chain, broken>>

RecordFails(r) ==
    /\ "db_error" \in Faults /\ request[r].at \in {"book", "fail"}
    /\ Goes(r, Idle)
    /\ broken' = TRUE
    /\ UNCHANGED <<settings, rows, chain>>

\* A block holds a transaction of the pool.
Mine ==
    /\ \E tx \in pool :
         /\ tx.nonce = NoNonce \/ tx.nonce = mined[tx.wallet]
         /\ pool' = pool \ {tx}
         /\ mined' = [mined EXCEPT ![tx.wallet] = @ + 1]
    /\ UNCHANGED <<settings, request, rows, sent, lost, broken>>

\* Every task ends; the settings and the rows are read back.
Crash ==
    /\ "crash" \in Faults
    /\ request' = [r \in Requests |-> Idle]
    /\ editor' = [e \in Editors |-> Idle]
    /\ ledger' = (mode \in Simulated)
    /\ broken' = TRUE
    /\ UNCHANGED <<mode, allow, rows, chain>>

Edit(e) ==
    Restructure(e) \/ ActivateLive(e) \/ PatchAllowlist(e) \/ RemoveAllowlist(e)
        \/ Assign(e) \/ Rebuild(e) \/ Connect(e)

\* What a withdrawal that began goes on with.
Work(r) ==
    Quote(r) \/ Create(r) \/ CreateFails(r) \/ SignEvm(r) \/ SignSolana(r) \/ SendFails(r)
        \/ Broadcast(r) \/ Record(r) \/ RecordFails(r)

Next ==
    \/ \E e \in Editors : Edit(e)
    \/ \E d \in Destinations : DelayPasses(d)
    \/ \E r \in Requests : Submit(r) \/ Work(r)
    \/ Mine \/ Crash

Spec == Init /\ [][Next]_vars

--------------------------------------------------------------------------------
(* Properties.                                                             *)

Phase == [none |-> "new", requested |-> "open", broadcast |-> "done", failed |-> "refused"]

Ledger == INSTANCE OncePerRequest WITH
    phase <- [key \in Keys |-> Phase[rows[key]]],
    moved <- sent

\* The rows of the table withdrawals behave as a ledger of requests: however often
\* and from however many tasks a request with one key arrives, a crash or a failing
\* write in between included, the node accepts one transaction for it at most, and
\* none once its row says failed (create_withdrawal, withdraw).
SendsOncePerKey == Ledger!Spec

\* A row tells what the node accepted: "broadcast" one transaction, "failed" none
\* unless the answer was lost, and no row no transaction (withdraw's error path).
RowsTellTheTruth ==
    \A k \in Keys :
        CASE rows[k] = "none"      -> sent[k] = 0
          [] rows[k] = "broadcast" -> sent[k] = 1
          [] rows[k] = "failed"    -> sent[k] = 0 \/ k \in lost
          [] OTHER                 -> TRUE

\* A row says requested only while its task is on its way to write the outcome,
\* unless a crash or a failing write ended the task (withdraw's error path).
OpenRowsHaveATask ==
    \A k \in Keys : rows[k] = "requested" /\ ~broken =>
        \E r \in Requests : request[r].at \in {"send", "broadcast", "book", "fail"} /\ request[r].key = k

================================================================================
