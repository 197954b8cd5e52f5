---------------------------- MODULE Transfers_proofs ----------------------------
(***************************************************************************)
(* Proofs about Transfers, for any destinations, wallets and tasks.        *)
(***************************************************************************)
EXTENDS Transfers, TLAPS

USE DEF settings, chain, At, Goes

\* What a withdrawal request may be doing.
Doing == Quoting \cup Sending \cup Signed \cup Writing \cup {Idle}

\* What a settings request may be doing.
Editing == Updating \cup Building \cup NoUpdate

\* An update of the settings goes on to a known stage, with lists in their place.
LEMMA UpdateType ==
    ASSUME TypeOK, NEW e \in Editors, NEW m \in Modes, NEW list \in Lists, NEW structural \in BOOLEAN,
           Update(e, m, list, structural)
    PROVE  TypeOK'
<1> USE DEF TypeOK
<1>1. editor' \in [Editors -> Editing]
  <2>1. [at |-> "dump", mode |-> m, allow |-> list, rebuild |-> structural] \in Editing
    BY DEF Editing, Updating
  <2>2. [at |-> "rebuild"] \in Editing /\ Idle \in Editing
    BY DEF Editing, NoUpdate, Idle
  <2> QED BY <2>1, <2>2 DEF Update, Edits, Editing
<1>2. mode' \in Modes /\ allow' \in Lists
  BY DEF Update
<1> QED BY <1>1, <1>2 DEF Update, Editing

\* The wallets a mode may use are bot wallets.
LEMMA WalletType ==
    ASSUME NEW family, NEW m
    PROVE  BotWallets(family, m) \subseteq Wallets
  BY DEF BotWallets

\* The key of a body is a key.
LEMMA KeyType ==
    ASSUME NEW b \in Bodies, NEW minute \in Minutes
    PROVE  KeyOf(b, minute) \in Keys
<1> USE BodyAssumption DEF Keys
<1>1. CASE b.key # ""
  <2>1. b.key \in ClientKeys
    BY <1>1
  <2> QED BY <1>1, <2>1 DEF KeyOf
<1>2. CASE b.key = ""
  <2>1. b.family \in Families /\ b.to \in Destinations
    OBVIOUS
  <2> QED BY <1>2, <2>1 DEF KeyOf
<1> QED BY <1>1, <1>2

\* A settings request keeps the types.
LEMMA EditType ==
    ASSUME TypeOK, NEW e \in Editors, Edit(e)
    PROVE  TypeOK'
<1> USE DEF TypeOK
<1>1. CASE Restructure(e)
  BY <1>1, UpdateType, ModeAssumption DEF Restructure
<1>9. CASE PatchAllowlist(e)
  <2>1. PICK d \in Destinations, entry \in {"fresh", "aged"} :
           Update(e, mode, [allow EXCEPT ![d] = entry], FALSE)
    BY <1>9 DEF PatchAllowlist
  <2>2. [allow EXCEPT ![d] = entry] \in Lists
    BY DEF Lists, Entries
  <2> QED BY <2>1, <2>2, UpdateType
<1>3. CASE RemoveAllowlist(e)
  <2>1. PICK d \in Destinations : Update(e, mode, [allow EXCEPT ![d] = "absent"], FALSE)
    BY <1>3 DEF RemoveAllowlist
  <2>2. [allow EXCEPT ![d] = "absent"] \in Lists
    BY DEF Lists, Entries
  <2> QED BY <2>1, <2>2, UpdateType
<1>4. CASE ActivateLive(e)
  <2>1. [at |-> "rebuild"] \in Editing
    BY DEF Editing, NoUpdate
  <2>2. editor' \in [Editors -> Editing]
    BY <1>4, <2>1 DEF ActivateLive, Edits, Editing
  <2> QED BY <1>4, <2>2 DEF ActivateLive, Editing, Modes
<1>5. CASE Assign(e)
  <2>1. editor[e] \in Updating
    BY <1>5 DEF Assign, NoUpdate, Building
  <2>2. [at |-> "rebuild"] \in Editing /\ Idle \in Editing
    BY DEF Editing, NoUpdate, Idle
  <2>3. mode' \in Modes /\ allow' \in Lists
    BY <1>5, <2>1 DEF Assign, Updating
  <2>4. editor' \in [Editors -> Editing]
    BY <1>5, <2>2 DEF Assign, Edits, Editing
  <2> QED BY <1>5, <2>3, <2>4 DEF Assign, Editing
<1>6. CASE Rebuild(e)
  <2>1. [at |-> "connect", mode |-> mode] \in Editing
    BY DEF Editing, Building
  <2>2. editor' \in [Editors -> Editing]
    BY <1>6, <2>1 DEF Rebuild, Edits, Editing
  <2> QED BY <1>6, <2>2 DEF Rebuild, Editing
<1>7. CASE Connect(e)
  <2>1. Idle \in Editing
    BY DEF Editing, NoUpdate, Idle
  <2>2. editor' \in [Editors -> Editing]
    BY <1>7, <2>1 DEF Connect, Edits, Editing
  <2> QED BY <1>7, <2>2 DEF Connect, Editing
<1> QED BY <1>1, <1>3, <1>4, <1>5, <1>6, <1>7, <1>9 DEF Edit

\* A withdrawal request keeps the types.
LEMMA WorkType ==
    ASSUME TypeOK, NEW r \in Requests, Submit(r) \/ Work(r)
    PROVE  TypeOK'
<1> USE DEF TypeOK
<1>1. request[r] \in Doing
  BY DEF Doing
<1>2. Idle \in Doing
  BY DEF Doing
<1>3. \A k \in Keys : [at |-> "fail", key |-> k] \in Doing /\ [at |-> "book", key |-> k] \in Doing
  BY DEF Doing, Writing
<1>4. CASE Submit(r)
  <2>1. PICK b \in Bodies : Goes(r, [at |-> "quote", body |-> b])
    BY <1>4 DEF Submit
  <2>2. [at |-> "quote", body |-> b] \in Doing
    BY DEF Doing, Quoting
  <2>3. request' \in [Requests -> Doing]
    BY <2>1, <2>2 DEF Doing
  <2> QED BY <1>4, <2>3 DEF Submit, Doing
<1>5. CASE Quote(r)
  <2>1. request[r] \in Quoting
    BY <1>1, <1>5 DEF Quote, Doing, Sending, Signed, Writing, Idle
  <2>2. PICK next \in Doing : Goes(r, next)
    <3>1. CASE Goes(r, Idle)
      BY <1>2, <3>1
    <3>2. CASE ~Goes(r, Idle)
      <4> DEFINE m == IF mode = "TESTNET" THEN "testnet" ELSE "live"
      <4>1. PICK w \in BotWallets(request[r].body.family, m), minute \in Minutes :
               Goes(r, [at |-> "create", key |-> KeyOf(request[r].body, minute),
                        to |-> request[r].body.to, wallet |-> w])
        BY <1>5, <3>2 DEF Quote
      <4>2. request[r].body \in Bodies
        BY <2>1 DEF Quoting
      <4>3. KeyOf(request[r].body, minute) \in Keys /\ w \in Wallets
        BY <4>1, <4>2, KeyType, WalletType
      <4>4. request[r].body.to \in Destinations
        BY <4>2, BodyAssumption
      <4>5. [at |-> "create", key |-> KeyOf(request[r].body, minute),
             to |-> request[r].body.to, wallet |-> w] \in Doing
        BY <4>3, <4>4 DEF Doing, Sending
      <4> QED BY <4>1, <4>5
    <3> QED BY <3>1, <3>2
  <2>3. request' \in [Requests -> Doing]
    BY <2>2 DEF Doing
  <2> QED BY <1>5, <2>3 DEF Quote, Doing
<1>6. CASE Create(r)
  <2>1. request[r] \in Sending
    BY <1>1, <1>6 DEF Create, Doing, Quoting, Signed, Writing, Idle
  <2>2. [request[r] EXCEPT !.at = "send"] \in Doing
    BY <2>1 DEF Sending, Doing
  <2>3. request' \in [Requests -> Doing]
    BY <1>2, <1>6, <2>2 DEF Create, Doing
  <2>4. rows' \in [Keys -> {"none", "requested", "broadcast", "failed"}]
    BY <1>6 DEF Create
  <2> QED BY <1>6, <2>3, <2>4 DEF Create, Doing
<1>7. CASE CreateFails(r) \/ RecordFails(r)
  <2>1. request' \in [Requests -> Doing]
    BY <1>2, <1>7 DEF CreateFails, RecordFails, Doing
  <2> QED BY <1>7, <2>1 DEF CreateFails, RecordFails, Doing
<1>8. CASE SignEvm(r) \/ SignSolana(r)
  <2>1. request[r] \in Sending
    BY <1>1, <1>8 DEF SignEvm, SignSolana, Signs, Doing, Quoting, Signed, Writing, Idle
  <2>2. PICK n \in Nat \cup {NoNonce} :
           Goes(r, [at |-> "broadcast", key |-> request[r].key, to |-> request[r].to,
                    wallet |-> request[r].wallet, nonce |-> n])
    BY <1>8, <2>1 DEF SignEvm, SignSolana, Signs, Sending
  <2>3. [at |-> "broadcast", key |-> request[r].key, to |-> request[r].to,
         wallet |-> request[r].wallet, nonce |-> n] \in Doing
    BY <2>1 DEF Sending, Signed, Doing
  <2>4. request' \in [Requests -> Doing]
    BY <2>2, <2>3 DEF Doing
  <2> QED BY <1>8, <2>4 DEF SignEvm, SignSolana, Signs, Doing
<1>9. CASE SendFails(r)
  <2>1. request[r] \in Sending \cup Signed
    BY <1>1, <1>9 DEF SendFails, Doing, Quoting, Writing, Idle
  <2>2. request[r].key \in Keys
    BY <2>1 DEF Sending, Signed
  <2>3. request' \in [Requests -> Doing]
    BY <1>3, <1>9, <2>2 DEF SendFails, Caught, Doing
  <2> QED BY <1>9, <2>3 DEF SendFails, Doing
<1>10. CASE Broadcast(r)
  <2>1. request[r] \in Signed
    BY <1>1, <1>10 DEF Broadcast, Doing, Quoting, Sending, Writing, Idle
  <2>2. [key |-> request[r].key, to |-> request[r].to, wallet |-> request[r].wallet,
         nonce |-> request[r].nonce] \in Transactions
    BY <2>1 DEF Signed, Transactions
  <2>3. pool' \subseteq Transactions
    BY <1>10, <2>2 DEF Broadcast
  <2>4. request[r].key \in Keys
    BY <2>1 DEF Signed
  <2>5. sent' \in [Keys -> Nat] /\ lost' \subseteq Keys
    BY <1>10, <2>4 DEF Broadcast
  <2>6. request' \in [Requests -> Doing]
    BY <1>3, <1>10, <2>4 DEF Broadcast, Doing
  <2> QED BY <1>10, <2>3, <2>5, <2>6 DEF Broadcast, Doing
<1>11. CASE Record(r)
  <2>1. request' \in [Requests -> Doing]
    BY <1>2, <1>11 DEF Record, Doing
  <2>2. rows' \in [Keys -> {"none", "requested", "broadcast", "failed"}]
    BY <1>11 DEF Record, Status
  <2> QED BY <1>11, <2>1, <2>2 DEF Record, Doing
<1> QED BY <1>4, <1>5, <1>6, <1>7, <1>8, <1>9, <1>10, <1>11 DEF Work

\* Every step keeps the types.
LEMMA TypeStep == TypeOK /\ [Next]_vars => TypeOK'
<1> SUFFICES ASSUME TypeOK, [Next]_vars PROVE TypeOK'
  OBVIOUS
<1>1. CASE \E e \in Editors : Edit(e)
  BY <1>1, EditType
<1>2. CASE \E r \in Requests : Submit(r) \/ Work(r)
  BY <1>2, WorkType
<1>3. CASE \E d \in Destinations : DelayPasses(d)
  <2>1. PICK d \in Destinations : DelayPasses(d)
    BY <1>3
  <2>2. allow' \in Lists
    BY <2>1 DEF DelayPasses, TypeOK, Lists, Entries
  <2> QED BY <2>1, <2>2 DEF DelayPasses, TypeOK
<1>4. CASE Mine
  <2>1. PICK tx \in pool : mined' = [mined EXCEPT ![tx.wallet] = @ + 1] /\ pool' = pool \ {tx}
    BY <1>4 DEF Mine
  <2>2. tx.wallet \in Wallets
    BY DEF TypeOK, Transactions
  <2>3. mined' \in [Wallets -> Nat]
    BY <2>1, <2>2 DEF TypeOK
  <2>4. pool' \subseteq Transactions
    BY <2>1 DEF TypeOK
  <2> QED BY <1>4, <2>3, <2>4 DEF Mine, TypeOK
<1>5. CASE Crash
  <2>1. request' \in [Requests -> {Idle}] /\ editor' \in [Editors -> {Idle}]
    BY <1>5 DEF Crash
  <2>2. editor' \in [Editors -> Updating \cup NoUpdate]
    BY <2>1 DEF NoUpdate, Idle
  <2> QED BY <1>5, <2>1, <2>2 DEF Crash, TypeOK
<1>6. CASE UNCHANGED vars
  BY <1>6 DEF vars, TypeOK
<1> QED BY <1>1, <1>2, <1>3, <1>4, <1>5, <1>6 DEF Next

\* The initial state has the types.
LEMMA InitType == Init => TypeOK
<1> SUFFICES ASSUME Init PROVE TypeOK
  OBVIOUS
<1>1. editor \in [Editors -> Updating \cup NoUpdate] /\ allow \in Lists /\ mode \in Modes
  BY DEF Init, NoUpdate, Idle, Lists, Entries, Modes, Simulated
<1> QED BY <1>1 DEF Init, TypeOK

\* Every variable of Transfers keeps its shape.
THEOREM TypeCorrect == Spec => []TypeOK
  BY InitType, TypeStep, PTL DEF Spec

--------------------------------------------------------------------------------
(* A request that inserted its row owns it until it has written the        *)
(* outcome, and knows what the node accepted for it.                       *)

Owns(r) == request[r].at \in {"send", "broadcast", "book", "fail"}

OneOwner ==
    \A r, s \in Requests : Owns(r) /\ Owns(s) /\ request[r].key = request[s].key => r = s

Knows(r, k) ==
    /\ rows[k] = "requested"
    /\ request[r].at \in {"send", "broadcast"} => sent[k] = 0
    /\ request[r].at = "book" => sent[k] = 1
    /\ request[r].at = "fail" => sent[k] = 0 \/ (sent[k] = 1 /\ k \in lost)

OwnersKnow == \A r \in Requests : Owns(r) => Knows(r, request[r].key)

\* The ledger without a request at work: what a crash leaves.
RowsAgree ==
    \A k \in Keys :
        /\ rows[k] = "none" => sent[k] = 0
        /\ rows[k] = "requested" => sent[k] \in {0, 1}
        /\ rows[k] = "broadcast" => sent[k] = 1
        /\ rows[k] = "failed" => sent[k] = 0 \/ (sent[k] = 1 /\ k \in lost)

LedgerInv == TypeOK /\ OneOwner /\ OwnersKnow /\ RowsAgree

\* A request at work is at a stage whose record has a key.
LEMMA OwnedKey ==
    ASSUME TypeOK, NEW r \in Requests, Owns(r)
    PROVE  request[r].key \in Keys
<1>1. request[r] \in Sending \cup Signed \cup Writing
  BY DEF TypeOK, Owns, Quoting, Idle
<1> QED BY <1>1 DEF Sending, Signed, Writing

\* Whoever leaves the requests that own a row alone, and the rows and what was
\* sent, keeps the invariant.
LEMMA Undisturbed ==
    LedgerInv /\ TypeOK' /\ UNCHANGED <<rows, sent, lost>>
      /\ (\A r \in Requests : request'[r] = request[r] \/ ~Owns(r)')
    => LedgerInv'
  BY DEF LedgerInv, OneOwner, OwnersKnow, Knows, RowsAgree, Owns

\* Inserting a row makes the request its only owner: nobody owns a row that
\* is not there.
LEMMA CreateOwns == LedgerInv /\ TypeOK' /\ (\E r \in Requests : Create(r)) => LedgerInv'
<1> SUFFICES ASSUME LedgerInv, TypeOK', NEW r \in Requests, Create(r) PROVE LedgerInv'
  OBVIOUS
<1> USE DEF LedgerInv
<1> DEFINE k == request[r].key
<1>1. request[r] \in Sending
  BY DEF Create, TypeOK, Quoting, Signed, Writing, Idle
<1>2. k \in Keys
  BY <1>1 DEF Sending
<1>3. CASE ~Inserts(k)
  <2>1. ~Owns(r)' /\ (\A s \in Requests \ {r} : request'[s] = request[s])
    BY <1>3 DEF Create, TypeOK, Owns, Idle
  <2>2. UNCHANGED <<rows, sent, lost>>
    BY <1>3 DEF Create
  <2> QED BY <2>1, <2>2, Undisturbed
<1>4. CASE Inserts(k)
  <2>1. /\ rows[k] = "none" /\ rows' = [rows EXCEPT ![k] = "requested"]
        /\ sent' = sent /\ lost' = lost
    BY <1>4 DEF Inserts, Create
  <2>2. request'[r].at = "send" /\ request'[r].key = k
    BY <1>1, <1>4 DEF Create, TypeOK, Sending
  <2>3. \A s \in Requests \ {r} : request'[s] = request[s]
    BY <1>4 DEF Create, TypeOK
  <2>4. sent[k] = 0
    BY <1>2, <2>1 DEF RowsAgree
  <2>5. \A s \in Requests : Owns(s) => request[s].key # k
    BY <2>1 DEF OwnersKnow, Knows
  <2>6. OneOwner'
    BY <2>2, <2>3, <2>5 DEF OneOwner, Owns
  <2>7. rows'[k] = "requested" /\ \A j \in Keys \ {k} : rows'[j] = rows[j]
    BY <1>2, <2>1 DEF TypeOK
  <2>8. OwnersKnow'
    <3> SUFFICES ASSUME NEW s \in Requests, Owns(s)' PROVE Knows(s, request[s].key)'
      BY DEF OwnersKnow
    <3>1. CASE s = r
      BY <2>1, <2>2, <2>4, <2>7, <3>1 DEF Knows
    <3>2. CASE s # r
      <4>1. Owns(s) /\ request'[s] = request[s]
        BY <2>3, <3>2 DEF Owns
      <4>2. request[s].key \in Keys \ {k}
        BY <4>1, <2>5, OwnedKey
      <4> QED BY <2>1, <2>7, <4>1, <4>2 DEF OwnersKnow, Knows
    <3> QED BY <3>1, <3>2
  <2>9. RowsAgree'
    BY <2>1, <2>4, <2>7 DEF RowsAgree
  <2> QED BY <2>6, <2>8, <2>9
<1> QED BY <1>3, <1>4

\* Passing from one stage to the next, with the row and its key, keeps the
\* request its owner.
LEMMA SameOwner ==
    LedgerInv /\ TypeOK' /\ rows' = rows
      /\ (\E r \in Requests :
            /\ Owns(r) /\ request'[r].key = request[r].key
            /\ \A s \in Requests \ {r} : request'[s] = request[s]
            /\ Knows(r, request[r].key)'
            /\ LET k == request[r].key
               IN  /\ \A j \in Keys \ {k} : sent'[j] = sent[j]
                   /\ sent'[k] \in {0, 1}
            /\ lost \subseteq lost')
    => LedgerInv'
<1> SUFFICES ASSUME LedgerInv, TypeOK', rows' = rows, NEW r \in Requests,
                    Owns(r), request'[r].key = request[r].key,
                    \A s \in Requests \ {r} : request'[s] = request[s],
                    Knows(r, request[r].key)',
                    \A j \in Keys \ {request[r].key} : sent'[j] = sent[j],
                    sent'[request[r].key] \in {0, 1},
                    lost \subseteq lost'
             PROVE  LedgerInv'
  OBVIOUS
<1> USE DEF LedgerInv
<1> DEFINE k == request[r].key
<1>1. k \in Keys /\ rows[k] = "requested"
  BY OwnedKey DEF OwnersKnow, Knows
<1>2. \A s \in Requests \ {r} : Owns(s)' => Owns(s) /\ request[s].key \in Keys \ {k}
  <2> SUFFICES ASSUME NEW s \in Requests \ {r}, Owns(s)'
               PROVE  Owns(s) /\ request[s].key \in Keys \ {k}
    OBVIOUS
  <2>1. Owns(s)
    BY DEF Owns
  <2> QED BY <2>1, OwnedKey DEF OneOwner
<1>3. OneOwner'
  <2> SUFFICES ASSUME NEW s \in Requests, NEW t \in Requests, Owns(s)', Owns(t)',
                      (request[s].key = request[t].key)'
               PROVE  s = t
    BY DEF OneOwner
  <2>1. CASE s = r \/ t = r
    BY <1>2, <2>1
  <2>2. CASE s # r /\ t # r
    BY <1>2, <2>2 DEF OneOwner
  <2> QED BY <2>1, <2>2
<1>4. OwnersKnow'
  <2> SUFFICES ASSUME NEW s \in Requests, Owns(s)' PROVE Knows(s, request[s].key)'
    BY DEF OwnersKnow
  <2>1. CASE s = r
    BY <2>1
  <2>2. CASE s # r
    BY <1>2, <2>2 DEF OwnersKnow, Knows
  <2> QED BY <2>1, <2>2
<1>5. RowsAgree'
  <2> SUFFICES ASSUME NEW j \in Keys
               PROVE  /\ rows[j] = "none" => sent'[j] = 0
                      /\ rows[j] = "requested" => sent'[j] \in {0, 1}
                      /\ rows[j] = "broadcast" => sent'[j] = 1
                      /\ rows[j] = "failed" => sent'[j] = 0 \/ (sent'[j] = 1 /\ j \in lost')
    BY DEF RowsAgree
  <2>1. CASE j = k
    BY <1>1, <2>1
  <2>2. CASE j # k
    BY <2>2 DEF RowsAgree
  <2> QED BY <2>1, <2>2
<1> QED BY <1>3, <1>4, <1>5

\* Writing the outcome closes the row and gives it up.
LEMMA RecordCloses == LedgerInv /\ TypeOK' /\ (\E r \in Requests : Record(r)) => LedgerInv'
<1> SUFFICES ASSUME LedgerInv, TypeOK', NEW r \in Requests, Record(r) PROVE LedgerInv'
  OBVIOUS
<1> USE DEF LedgerInv
<1> DEFINE k == request[r].key
<1>1. Owns(r) /\ k \in Keys /\ Knows(r, k)
  BY OwnedKey DEF Record, Owns, OwnersKnow
<1>2. /\ rows'[k] = Status(request[r].at) /\ \A j \in Keys \ {k} : rows'[j] = rows[j]
      /\ sent' = sent /\ lost' = lost
  BY <1>1 DEF Record, TypeOK
<1>3. ~Owns(r)' /\ \A s \in Requests \ {r} : request'[s] = request[s]
  BY DEF Record, TypeOK, Owns, Idle
<1>4. \A s \in Requests : Owns(s)' => s # r /\ Owns(s) /\ request[s].key \in Keys \ {k}
  <2> SUFFICES ASSUME NEW s \in Requests, Owns(s)'
               PROVE  s # r /\ Owns(s) /\ request[s].key \in Keys \ {k}
    OBVIOUS
  <2>1. s # r /\ Owns(s)
    BY <1>3 DEF Owns
  <2> QED BY <1>1, <2>1, OwnedKey DEF OneOwner
<1>5. OneOwner'
  BY <1>3, <1>4 DEF OneOwner
<1>6. OwnersKnow'
  <2> SUFFICES ASSUME NEW s \in Requests, Owns(s)' PROVE Knows(s, request[s].key)'
    BY DEF OwnersKnow
  <2> QED BY <1>2, <1>3, <1>4 DEF OwnersKnow, Knows
<1>7. RowsAgree'
  <2>1. /\ request[r].at = "book" => rows'[k] = "broadcast" /\ sent'[k] = 1
        /\ request[r].at = "fail" => rows'[k] = "failed" /\ (sent'[k] = 0 \/ (sent'[k] = 1 /\ k \in lost'))
    BY <1>1, <1>2 DEF Knows, Status
  <2>2. request[r].at \in {"book", "fail"}
    BY DEF Record
  <2> QED BY <1>2, <2>1, <2>2 DEF RowsAgree
<1> QED BY <1>5, <1>6, <1>7

\* Every step keeps the ledger's invariant.
LEMMA LedgerStep == LedgerInv /\ [Next]_vars => LedgerInv'
<1> SUFFICES ASSUME LedgerInv, [Next]_vars PROVE LedgerInv'
  OBVIOUS
<1> USE DEF LedgerInv
<1>1. TypeOK'
  BY TypeStep
<1>2. CASE \E e \in Editors : Edit(e)
  <2>1. UNCHANGED <<rows, sent, lost, request>>
    BY <1>2 DEF Edit, Restructure, PatchAllowlist, RemoveAllowlist, Update, ActivateLive, Assign, Rebuild, Connect
  <2> QED BY <1>1, <2>1, Undisturbed
<1>3. CASE (\E d \in Destinations : DelayPasses(d)) \/ Mine \/ UNCHANGED vars
  <2>1. UNCHANGED <<rows, sent, lost, request>>
    BY <1>3 DEF DelayPasses, Mine, vars
  <2> QED BY <1>1, <2>1, Undisturbed
<1>4. CASE Crash
  <2>1. UNCHANGED <<rows, sent, lost>> /\ \A r \in Requests : ~Owns(r)'
    BY <1>4 DEF Crash, Owns, Idle
  <2> QED BY <1>1, <2>1, Undisturbed
<1>5. ASSUME NEW r \in Requests, Submit(r) \/ Quote(r) \/ CreateFails(r) \/ RecordFails(r)
      PROVE  LedgerInv'
  <2>1. UNCHANGED <<rows, sent, lost>>
    BY <1>5 DEF Submit, Quote, CreateFails, RecordFails
  <2>2. ~Owns(r)'
    BY <1>5 DEF Submit, Quote, CreateFails, RecordFails, TypeOK, Owns, Idle
  <2>3. \A s \in Requests \ {r} : request'[s] = request[s]
    BY <1>5 DEF Submit, Quote, CreateFails, RecordFails, TypeOK
  <2> QED BY <1>1, <2>1, <2>2, <2>3, Undisturbed
<1>6. ASSUME NEW r \in Requests, SignEvm(r) \/ SignSolana(r) \/ SendFails(r)
      PROVE  LedgerInv'
  <2>1. Owns(r) /\ request[r].key \in Keys /\ Knows(r, request[r].key)
    BY <1>6, OwnedKey DEF SignEvm, SignSolana, Signs, SendFails, Owns, OwnersKnow
  <2>2. /\ request'[r].key = request[r].key /\ request'[r].at \in {"broadcast", "fail"}
        /\ request[r].at \in {"send", "broadcast"}
    BY <1>6 DEF SignEvm, SignSolana, Signs, SendFails, Caught, TypeOK
  <2>3. \A s \in Requests \ {r} : request'[s] = request[s]
    BY <1>6 DEF SignEvm, SignSolana, Signs, SendFails, TypeOK
  <2>4. UNCHANGED <<rows, sent, lost>>
    BY <1>6 DEF SignEvm, SignSolana, Signs, SendFails
  <2>5. Knows(r, request[r].key)' /\ sent[request[r].key] = 0
    BY <2>1, <2>2, <2>4 DEF Knows
  <2> QED BY <1>1, <2>1, <2>2, <2>3, <2>4, <2>5, SameOwner
<1>7. ASSUME NEW r \in Requests, Broadcast(r)
      PROVE  LedgerInv'
  <2>1. Owns(r) /\ request[r].key \in Keys /\ Knows(r, request[r].key)
    BY <1>7, OwnedKey DEF Broadcast, Owns, OwnersKnow
  <2>2. rows' = rows /\ sent' = [sent EXCEPT ![request[r].key] = @ + 1]
    BY <1>7 DEF Broadcast
  <2>3. sent[request[r].key] = 0 /\ rows[request[r].key] = "requested"
    BY <1>7, <2>1 DEF Broadcast, Knows
  <2>4. sent'[request[r].key] = 1 /\ \A j \in Keys \ {request[r].key} : sent'[j] = sent[j]
    BY <2>1, <2>2, <2>3 DEF TypeOK
  <2>5. PICK heard \in BOOLEAN :
           /\ Goes(r, [at |-> IF heard THEN "book" ELSE "fail", key |-> request[r].key])
           /\ lost' = IF heard THEN lost ELSE lost \cup {request[r].key}
    BY <1>7 DEF Broadcast
  <2>6. request'[r].key = request[r].key /\ \A s \in Requests \ {r} : request'[s] = request[s]
    BY <2>5 DEF TypeOK
  <2>7. request'[r].at = IF heard THEN "book" ELSE "fail"
    BY <2>5 DEF TypeOK
  <2>8. Knows(r, request[r].key)' /\ lost \subseteq lost'
    BY <2>2, <2>3, <2>4, <2>5, <2>6, <2>7 DEF Knows
  <2> QED BY <1>1, <2>1, <2>2, <2>4, <2>6, <2>8, SameOwner
<1> QED BY <1>1, <1>2, <1>3, <1>4, <1>5, <1>6, <1>7, CreateOwns, RecordCloses DEF Next, Work

\* The ledger's invariant holds in every state.
LEMMA LedgerInvariant == Spec => []LedgerInv
<1>1. Init => LedgerInv
  <2> SUFFICES ASSUME Init PROVE LedgerInv
    OBVIOUS
  <2>1. TypeOK
    BY InitType
  <2>2. \A r \in Requests : ~Owns(r)
    BY DEF Init, Owns, Idle
  <2>3. RowsAgree
    BY DEF Init, RowsAgree
  <2> QED BY <2>1, <2>2, <2>3 DEF LedgerInv, OneOwner, OwnersKnow
<1> QED BY <1>1, LedgerStep, PTL DEF Spec

\* A row tells what the node accepted, for any number of tasks and keys.
THEOREM RowsTellTheTruthHolds == Spec => []RowsTellTheTruth
<1>1. LedgerInv => RowsTellTheTruth
  BY DEF LedgerInv, RowsAgree, RowsTellTheTruth
<1> QED BY <1>1, LedgerInvariant, PTL

\* A requested row has its task as long as no crash and no failing write ended one.
LEMMA TasksStay == OpenRowsHaveATask /\ LedgerInv /\ [Next]_vars => OpenRowsHaveATask'
<1> SUFFICES ASSUME OpenRowsHaveATask, LedgerInv, [Next]_vars,
                    NEW k \in Keys, rows'[k] = "requested", ~broken'
             PROVE  \E r \in Requests : Owns(r)' /\ request'[r].key = k
  BY DEF OpenRowsHaveATask, Owns
<1> USE DEF LedgerInv
<1>1. ~Crash /\ ~(\E r \in Requests : RecordFails(r))
  BY DEF Crash, RecordFails
<1>2. ~broken
  BY <1>1 DEF Next, Edit, Restructure, PatchAllowlist, RemoveAllowlist, Update,
         ActivateLive, Assign, Rebuild, Connect, DelayPasses, Submit, Work, Quote, Create, CreateFails, SignEvm, SignSolana, Signs,
         SendFails, Broadcast, Record, Mine, vars
<1>3. rows[k] = "requested" => \E r \in Requests : Owns(r) /\ request[r].key = k
  BY <1>2 DEF OpenRowsHaveATask, Owns
<1>4. CASE UNCHANGED <<request, rows>>
  BY <1>3, <1>4 DEF Owns
<1>5. ASSUME NEW r \in Requests, Submit(r) \/ Quote(r) \/ CreateFails(r)
      PROVE  \E s \in Requests : Owns(s)' /\ request'[s].key = k
  <2>1. rows' = rows /\ ~Owns(r) /\ \A s \in Requests \ {r} : request'[s] = request[s]
    BY <1>5 DEF Submit, Quote, CreateFails, TypeOK, Owns
  <2> QED BY <1>3, <2>1 DEF Owns
<1>6. ASSUME NEW r \in Requests, Create(r)
      PROVE  \E s \in Requests : Owns(s)' /\ request'[s].key = k
  <2>1. ~Owns(r) /\ \A s \in Requests \ {r} : request'[s] = request[s]
    BY <1>6 DEF Create, TypeOK, Owns
  <2>2. CASE rows[k] = "requested"
    BY <1>3, <2>1, <2>2 DEF Owns
  <2>3. CASE rows[k] # "requested"
    <3>1. request[r] \in Sending
      BY <1>6 DEF Create, TypeOK, Quoting, Signed, Writing, Idle
    <3>2. request[r].key = k /\ request'[r] = [request[r] EXCEPT !.at = "send"]
      BY <1>6, <2>3, <3>1 DEF Create, TypeOK
    <3>3. request'[r].at = "send" /\ request'[r].key = k
      BY <3>1, <3>2 DEF Sending
    <3> QED BY <3>3 DEF Owns
  <2> QED BY <2>2, <2>3
<1>7. ASSUME NEW r \in Requests, SignEvm(r) \/ SignSolana(r) \/ SendFails(r) \/ Broadcast(r)
      PROVE  \E s \in Requests : Owns(s)' /\ request'[s].key = k
  <2>1. rows' = rows /\ \A s \in Requests \ {r} : request'[s] = request[s]
    BY <1>7 DEF SignEvm, SignSolana, Signs, SendFails, Broadcast, TypeOK
  <2>2. request'[r].key = request[r].key /\ request'[r].at \in {"broadcast", "book", "fail"}
    BY <1>7 DEF SignEvm, SignSolana, Signs, SendFails, Caught, Broadcast, TypeOK
  <2> QED BY <1>3, <2>1, <2>2 DEF Owns
<1>8. ASSUME NEW r \in Requests, Record(r)
      PROVE  \E s \in Requests : Owns(s)' /\ request'[s].key = k
  <2>1. \A s \in Requests \ {r} : request'[s] = request[s]
    BY <1>8 DEF Record, TypeOK
  <2>2. Owns(r) /\ request[r].key \in Keys
    BY <1>8, OwnedKey DEF Record, Owns
  <2>3. rows'[request[r].key] \in {"broadcast", "failed"}
    BY <1>8, <2>2 DEF Record, Status, TypeOK
  <2>4. k # request[r].key
    BY <2>3
  <2>5. rows[k] = "requested"
    BY <1>8, <2>2, <2>4 DEF Record, TypeOK
  <2> QED BY <1>3, <2>1, <2>4, <2>5 DEF Owns
<1>9. CASE (\E e \in Editors : Edit(e)) \/ (\E d \in Destinations : DelayPasses(d)) \/ Mine \/ UNCHANGED vars
  <2>1. UNCHANGED <<request, rows>>
    BY <1>9 DEF Edit, Restructure, PatchAllowlist, RemoveAllowlist, Update,
                ActivateLive, Assign, Rebuild, Connect, DelayPasses, Mine, vars
  <2> QED BY <1>4, <2>1
<1> QED BY <1>1, <1>5, <1>6, <1>7, <1>8, <1>9 DEF Next, Work

\* A row says requested only while its task is on its way to write the outcome,
\* unless a crash or a failing write ended the task.
THEOREM OpenRowsHaveATaskHolds == Spec => []OpenRowsHaveATask
<1>1. Init => OpenRowsHaveATask
  BY DEF Init, OpenRowsHaveATask
<1> QED BY <1>1, TasksStay, LedgerInvariant, PTL DEF Spec

--------------------------------------------------------------------------------
(* The withdrawals ledger implements OncePerRequest.                       *)

\* A step that leaves the rows and what was sent alone is a stutter of the
\* abstract ledger.
LEMMA Stutters == UNCHANGED <<rows, sent>> => UNCHANGED Ledger!vars
  BY DEF Ledger!vars

\* A change of one row is a change of one phase.
LEMMA PhaseChange ==
    ASSUME TypeOK, NEW k \in Keys, NEW s \in DOMAIN Phase, rows' = [rows EXCEPT ![k] = s]
    PROVE  [j \in Keys |-> Phase[rows'[j]]]
             = [[j \in Keys |-> Phase[rows[j]]] EXCEPT ![k] = Phase[s]]
  BY DEF TypeOK

\* A step of one request of the abstract ledger is a step of it.
LEMMA AbstractStep ==
    ASSUME NEW j \in Keys,
           Ledger!Claim(j) \/ Ledger!Move(j) \/ Ledger!Finish(j) \/ Ledger!Refuse(j)
    PROVE  Ledger!Next
  BY DEF Ledger!Next

\* Every step of Transfers is a step of the abstract ledger, or leaves it alone.
LEMMA StepRefines == LedgerInv /\ [Next]_vars => [Ledger!Next]_(Ledger!vars)
<1> SUFFICES ASSUME LedgerInv, [Next]_vars PROVE [Ledger!Next]_(Ledger!vars)
  OBVIOUS
<1> USE DEF LedgerInv
<1>1. CASE UNCHANGED <<rows, sent>>
  BY <1>1, Stutters
<1>2. ASSUME NEW r \in Requests, Create(r), Inserts(request[r].key)
      PROVE  Ledger!Next
  <2>1. request[r] \in Sending
    BY <1>2 DEF Create, TypeOK, Quoting, Signed, Writing, Idle
  <2>2. PICK k \in Keys : k = request[r].key
    BY <2>1 DEF Sending
  <2>3. rows[k] = "none" /\ rows' = [rows EXCEPT ![k] = "requested"] /\ sent' = sent
    BY <1>2, <2>2 DEF Create, Inserts
  <2>4. [j \in Keys |-> Phase[rows'[j]]] = [[j \in Keys |-> Phase[rows[j]]] EXCEPT ![k] = "open"]
    BY <2>2, <2>3, PhaseChange DEF Phase
  <2>5. Ledger!Claim(k)
    BY <2>2, <2>3, <2>4 DEF Ledger!Claim, Ledger!Enters, Phase
  <2> QED BY <2>2, <2>5, AbstractStep
<1>3. ASSUME NEW r \in Requests, Broadcast(r)
      PROVE  Ledger!Next
  <2>1. PICK k \in Keys : k = request[r].key
    BY <1>3, OwnedKey DEF Broadcast, Owns
  <2>2. rows[k] = "requested" /\ sent[k] = 0
    BY <1>3, <2>1 DEF Broadcast, Owns, OwnersKnow, Knows
  <2>3. rows' = rows /\ sent' = [sent EXCEPT ![k] = 1]
    BY <1>3, <2>1, <2>2 DEF Broadcast, TypeOK
  <2>4. Ledger!Move(k)
    BY <2>1, <2>2, <2>3 DEF Ledger!Move, Phase
  <2> QED BY <2>4, AbstractStep
<1>4. ASSUME NEW r \in Requests, Record(r)
      PROVE  Ledger!Next
  <2>1. PICK k \in Keys : k = request[r].key
    BY <1>4, OwnedKey DEF Record, Owns
  <2>2. rows[k] = "requested" /\ (request[r].at = "book" => sent[k] = 1)
    BY <1>4, <2>1 DEF Record, Owns, OwnersKnow, Knows
  <2>3. rows' = [rows EXCEPT ![k] = Status(request[r].at)] /\ sent' = sent
    BY <1>4, <2>1 DEF Record
  <2>4. CASE request[r].at = "book"
    <3>1. [j \in Keys |-> Phase[rows'[j]]] = [[j \in Keys |-> Phase[rows[j]]] EXCEPT ![k] = "done"]
      BY <2>3, <2>4, PhaseChange DEF Phase, Status
    <3>2. Ledger!Finish(k)
      BY <2>2, <2>3, <2>4, <3>1 DEF Ledger!Finish, Ledger!Enters, Phase
    <3> QED BY <3>2, AbstractStep
  <2>5. CASE request[r].at = "fail"
    <3>1. [j \in Keys |-> Phase[rows'[j]]] = [[j \in Keys |-> Phase[rows[j]]] EXCEPT ![k] = "refused"]
      BY <2>3, <2>5, PhaseChange DEF Phase, Status
    <3>2. Ledger!Refuse(k)
      BY <2>2, <2>3, <3>1 DEF Ledger!Refuse, Ledger!Enters, Phase
    <3> QED BY <3>2, AbstractStep
  <2> QED BY <1>4, <2>4, <2>5 DEF Record
<1>5. ASSUME NEW r \in Requests, Create(r), ~Inserts(request[r].key)
      PROVE  UNCHANGED <<rows, sent>>
  BY <1>5 DEF Create
<1>6. ASSUME NEW r \in Requests,
             Submit(r) \/ Quote(r) \/ CreateFails(r) \/ SignEvm(r) \/ SignSolana(r) \/ SendFails(r) \/ RecordFails(r)
      PROVE  UNCHANGED <<rows, sent>>
  BY <1>6 DEF Submit, Quote, CreateFails, SignEvm, SignSolana, Signs, SendFails, RecordFails
<1>7. ASSUME NEW e \in Editors, Edit(e)
      PROVE  UNCHANGED <<rows, sent>>
  BY <1>7 DEF Edit, Restructure, PatchAllowlist, RemoveAllowlist, Update, ActivateLive, Assign, Rebuild, Connect
<1>8. CASE (\E d \in Destinations : DelayPasses(d)) \/ Mine \/ Crash \/ UNCHANGED vars
  <2>1. UNCHANGED <<rows, sent>>
    BY <1>8 DEF DelayPasses, Mine, Crash, vars
  <2> QED BY <1>1, <2>1
<1> QED BY <1>1, <1>2, <1>3, <1>4, <1>5, <1>6, <1>7, <1>8 DEF Next, Work

\* However often and from however many tasks a request with one key arrives, the
\* node accepts one transaction for it at most, and none once its row says failed.
THEOREM SendsOncePerKeyHolds == Spec => SendsOncePerKey
<1>1. Init => Ledger!Init
  BY DEF Init, Ledger!Init, Phase
<1> QED BY <1>1, StepRefines, LedgerInvariant, PTL DEF Spec, SendsOncePerKey, Ledger!Spec
================================================================================
