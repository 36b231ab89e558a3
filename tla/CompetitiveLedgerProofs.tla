------------------------ MODULE CompetitiveLedgerProofs ------------------------
(***************************************************************************)
(* Proofs, for any number of transactions, matches and users, of the       *)
(* safety properties of CompetitiveLedger.  Those about the end of a match *)
(* assume that who accepts an action also updates the match's row.         *)
(***************************************************************************)
EXTENDS CompetitiveLedger, TLAPS

\* What a transaction has written fits its phase and its request.
Shape ==
  \A t \in Transactions :
    /\ phase[t] # "open" => request[t] = None /\ change[t] = None
    /\ request[t] = None => wrote[t] = {}
    /\ request[t] # None /\ change[t] # None =>
         change[t] = [match |-> request[t].match, state |-> "active"]
    /\ "action" \in wrote[t] => "receipt" \in wrote[t]

Typed == TypeOK /\ Shape

\* One transaction has the row of a match, and what the trigger saw still holds.
RowsHeld ==
  /\ \A t, u \in Transactions :
       change[t] # None /\ change[u] # None /\ change[t].match = change[u].match => t = u
  /\ \A t \in Transactions : change[t] # None =>
       /\ state[change[t].match] \notin Terminal
       /\ ~(change[t].state = "scheduled" /\ state[change[t].match] = "active")

\* Nothing is accepted while a cancellation is under way.
CancelsEmpty ==
  \A t \in Transactions : change[t] # None /\ change[t].state = "cancelled" =>
    Accepted(change[t].match) = {}

-----------------------------------------------------------------------------
LEMMA TypedInit == Init => Typed
BY DEF Init, Typed, TypeOK, Shape, States

LEMMA RequestFields ==
  ASSUME TypeOK, NEW t \in Transactions, request[t] # None
  PROVE  /\ request[t] \in Request
         /\ request[t].match \in Matches /\ request[t].user \in Users
         /\ request[t].side \in Sides /\ request[t].key \in Keys
         /\ Place(t) \in Matches \X Users
         /\ ActionOf(t) \in Action
         /\ ReceiptOf(t) \in Receipt
         /\ LockOf(t) \in Lock
BY DEF TypeOK, Request, Place, ActionOf, ReceiptOf, LockOf, Action, Receipt, Lock

LEMMA ChangeFields ==
  ASSUME TypeOK, NEW t \in Transactions, change[t] # None
  PROVE  change[t] \in Change /\ change[t].match \in Matches /\ change[t].state \in States
BY DEF TypeOK, Change

LEMMA TypedStep == Typed /\ [Next]_vars => Typed'
<1> SUFFICES ASSUME Typed, [Next]_vars PROVE Typed'
  OBVIOUS
<1> USE NoneAssumption
<1> USE DEF Typed
<1>1. ASSUME NEW t \in Transactions, NEW r \in Request, Begin(t, r) PROVE Typed'
  <2>1. TypeOK'
    BY <1>1 DEF Begin, TypeOK, tables
  <2>2. Shape'
    BY <1>1 DEF Begin, TypeOK, Shape, tables
  <2> QED BY <2>1, <2>2
<1>2. ASSUME NEW t \in Transactions,
             NEW row \in {"participant", "receipt", "action"},
             Write(t, row), row = "action" => "receipt" \in wrote[t]
      PROVE Typed'
  <2>1. TypeOK'
    BY <1>2 DEF Write, TypeOK, tables
  <2>2. Shape'
    BY <1>2 DEF Write, Open, TypeOK, Shape, tables
  <2> QED BY <2>1, <2>2
<1>3. ASSUME NEW t \in Transactions, UpdateScore(t) PROVE Typed'
  <2>1. [match |-> request[t].match, state |-> "active"] \in Change
    BY <1>3, RequestFields DEF UpdateScore, Change, States
  <2>2. TypeOK'
    BY <1>3, <2>1 DEF UpdateScore, TypeOK, tables
  <2>3. Shape'
    BY <1>3, <2>1 DEF UpdateScore, Open, TypeOK, Shape, tables
  <2> QED BY <2>2, <2>3
<1>4. ASSUME NEW t \in Transactions, NEW m \in Matches, NEW new \in States,
             UpdateState(t, m, new)
      PROVE Typed'
  <2>1. [match |-> m, state |-> new] \in Change
    BY DEF Change
  <2>2. TypeOK'
    BY <1>4, <2>1 DEF UpdateState, TypeOK, tables
  <2>3. Shape'
    BY <1>4, <2>1 DEF UpdateState, TypeOK, Shape, tables
  <2> QED BY <2>2, <2>3
<1>5. ASSUME NEW t \in Transactions, End(t), TypeOK' PROVE Typed'
  BY <1>5 DEF End, Shape, TypeOK
<1>6. ASSUME NEW t \in Transactions, Commit(t) PROVE Typed'
  <2>1. wrote[t] # {} => request[t] # None
    BY DEF Shape
  <2>2. state' \in [Matches -> States]
    BY <1>6, ChangeFields DEF Commit, StateSeen, TypeOK
  <2>3. participant' \in [Matches \X Users -> Lock \cup {None}]
    BY <1>6, <2>1, RequestFields DEF Commit, TypeOK
  <2>4. ledger' \subseteq Action /\ receipts' \subseteq Receipt
    BY <1>6, <2>1, RequestFields DEF Commit, TypeOK
  <2>5. End(t)
    BY <1>6 DEF Commit
  <2>6. TypeOK'
    BY <2>2, <2>3, <2>4, <2>5 DEF End, TypeOK
  <2> QED BY <1>5, <2>5, <2>6
<1>7. ASSUME NEW t \in Transactions, Rollback(t) PROVE Typed'
  <2>1. TypeOK' /\ End(t)
    BY <1>7 DEF Rollback, End, TypeOK, tables
  <2> QED BY <1>5, <2>1
<1>8. CASE UNCHANGED vars
  BY <1>8 DEF vars, tables, session, TypeOK, Shape, Terminal
<1> QED
  BY <1>1, <1>2, <1>3, <1>4, <1>6, <1>7, <1>8
     DEF Next, LockParticipant, InsertReceipt, InsertAction

\* The variables keep their types, and transactions their shape.
THEOREM TypedAlways == Spec => []Typed
BY TypedInit, TypedStep, PTL DEF Spec
-----------------------------------------------------------------------------
\* The committed row changes only under the lock of who changes it.
LEMMA CommittedState ==
  ASSUME Typed, NEW t \in Transactions, Commit(t), NEW m \in Matches
  PROVE  state'[m] = IF change[t] # None /\ change[t].match = m
                     THEN change[t].state ELSE state[m]
BY DEF Commit, StateSeen

LEMMA RowsHeldInit == Init => RowsHeld
BY DEF Init, RowsHeld

LEMMA RowsHeldStep == Typed /\ RowsHeld /\ [Next]_vars => RowsHeld'
<1> SUFFICES ASSUME Typed, RowsHeld, [Next]_vars PROVE RowsHeld'
  OBVIOUS
<1>t. TypeOK
  BY DEF Typed
<1>1. ASSUME UNCHANGED <<state, change>> PROVE RowsHeld'
  BY <1>1 DEF RowsHeld
<1>2. ASSUME NEW t \in Transactions, NEW m \in Matches, NEW new \in States,
             UNCHANGED state, MatchRowFree(m), ProtectCompetitiveMatch(m, new),
             change' = [change EXCEPT ![t] = [match |-> m, state |-> new]]
      PROVE RowsHeld'
  BY <1>2, <1>t DEF RowsHeld, MatchRowFree, ProtectCompetitiveMatch, TypeOK
<1>3. ASSUME NEW t \in Transactions, UpdateScore(t) PROVE RowsHeld'
  <2>1. request[t].match \in Matches /\ "active" \in States
    BY <1>3, <1>t, RequestFields DEF UpdateScore, States
  <2> QED BY <1>2, <1>3, <2>1 DEF UpdateScore, tables
<1>4. ASSUME NEW t \in Transactions, NEW m \in Matches, NEW new \in States,
             UpdateState(t, m, new)
      PROVE RowsHeld'
  BY <1>2, <1>4 DEF UpdateState, tables
<1>5. ASSUME NEW t \in Transactions, Commit(t) PROVE RowsHeld'
  <2>1. change' = [change EXCEPT ![t] = None]
    BY <1>5 DEF Commit, End
  <2>2. ASSUME NEW u \in Transactions, change'[u] # None
        PROVE  /\ change[u] = change'[u] /\ u # t /\ change[u].match \in Matches
               /\ state'[change[u].match] = state[change[u].match]
    <3>1. u # t /\ change'[u] = change[u]
      BY <2>1, <2>2, <1>t DEF TypeOK
    <3>2. change[u].match \in Matches
      BY <2>2, <3>1, <1>t, ChangeFields
    <3>3. ~(change[t] # None /\ change[t].match = change[u].match)
      BY <2>2, <3>1 DEF RowsHeld
    <3> QED BY <1>5, <3>1, <3>2, <3>3, CommittedState
  <2> QED BY <2>2 DEF RowsHeld
<1>6. ASSUME NEW t \in Transactions, Rollback(t) PROVE RowsHeld'
  BY <1>6, <1>t DEF Rollback, End, RowsHeld, TypeOK, tables
<1> QED
  BY <1>1, <1>3, <1>4, <1>5, <1>6
     DEF Next, Begin, LockParticipant, InsertReceipt, InsertAction, Write, vars,
         tables, session

LEMMA RowsHeldAlways == Spec => []RowsHeld
BY RowsHeldInit, RowsHeldStep, TypedAlways, PTL DEF Spec

\* Concurrent updates of a match never undo its end or its start.
THEOREM MatchesNeverGoBack == Spec => MatchNeverGoesBack
<1> DEFINE Forward(m) ==
      state'[m] # state[m] => state[m] \notin Terminal /\ state'[m] # "scheduled"
<1>1. Typed /\ RowsHeld /\ [Next]_vars => [\A m \in Matches : Forward(m)]_vars
  <2> SUFFICES ASSUME Typed, RowsHeld, Next, NEW m \in Matches, state'[m] # state[m]
               PROVE  state[m] \notin Terminal /\ state'[m] # "scheduled"
    BY DEF Forward
  <2>1. PICK t \in Transactions : Commit(t)
    BY DEF Next, Begin, LockParticipant, InsertReceipt, InsertAction, Write,
           UpdateScore, UpdateState, Rollback, tables
  <2>2. change[t] # None /\ change[t].match = m /\ state'[m] = change[t].state
    BY <2>1, CommittedState
  <2>3. state[m] \in States
    BY DEF Typed, TypeOK
  <2> QED BY <2>2, <2>3 DEF RowsHeld, States, Terminal
<1> QED BY <1>1, TypedAlways, RowsHeldAlways, PTL DEF MatchNeverGoesBack, Forward, Spec
-----------------------------------------------------------------------------
\* Under the discipline an action is committed by who has its match's row.
LEMMA CommittedAction ==
  ASSUME ActionsUpdateMatch, Typed, NEW t \in Transactions, Commit(t),
         NEW m \in Matches, Accepted(m)' # Accepted(m)
  PROVE  change[t] = [match |-> m, state |-> "active"]
<1> USE DEF Typed
<1>1. "action" \in wrote[t] /\ ledger' = ledger \cup {ActionOf(t)}
  BY DEF Commit, Accepted
<1>2. request[t] # None
  BY <1>1 DEF Shape
<1>3. ActionOf(t).match = m
  BY <1>1 DEF Accepted
<1>4. request[t].match = m
  BY <1>3 DEF ActionOf
<1>5. change[t] # None
  BY <1>1 DEF Commit
<1> QED BY <1>2, <1>4, <1>5 DEF Shape

LEMMA LedgerGrowsByCommit ==
  ASSUME [Next]_vars, NEW m \in Matches, Accepted(m)' # Accepted(m)
  PROVE  \E t \in Transactions : Commit(t)
BY DEF Next, Begin, LockParticipant, InsertReceipt, InsertAction, Write, Accepted,
       UpdateScore, UpdateState, Rollback, tables, vars

\* A match that has ended takes no action: the row of the match orders them.
THEOREM LedgersCloseWithMatch ==
  ASSUME ActionsUpdateMatch
  PROVE  Spec => LedgerClosesWithMatch
<1> DEFINE Closed(m) == state[m] \in Terminal => Accepted(m)' = Accepted(m)
<1>1. Typed /\ RowsHeld /\ [Next]_vars => [\A m \in Matches : Closed(m)]_vars
  <2> SUFFICES ASSUME Typed, RowsHeld, Next, NEW m \in Matches,
                      Accepted(m)' # Accepted(m)
               PROVE  state[m] \notin Terminal
    BY DEF Closed
  <2>1. PICK t \in Transactions : Commit(t)
    BY LedgerGrowsByCommit
  <2>2. change[t] = [match |-> m, state |-> "active"]
    BY <2>1, CommittedAction
  <2>3. change[t] # None
    BY <2>2, NoneAssumption DEF Change, States
  <2> QED BY <2>2, <2>3 DEF RowsHeld
<1> QED BY <1>1, TypedAlways, RowsHeldAlways, PTL DEF LedgerClosesWithMatch, Closed, Spec

LEMMA CancelsEmptyStep ==
  ASSUME ActionsUpdateMatch
  PROVE  Typed /\ RowsHeld /\ CancelsEmpty /\ [Next]_vars => CancelsEmpty'
<1> SUFFICES ASSUME Typed, RowsHeld, CancelsEmpty, [Next]_vars PROVE CancelsEmpty'
  OBVIOUS
<1> SUFFICES ASSUME NEW u \in Transactions, change'[u] # None,
                    change'[u].state = "cancelled",
                    NEW m \in Matches, change'[u].match = m
             PROVE  Accepted(m)' = {}
  <2>1. TypeOK'
    BY TypedStep DEF Typed
  <2>2. \A u \in Transactions : change'[u] # None => change'[u].match \in Matches
    BY <2>1 DEF TypeOK, Change
  <2> QED BY <2>2 DEF CancelsEmpty, Accepted
<1>t. TypeOK
  BY DEF Typed
<1>1. CASE change'[u] = change[u]
  <2>1. Accepted(m) = {}
    BY <1>1 DEF CancelsEmpty
  <2>2. ASSUME Accepted(m)' # Accepted(m) PROVE FALSE
    <3>1. PICK t \in Transactions : Commit(t)
      BY <2>2, LedgerGrowsByCommit
    <3>2. change[t] = [match |-> m, state |-> "active"]
      BY <2>2, <3>1, CommittedAction
    <3>3. change[t] # None
      BY <3>2, NoneAssumption DEF Change, States
    <3>4. t = u
      BY <1>1, <3>2, <3>3 DEF RowsHeld
    <3> QED BY <1>1, <3>2, <3>4
  <2> QED BY <2>1, <2>2
<1>2. CASE change'[u] # change[u]
  <2>1. PICK k \in Matches, new \in States :
          UpdateState(u, k, new) \/ (UpdateScore(u) /\ k = request[u].match /\ new = "active")
    <3>1. CASE UpdateScore(u)
      BY <3>1, <1>t, RequestFields DEF UpdateScore, States
    <3>2. CASE ~UpdateScore(u)
      BY <1>2, <3>2, <1>t
         DEF Next, Begin, LockParticipant, InsertReceipt, InsertAction, Write, TypeOK,
             UpdateScore, UpdateState, Commit, End, Rollback, tables, session, vars
    <3> QED BY <3>1, <3>2
  <2>2. change'[u] = [match |-> k, state |-> new]
    BY <2>1, <1>t DEF UpdateState, UpdateScore, TypeOK
  <2>3. k = m /\ new = "cancelled"
    BY <2>2
  <2>4. UpdateState(u, m, "cancelled")
    BY <2>1, <2>3
  <2>5. UNCHANGED ledger /\ Accepted(m) = {}
    BY <2>4 DEF UpdateState, ProtectCompetitiveMatch, tables
  <2> QED BY <2>5 DEF Accepted
<1> QED BY <1>1, <1>2

\* No accepted match is ever cancelled, if the match's row orders its actions.
THEOREM AcceptedMatchesAreNotCancelled ==
  ASSUME ActionsUpdateMatch
  PROVE  Spec => []AcceptedMatchIsNotCancelled
<1> DEFINE Inv == CancelsEmpty /\ AcceptedMatchIsNotCancelled
<1>1. Init => Inv
  BY DEF Init, CancelsEmpty, AcceptedMatchIsNotCancelled, Accepted
<1>2. Typed /\ RowsHeld /\ Inv /\ [Next]_vars => Inv'
  <2> SUFFICES ASSUME Typed, RowsHeld, CancelsEmpty, AcceptedMatchIsNotCancelled,
                      [Next]_vars
               PROVE  CancelsEmpty' /\ AcceptedMatchIsNotCancelled'
    OBVIOUS
  <2>1. CancelsEmpty'
    BY CancelsEmptyStep
  <2>2. ASSUME NEW m \in Matches, state'[m] = "cancelled"
        PROVE  Accepted(m)' = {}
    <3>1. CASE \E t \in Transactions : Commit(t)
      <4>1. PICK t \in Transactions : Commit(t)
        BY <3>1
      <4>2. state'[m] = IF change[t] # None /\ change[t].match = m
                        THEN change[t].state ELSE state[m]
        BY <4>1, CommittedState
      <4>3. CASE Accepted(m)' = Accepted(m)
        BY <2>2, <4>2, <4>3 DEF CancelsEmpty, AcceptedMatchIsNotCancelled
      <4>4. CASE Accepted(m)' # Accepted(m)
        <5>1. change[t] = [match |-> m, state |-> "active"]
          BY <4>1, <4>4, CommittedAction
        <5>2. change[t] # None
          BY <5>1, NoneAssumption DEF Change, States
        <5> QED BY <2>2, <4>2, <5>1, <5>2
      <4> QED BY <4>3, <4>4
    <3>2. CASE ~\E t \in Transactions : Commit(t)
      <4>1. state' = state /\ Accepted(m)' = Accepted(m)
        BY <3>2 DEF Next, Begin, LockParticipant, InsertReceipt, InsertAction, Write,
                    UpdateScore, UpdateState, Rollback, Accepted, tables, vars
      <4> QED BY <2>2, <4>1 DEF AcceptedMatchIsNotCancelled
    <3> QED BY <3>1, <3>2
  <2> QED BY <2>1, <2>2 DEF AcceptedMatchIsNotCancelled
<1> QED BY <1>1, <1>2, TypedAlways, RowsHeldAlways, PTL DEF Spec
-----------------------------------------------------------------------------
\* A receipt is added with the action of the same transaction, and no other way.
LEMMA RowsOfCommit ==
  ASSUME Typed, NEW t \in Transactions, Commit(t)
  PROVE  \/ UNCHANGED <<ledger, receipts, participant>> /\ wrote[t] = {}
         \/ /\ "action" \in wrote[t] /\ "receipt" \in wrote[t] /\ request[t] # None
            /\ ledger' = ledger \cup {ActionOf(t)}
            /\ receipts' = receipts \cup {ReceiptOf(t)}
<1>1. wrote[t] \subseteq {"participant", "receipt", "action"}
  BY DEF Typed, TypeOK
<1>2. CASE "action" \in wrote[t]
  BY <1>2 DEF Commit, Typed, Shape
<1>3. CASE "action" \notin wrote[t]
  BY <1>1, <1>3 DEF Commit, Deferred
<1> QED BY <1>2, <1>3

LEMMA TablesChangeByCommit ==
  ASSUME [Next]_vars
  PROVE  \/ \E t \in Transactions : Commit(t)
         \/ UNCHANGED tables
BY DEF Next, Begin, LockParticipant, InsertReceipt, InsertAction, Write,
       UpdateScore, UpdateState, Rollback, tables, vars

\* Receipts and actions come in pairs.
THEOREM ReceiptsAlwaysPairActions == Spec => []ReceiptsPairActions
<1>1. Init => ReceiptsPairActions
  BY DEF Init, ReceiptsPairActions
<1>2. Typed /\ ReceiptsPairActions /\ [Next]_vars => ReceiptsPairActions'
  <2> SUFFICES ASSUME Typed, ReceiptsPairActions, [Next]_vars PROVE ReceiptsPairActions'
    OBVIOUS
  <2>1. CASE UNCHANGED tables
    BY <2>1 DEF tables, ReceiptsPairActions
  <2>2. ASSUME NEW t \in Transactions, Commit(t) PROVE ReceiptsPairActions'
    <3>1. CASE UNCHANGED <<ledger, receipts>>
      BY <3>1 DEF ReceiptsPairActions
    <3>2. CASE /\ ledger' = ledger \cup {ActionOf(t)}
               /\ receipts' = receipts \cup {ReceiptOf(t)}
      <4>1. /\ ActionOf(t).id = ReceiptOf(t).id
            /\ ActionOf(t).match = ReceiptOf(t).match
            /\ ActionOf(t).user = ReceiptOf(t).user
        BY DEF ActionOf, ReceiptOf
      <4> QED BY <3>2, <4>1 DEF ReceiptsPairActions
    <3> QED BY <2>2, <3>1, <3>2, RowsOfCommit
  <2> QED BY <2>1, <2>2, TablesChangeByCommit
<1> QED BY <1>1, <1>2, TypedAlways, PTL DEF Spec

SameKey(a, b) == a.user = b.user /\ a.match = b.match /\ a.key = b.key

\* A receipt in the table or under way has its key to itself.
KeysApart ==
  /\ \A a, b \in receipts : SameKey(a, b) => a = b
  /\ \A t \in Transactions : "receipt" \in wrote[t] =>
       /\ \A c \in receipts : ~SameKey(c, request[t])
       /\ \A u \in Transactions :
            "receipt" \in wrote[u] /\ SameKey(request[u], request[t]) => u = t

LEMMA KeysApartStep == Typed /\ KeysApart /\ [Next]_vars => KeysApart'
<1> SUFFICES ASSUME Typed, KeysApart, [Next]_vars PROVE KeysApart'
  OBVIOUS
<1>t. TypeOK
  BY DEF Typed
<1>1. ASSUME UNCHANGED <<receipts, wrote, request>> PROVE KeysApart'
  BY <1>1 DEF KeysApart, SameKey
<1>2. ASSUME NEW t \in Transactions, NEW r \in Request, Begin(t, r) PROVE KeysApart'
  <2>1. phase[t] # "open" /\ wrote[t] = {}
    BY <1>2 DEF Begin, Typed, Shape
  <2> QED BY <1>2, <2>1, <1>t DEF Begin, KeysApart, SameKey, TypeOK, tables
<1>3. ASSUME NEW t \in Transactions, NEW row \in {"participant", "action"}, Write(t, row)
      PROVE KeysApart'
  BY <1>3, <1>t DEF Write, KeysApart, SameKey, TypeOK, tables
<1>4. ASSUME NEW t \in Transactions, InsertReceipt(t) PROVE KeysApart'
  BY <1>4, <1>t DEF InsertReceipt, Write, KeyUnused, KeysApart, SameKey, TypeOK, tables
<1>5. ASSUME NEW t \in Transactions, End(t), UNCHANGED receipts PROVE KeysApart'
  BY <1>5, <1>t DEF End, KeysApart, SameKey, TypeOK
<1>6. ASSUME NEW t \in Transactions, Commit(t) PROVE KeysApart'
  <2>1. End(t)
    BY <1>6 DEF Commit
  <2>2. CASE UNCHANGED receipts
    BY <1>5, <2>1, <2>2
  <2>3. CASE "receipt" \in wrote[t] /\ receipts' = receipts \cup {ReceiptOf(t)}
    <3>1. \A c : SameKey(c, ReceiptOf(t)) <=> SameKey(c, request[t])
      BY DEF ReceiptOf, SameKey
    <3>2. \A u \in Transactions : "receipt" \in wrote'[u] =>
            u # t /\ "receipt" \in wrote[u] /\ request'[u] = request[u]
      BY <2>1, <1>t DEF End, TypeOK
    <3>3. \A a, b : SameKey(a, b) <=> SameKey(b, a)
      BY DEF SameKey
    <3>4. \A a, b \in receipts' : SameKey(a, b) => a = b
      BY <2>3, <3>1, <3>3 DEF KeysApart
    <3>5. ASSUME NEW u \in Transactions, "receipt" \in wrote'[u]
          PROVE  /\ \A c \in receipts' : ~SameKey(c, request'[u])
                 /\ \A v \in Transactions :
                      "receipt" \in wrote'[v] /\ SameKey(request'[v], request'[u]) => v = u
      <4>1. ~SameKey(ReceiptOf(t), request[u])
        BY <2>3, <3>1, <3>2, <3>3, <3>5 DEF KeysApart
      <4> QED BY <2>3, <3>2, <3>5, <4>1 DEF KeysApart
    <3> QED BY <3>4, <3>5 DEF KeysApart, SameKey
  <2> QED BY <1>6, <2>2, <2>3, RowsOfCommit
<1>7. ASSUME NEW t \in Transactions, Rollback(t) PROVE KeysApart'
  BY <1>5, <1>7 DEF Rollback, tables
<1> QED
  BY <1>1, <1>2, <1>3, <1>4, <1>6, <1>7
     DEF Next, LockParticipant, InsertAction, UpdateScore, UpdateState, vars,
         tables, session

\* Of all transactions with one key, at most one is ever accepted.
THEOREM OneActionForEachKey == Spec => []OneActionPerKey
<1>1. Init => KeysApart
  BY DEF Init, KeysApart
<1>2. KeysApart => OneActionPerKey
  BY DEF KeysApart, OneActionPerKey, SameKey
<1> QED BY <1>1, <1>2, KeysApartStep, TypedAlways, PTL DEF Spec
-----------------------------------------------------------------------------
\* Who locks a participant found it unlocked and alone; who has inserted an
\* action has seen a lock, its own or a committed one, for the action's side.
LocksHeld ==
  \A t \in Transactions :
    /\ "participant" \in wrote[t] =>
         /\ participant[Place(t)] = None
         /\ \A u \in Transactions :
              "participant" \in wrote[u] /\ Place(u) = Place(t) => u = t
    /\ "action" \in wrote[t] /\ "participant" \notin wrote[t] =>
         /\ participant[Place(t)] # None
         /\ participant[Place(t)].side = request[t].side

LEMMA LocksHeldStep == Typed /\ LocksHeld /\ [Next]_vars => LocksHeld'
<1> SUFFICES ASSUME Typed, LocksHeld, [Next]_vars PROVE LocksHeld'
  OBVIOUS
<1>t. TypeOK
  BY DEF Typed
<1>1. ASSUME UNCHANGED <<participant, wrote, request>> PROVE LocksHeld'
  BY <1>1 DEF LocksHeld, Place
<1>2. ASSUME NEW t \in Transactions, NEW r \in Request, Begin(t, r) PROVE LocksHeld'
  <2>1. phase[t] # "open" /\ wrote[t] = {}
    BY <1>2 DEF Begin, Typed, Shape
  <2>2. \A u \in Transactions : wrote'[u] = wrote[u] /\ (u # t => request'[u] = request[u])
    BY <1>2, <1>t DEF Begin, TypeOK
  <2>3. \A u \in Transactions : wrote[u] # {} => u # t /\ Place(u)' = Place(u)
    BY <2>1, <2>2 DEF Place
  <2>4. participant' = participant
    BY <1>2 DEF Begin, tables
  <2> QED BY <2>2, <2>3, <2>4 DEF LocksHeld
<1>3. ASSUME NEW t \in Transactions, InsertReceipt(t) PROVE LocksHeld'
  BY <1>3, <1>t DEF InsertReceipt, Write, LocksHeld, Place, TypeOK, tables
<1>4. ASSUME NEW t \in Transactions, LockParticipant(t) PROVE LocksHeld'
  <2>1. /\ wrote' = [wrote EXCEPT ![t] = @ \cup {"participant"}]
        /\ UNCHANGED <<participant, request>>
        /\ participant[Place(t)] = None /\ ParticipantRowFree(Place(t))
    BY <1>4 DEF LockParticipant, Write, tables
  <2>2. \A u \in Transactions : Place(u)' = Place(u)
    BY <2>1 DEF Place
  <2> QED BY <2>1, <2>2, <1>t DEF ParticipantRowFree, LocksHeld, TypeOK
<1>5. ASSUME NEW t \in Transactions, InsertAction(t) PROVE LocksHeld'
  <2>1. /\ wrote' = [wrote EXCEPT ![t] = @ \cup {"action"}]
        /\ UNCHANGED <<participant, request>>
        /\ LockSeen(t) # None /\ LockSeen(t).side = request[t].side
    BY <1>5 DEF InsertAction, Write, tables
  <2>2. \A u \in Transactions : Place(u)' = Place(u)
    BY <2>1 DEF Place
  <2> QED BY <2>1, <2>2, <1>t DEF LockSeen, LocksHeld, TypeOK
<1>6. ASSUME NEW t \in Transactions, End(t),
             \/ participant' = participant
             \/ /\ "participant" \in wrote[t]
                /\ participant' = [participant EXCEPT ![Place(t)] = LockOf(t)]
      PROVE LocksHeld'
  <2>1. \A u \in Transactions :
          wrote'[u] # {} => u # t /\ wrote'[u] = wrote[u] /\ request'[u] = request[u]
    BY <1>6, <1>t DEF End, TypeOK
  <2>2. \A u \in Transactions : wrote'[u] # {} => Place(u)' = Place(u)
    BY <2>1 DEF Place
  <2>3. ASSUME NEW u \in Transactions, wrote'[u] # {}
        PROVE  \/ participant'[Place(u)] = participant[Place(u)]
               \/ "participant" \notin wrote[u] /\ participant[Place(u)] = None
    <3>1. CASE participant' = participant
      BY <3>1
    <3>2. CASE /\ "participant" \in wrote[t]
               /\ participant' = [participant EXCEPT ![Place(t)] = LockOf(t)]
      <4>1. CASE Place(u) = Place(t)
        BY <2>1, <2>3, <3>2, <4>1 DEF LocksHeld
      <4>2. CASE Place(u) # Place(t)
        BY <3>2, <4>2, <1>t DEF TypeOK
      <4> QED BY <4>1, <4>2
    <3> QED BY <1>6, <3>1, <3>2
  <2>4. ASSUME NEW u \in Transactions, "participant" \in wrote'[u]
        PROVE  /\ participant'[Place(u)'] = None
               /\ \A v \in Transactions :
                    "participant" \in wrote'[v] /\ Place(v)' = Place(u)' => v = u
    BY <2>1, <2>2, <2>3, <2>4 DEF LocksHeld
  <2>5. ASSUME NEW u \in Transactions, "action" \in wrote'[u], "participant" \notin wrote'[u]
        PROVE  /\ participant'[Place(u)'] # None
               /\ participant'[Place(u)'].side = request'[u].side
    <3>1. /\ wrote'[u] # {} /\ wrote'[u] = wrote[u] /\ request'[u] = request[u]
          /\ Place(u)' = Place(u)
      BY <2>1, <2>2, <2>5
    <3>2. participant[Place(u)] # None /\ participant[Place(u)].side = request[u].side
      BY <2>5, <3>1 DEF LocksHeld
    <3>3. participant'[Place(u)] = participant[Place(u)]
      BY <2>3, <3>1, <3>2
    <3> QED BY <3>1, <3>2, <3>3
  <2> QED BY <2>4, <2>5 DEF LocksHeld
<1>7. ASSUME NEW t \in Transactions, Commit(t) PROVE LocksHeld'
  BY <1>6, <1>7 DEF Commit
<1>8. ASSUME NEW t \in Transactions, Rollback(t) PROVE LocksHeld'
  BY <1>6, <1>8 DEF Rollback, tables
<1> QED
  BY <1>1, <1>2, <1>3, <1>4, <1>5, <1>7, <1>8
     DEF Next, UpdateScore, UpdateState, vars, tables, session

LEMMA LocksHeldAlways == Spec => []LocksHeld
<1>1. Init => LocksHeld
  BY DEF Init, LocksHeld
<1> QED BY <1>1, LocksHeldStep, TypedAlways, PTL DEF Spec

LEMMA SideStep ==
  Typed /\ LocksHeld /\ SideIsThatOfFirstAction /\ [Next]_vars => SideIsThatOfFirstAction'
<1> SUFFICES ASSUME Typed, LocksHeld, SideIsThatOfFirstAction, [Next]_vars
             PROVE  SideIsThatOfFirstAction'
  OBVIOUS
<1>t. TypeOK
  BY DEF Typed
<1>1. CASE UNCHANGED tables
  BY <1>1 DEF tables, SideIsThatOfFirstAction
<1>2. ASSUME NEW t \in Transactions, Commit(t) PROVE SideIsThatOfFirstAction'
  <2>1. CASE UNCHANGED <<ledger, receipts, participant>>
    BY <2>1 DEF SideIsThatOfFirstAction
  <2>2. CASE "action" \in wrote[t] /\ request[t] # None /\ ledger' = ledger \cup {ActionOf(t)}
    <3>1. /\ request[t].match \in Matches /\ request[t].user \in Users
          /\ Place(t) \in Matches \X Users /\ LockOf(t) \in Lock
      BY <2>2, <1>t, RequestFields
    <3>2. /\ ActionOf(t).id = t /\ ActionOf(t).match = request[t].match
          /\ ActionOf(t).user = request[t].user /\ ActionOf(t).side = request[t].side
          /\ Place(t) = <<request[t].match, request[t].user>>
      BY DEF ActionOf, Place
    <3>3. LockOf(t) # None /\ LockOf(t).side = request[t].side /\ LockOf(t).first = t
      BY <3>1, NoneAssumption DEF LockOf
    <3>4. CASE "participant" \in wrote[t]
      <4>1. participant' = [participant EXCEPT ![Place(t)] = LockOf(t)]
        BY <1>2, <3>4 DEF Commit
      <4>2. participant'[Place(t)] = LockOf(t)
        BY <4>1, <3>1, <1>t DEF TypeOK
      <4>3. participant[Place(t)] = None
        BY <3>4 DEF LocksHeld
      <4>4. \A p \in Matches \X Users : p # Place(t) => participant'[p] = participant[p]
        BY <4>1, <1>t DEF TypeOK
      <4>5. ASSUME NEW a \in ledger'
            PROVE  /\ participant'[<<a.match, a.user>>] # None
                   /\ participant'[<<a.match, a.user>>].side = a.side
        <5>1. CASE a \in ledger
          <6>1. a.match \in Matches /\ a.user \in Users
            BY <5>1, <1>t DEF TypeOK, Action
          <6>2. <<a.match, a.user>> # Place(t)
            BY <5>1, <4>3 DEF SideIsThatOfFirstAction
          <6> QED BY <5>1, <6>1, <6>2, <4>4 DEF SideIsThatOfFirstAction
        <5>2. CASE a = ActionOf(t)
          BY <5>2, <3>2, <3>3, <4>2
        <5> QED BY <5>1, <5>2, <2>2
      <4>6. ASSUME NEW m \in Matches, NEW u \in Users, participant'[<<m, u>>] # None
            PROVE  \E a \in ledger' : /\ a.match = m /\ a.user = u
                                      /\ a.id = participant'[<<m, u>>].first
                                      /\ a.side = participant'[<<m, u>>].side
        <5>1. CASE <<m, u>> = Place(t)
          BY <5>1, <2>2, <3>2, <3>3, <4>2
        <5>2. CASE <<m, u>> # Place(t)
          BY <5>2, <2>2, <4>4, <4>6 DEF SideIsThatOfFirstAction
        <5> QED BY <5>1, <5>2
      <4> QED BY <4>5, <4>6 DEF SideIsThatOfFirstAction
    <3>5. CASE "participant" \notin wrote[t]
      <4>1. participant' = participant
        BY <1>2, <3>5 DEF Commit
      <4>2. participant[Place(t)] # None /\ participant[Place(t)].side = request[t].side
        BY <2>2, <3>5 DEF LocksHeld
      <4>3. ASSUME NEW a \in ledger'
            PROVE  /\ participant[<<a.match, a.user>>] # None
                   /\ participant[<<a.match, a.user>>].side = a.side
        BY <2>2, <3>2, <4>2 DEF SideIsThatOfFirstAction
      <4>4. ASSUME NEW m \in Matches, NEW u \in Users, participant[<<m, u>>] # None
            PROVE  \E a \in ledger' : /\ a.match = m /\ a.user = u
                                      /\ a.id = participant[<<m, u>>].first
                                      /\ a.side = participant[<<m, u>>].side
        <5>1. PICK a \in ledger : /\ a.match = m /\ a.user = u
                                  /\ a.id = participant[<<m, u>>].first
                                  /\ a.side = participant[<<m, u>>].side
          BY <4>4 DEF SideIsThatOfFirstAction
        <5> QED BY <5>1, <2>2
      <4> QED BY <4>1, <4>3, <4>4 DEF SideIsThatOfFirstAction
    <3> QED BY <3>4, <3>5
  <2> QED BY <1>2, <2>1, <2>2, RowsOfCommit
<1> QED BY <1>1, <1>2, TablesChangeByCommit

\* A user plays a match for the side of the first action, which is in the ledger.
THEOREM SidesAreThoseOfFirstActions == Spec => []SideIsThatOfFirstAction
<1>1. Init => SideIsThatOfFirstAction
  BY DEF Init, SideIsThatOfFirstAction
<1> QED BY <1>1, SideStep, LocksHeldAlways, TypedAlways, PTL DEF Spec
=============================================================================
