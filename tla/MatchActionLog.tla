---------------------------- MODULE MatchActionLog ----------------------------
(***************************************************************************)
(* What the technical action endpoint promises, without tables, locks or   *)
(* transactions: every match has one log that grows at its end; a key is   *)
(* remembered from the moment its action enters the log until, at the      *)
(* earliest, its retention is over, and no action enters the log under a   *)
(* remembered key; an answer tells of the log.                             *)
(***************************************************************************)
EXTENDS Naturals, Sequences

CONSTANTS Requests, Keys, Matches, Actions, MatchOf, Retention, None

VARIABLES
  clock,
  log,     \* the accepted actions of each match, in order
  memory,  \* the event each key is remembered for
  asked,   \* what each request asked for
  answer   \* what each request was told

vars == <<clock, log, memory, asked, answer>>

Init ==
  /\ clock = 0
  /\ log = [m \in Matches |-> <<>>]
  /\ memory = [k \in Keys |-> None]
  /\ asked = [r \in Requests |-> None]
  /\ answer = [r \in Requests |-> None]

\* The entry at position n of match m, with its position.
Entry(m, n) == [event |-> log[m][n].event, key |-> log[m][n].key,
                action |-> log[m][n].action, at |-> log[m][n].at,
                sequence |-> n]
Entries == UNION {{Entry(m, n) : n \in DOMAIN log[m]} : m \in Matches}

Waiting(r) == asked[r] # None /\ answer[r] = None

Ask(r) ==
  /\ asked[r] = None
  /\ \E k \in Keys, a \in Actions :
       asked' = [asked EXCEPT ![r] = [key |-> k, action |-> a, now |-> clock]]
  /\ UNCHANGED <<clock, log, memory, answer>>

\* The one effect of a request: its action enters the log.
Accept(r) ==
  /\ Waiting(r)
  /\ memory[asked[r].key] = None
  /\ \A x \in Entries : x.event # r
  /\ log' = [log EXCEPT ![MatchOf[asked[r].key]] =
       Append(@, [event |-> r, key |-> asked[r].key, action |-> asked[r].action,
                  at |-> asked[r].now])]
  /\ memory' = [memory EXCEPT ![asked[r].key] = r]
  /\ UNCHANGED <<clock, asked, answer>>

Tell(r, what) ==
  /\ answer' = [answer EXCEPT ![r] = what]
  /\ UNCHANGED <<clock, log, memory, asked>>

\* Success tells of an entry with the key and the action asked for.
TellSuccess(r) ==
  /\ Waiting(r)
  /\ \E x \in Entries :
       /\ x.key = asked[r].key /\ x.action = asked[r].action
       /\ Tell(r, [status |-> IF x.event = r THEN "accepted" ELSE "replayed",
                   event |-> x.event, sequence |-> x.sequence])

TellConflict(r) ==
  /\ Waiting(r)
  /\ \E x \in Entries : x.key = asked[r].key /\ x.action # asked[r].action
  /\ Tell(r, [status |-> "conflict"])

TellExpired(r) ==
  /\ Waiting(r)
  /\ \E x \in Entries : x.key = asked[r].key /\ x.at + Retention <= clock
  /\ Tell(r, [status |-> "stateError"])

\* An error says nothing: the action may or may not be in the log.
TellError(r) == Waiting(r) /\ Tell(r, [status |-> "error"])

Forget ==
  /\ \E K \in (SUBSET Keys) \ {{}} :
       /\ \A k \in K : \E x \in Entries :
            memory[k] = x.event /\ x.key = k /\ x.at + Retention <= clock
       /\ memory' = [k \in Keys |-> IF k \in K THEN None ELSE memory[k]]
  /\ UNCHANGED <<clock, log, asked, answer>>

Tick == clock' = clock + 1 /\ UNCHANGED <<log, memory, asked, answer>>

Next ==
  \/ \E r \in Requests :
       \/ Ask(r) \/ Accept(r)
       \/ TellSuccess(r) \/ TellConflict(r) \/ TellExpired(r) \/ TellError(r)
  \/ Forget
  \/ Tick

Spec == Init /\ [][Next]_vars
=============================================================================
