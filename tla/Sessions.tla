------------------------------ MODULE Sessions ------------------------------
(***************************************************************************)
(* Session history (app/session_history/): the transaction in which the    *)
(* last node of a run stores its exchange and the requests of /sessions,   *)
(* over the tables sessions and session_messages.                          *)
(*                                                                         *)
(* Every actor has one database session.  Isolation is READ COMMITTED: a   *)
(* statement sees committed rows and the actor's own; an UPDATE locks the  *)
(* row until the transaction ends; an INSERT whose key another open        *)
(* transaction has inserted waits for it, and fails when it is committed.  *)
(* A database session that is closed without commit() rolls back.          *)
(***************************************************************************)
EXTENDS Integers, Sequences, FiniteSetsExt

CONSTANTS
    Tasks,       \* runs of the graph that reach SaveSessionNode
    Requests,    \* requests of /sessions
    Existing,    \* sessions in the table at the start
    Page,        \* page size of load_history_messages (50 in the code)
    NoSession

Actors == Tasks \union Requests

\* A new session is named after the actor that creates it.
Ids == Existing \union Actors

\* What the constants have to satisfy; Services assumes it.
SessionAssumption ==
    /\ Tasks \intersect Requests = {} /\ Existing \intersect Actors = {}
    /\ NoSession \notin Ids
    /\ Page \in Nat \ {0}

VARIABLES
    rows,      \* committed rows of sessions that are not deleted
    messages,  \* session -> its committed messages
    count,     \* session -> committed message_count
    last,      \* session -> the task whose status and summary its row has
    step,      \* actor -> how far it is
    tx,        \* actor -> its open transaction
    history,   \* task -> the messages it loaded as memory of its session
    expected   \* history: task -> the turns its session had when it loaded them

tables == <<rows, messages, count, last>>
vars == <<tables, step, tx, history, expected>>

Roles == {"user", "assistant"}
Message == [turn : Nat, by : Actors, role : Roles]

Ended == {"saved", "collided", "broken", "closed"}
InTx == {"open", "turn", "inserted", "updated", "replied"}

\* sess: the session written to; todo: roles still to be written; turn: the
\* highest turn_index read; added: rows inserted; count: message_count as
\* updated; locks: rows of sessions updated; kind: which request.
Tx(kind, sess, todo) == [kind |-> kind, sess |-> sess, todo |-> todo, turn |-> -1,
                         added |-> {}, count |-> 0, locks |-> {}]
NoTx == Tx("none", NoSession, <<>>)

TypeOK ==
    /\ rows \subseteq Ids
    /\ messages \in [Ids -> SUBSET Message]
    /\ count \in [Ids -> Nat]
    /\ last \in [Ids -> Tasks \union {NoSession}]
    /\ step \in [Actors -> {"idle", "loaded"} \union InTx \union Ended]
    /\ \A a \in Actors : /\ tx[a].sess \in Ids \union {NoSession}
                         /\ tx[a].turn \in Nat \union {-1}
                         /\ tx[a].added \subseteq Message
                         /\ tx[a].locks \subseteq Ids
    /\ history \in [Tasks -> SUBSET Message]

Init ==
    /\ rows = Existing
    /\ messages = [s \in Ids |-> {}]
    /\ count = [s \in Ids |-> 0]
    /\ last = [s \in Ids |-> NoSession]
    /\ step = [a \in Actors |-> "idle"]
    /\ tx = [a \in Actors |-> NoTx]
    /\ history = [t \in Tasks |-> {}]
    /\ expected = [t \in Tasks |-> {}]

Go(a, next) == step' = [step EXCEPT ![a] = next]
Turns(s) == {m.turn : m \in messages[s]}

-------------------------------------------------------------------------------
(* What an actor reads, and what it starts.                                *)

\* get_messages: the first page in ascending order of turn_index.
FirstPage(s) ==
    {m \in messages[s] : Cardinality({n \in messages[s] : n.turn < m.turn}) < Page}

\* load_history_messages, when the client names a session.
LoadHistory(t) ==
    /\ step[t] = "idle" /\ t \in Tasks
    /\ \/ UNCHANGED <<tx, history, expected>>
       \/ \E s \in Existing :
             /\ history' = [history EXCEPT ![t] = FirstPage(s)]
             /\ expected' = [expected EXCEPT ![t] = Turns(s)]
             /\ tx' = [tx EXCEPT ![t].sess = s]
    /\ Go(t, "loaded")
    /\ UNCHANGED tables

\* get_session; create_session when there is none, bound to the run's thread.
SessionOf(t) == IF tx[t].sess \in rows THEN tx[t].sess ELSE t

OpenSave(t) ==
    /\ step[t] = "loaded"
    /\ \E todo \in {<<"user">>, <<"user", "assistant">>} :
          tx' = [tx EXCEPT ![t] = Tx("save", SessionOf(t), todo)]
    /\ Go(t, "open")
    /\ UNCHANGED <<tables, history, expected>>

\* A request for what its kind names, in session s.
Request(r, kind, s, todo) ==
    /\ step[r] = "idle" /\ r \in Requests
    /\ tx' = [tx EXCEPT ![r] = Tx(kind, s, todo)]
    /\ Go(r, "open")
    /\ UNCHANGED <<tables, history, expected>>

PostSession(r) == Request(r, "create", r, <<>>)
PostMessage(r) == \E s \in rows : Request(r, "message", s, <<"user">>)

\* The row update of PUT takes the same lock.
DeleteSession(r) == \E s \in rows : Request(r, "delete", s, <<>>)

\* cleanup_expired: a session without messages has no last_message_at.
Expired(s) == s \in rows /\ messages[s] # {}

\* SessionCleanupPolicy.cleanup, for one of the sessions it finds.
Cleanup(r, s) == Expired(s) /\ Request(r, "cleanup", s, <<>>)
PostCleanup(r) == \E s \in Ids : Cleanup(r, s)

-------------------------------------------------------------------------------
(* SessionRepository.add_message.                                          *)

\* Mutant: as if the session's autoflush were off.
ReadTurnCommitted(a) ==
    /\ step[a] = "open" /\ tx[a].todo # <<>>
    /\ tx' = [tx EXCEPT ![a].turn = Max(Turns(tx[a].sess) \union {-1})]
    /\ Go(a, "turn")
    /\ UNCHANGED <<tables, history, expected>>

ReadTurn(a) ==
    /\ step[a] = "open" /\ tx[a].todo # <<>>
    /\ tx' = [tx EXCEPT ![a].turn =
                 Max(Turns(tx[a].sess) \union {m.turn : m \in tx[a].added} \union {-1})]
    /\ Go(a, "turn")
    /\ UNCHANGED <<tables, history, expected>>

Taken(s, turn) == turn \in Turns(s)
InsertedByOther(a, turn) ==
    \E b \in Actors \ {a} : tx[b].sess = tx[a].sess /\ \E m \in tx[b].added : m.turn = turn

\* Mutant: a message whose INSERT fails is logged and left out, and the save goes on.
InsertOrSkip(a) ==
    LET row == [turn |-> tx[a].turn + 1, by |-> a, role |-> Head(tx[a].todo)]
    IN  /\ step[a] = "turn"
        /\ ~ InsertedByOther(a, row.turn)
        /\ \/ tx' = [tx EXCEPT ![a].added = @ \union {row}] /\ Go(a, "inserted")
           \/ tx' = [tx EXCEPT ![a].todo = Tail(@)] /\ Go(a, "open")
        /\ UNCHANGED <<tables, history, expected>>

\* The INSERT is flushed before the UPDATE.  uq_session_turn makes it wait for
\* another open transaction, and fail against a committed row: the whole
\* transaction is rolled back and the exception only logged.
Insert(a) ==
    LET row == [turn |-> tx[a].turn + 1, by |-> a, role |-> Head(tx[a].todo)]
    IN  /\ step[a] = "turn"
        /\ ~ InsertedByOther(a, row.turn)
        /\ IF Taken(tx[a].sess, row.turn) \/ \E m \in tx[a].added : m.turn = row.turn
             THEN /\ Go(a, "collided")
                  /\ tx' = [tx EXCEPT ![a] = [NoTx EXCEPT !.sess = tx[a].sess]]
             ELSE /\ tx' = [tx EXCEPT ![a].added = @ \union {row}]
                  /\ Go(a, "inserted")
        /\ UNCHANGED <<tables, history, expected>>

Unlocked(a, s) == \A b \in Actors \ {a} : s \notin tx[b].locks

\* Mutant: the counter is set from the row as it was before the transaction.
TouchStale(a) ==
    LET s == tx[a].sess
    IN  /\ step[a] = "inserted"
        /\ Unlocked(a, s)
        /\ tx' = [tx EXCEPT ![a].count = count[s] + 1, ![a].locks = {s}, ![a].todo = Tail(@)]
        /\ Go(a, "open")
        /\ UNCHANGED <<tables, history, expected>>

\* UPDATE sessions SET message_count = message_count + 1.
Touch(a) ==
    LET s == tx[a].sess
    IN  /\ step[a] = "inserted"
        /\ Unlocked(a, s)
        /\ tx' = [tx EXCEPT ![a].count = (IF s \in tx[a].locks THEN @ ELSE count[s]) + 1,
                            ![a].locks = {s}, ![a].todo = Tail(@)]
        /\ Go(a, "open")
        /\ UNCHANGED <<tables, history, expected>>

-------------------------------------------------------------------------------
(* The end of SaveSessionNode.run.                                         *)

\* update_session: status and summary, whatever happened to the row.
UpdateRow(t) ==
    /\ step[t] = "open" /\ t \in Tasks /\ tx[t].todo = <<>>
    /\ Unlocked(t, tx[t].sess)
    /\ tx' = [tx EXCEPT ![t].locks = {tx[t].sess}]
    /\ Go(t, "updated")
    /\ UNCHANGED <<tables, history, expected>>

\* Makes the rows of t's transaction visible to the others.
Publish(t) ==
    LET s == tx[t].sess
    IN  /\ rows' = rows \union {s}
        /\ messages' = [messages EXCEPT ![s] = @ \union tx[t].added]
        /\ count' = [count EXCEPT ![s] = tx[t].count]
        /\ last' = [last EXCEPT ![s] = t]

Commit(t) ==
    /\ step[t] = "updated"
    /\ Publish(t)
    /\ tx' = [tx EXCEPT ![t] = [NoTx EXCEPT !.sess = tx[t].sess]]
    /\ Go(t, "saved")
    /\ UNCHANGED <<history, expected>>

\* The database fails, at any statement: logged, and the run ends without.
Break(t) ==
    /\ t \in Tasks /\ step[t] \in InTx
    /\ tx' = [tx EXCEPT ![t] = [NoTx EXCEPT !.sess = tx[t].sess]]
    /\ Go(t, "broken")
    /\ UNCHANGED <<tables, history, expected>>

-------------------------------------------------------------------------------
(* The end of a request: it flushes, answers, and get_db_session() closes  *)
(* the database session.                                                   *)

\* What was flushed is reported: the session, the message, the deletion.
Reply(r) ==
    /\ r \in Requests /\ step[r] = "open" /\ tx[r].todo = <<>>
    /\ tx[r].kind \in {"delete", "cleanup"} => Unlocked(r, tx[r].sess)
    /\ tx' = [tx EXCEPT ![r].locks = IF tx[r].kind = "create" THEN {} ELSE {tx[r].sess}]
    /\ Go(r, "replied")
    /\ UNCHANGED <<tables, history, expected>>

\* Mutant: the connection goes back to the pool with its transaction open.
CloseLeaks(r) ==
    /\ step[r] = "replied"
    /\ Go(r, "closed")
    /\ UNCHANGED <<tables, tx, history, expected>>

Close(r) ==
    /\ step[r] = "replied"
    /\ tx' = [tx EXCEPT ![r] = [NoTx EXCEPT !.sess = tx[r].sess]]
    /\ Go(r, "closed")
    /\ UNCHANGED <<tables, history, expected>>

-------------------------------------------------------------------------------
TaskStep(t) == \/ LoadHistory(t) \/ OpenSave(t) \/ ReadTurn(t) \/ Insert(t) \/ Touch(t)
               \/ UpdateRow(t) \/ Commit(t)
RequestStep(r) == ReadTurn(r) \/ Insert(r) \/ Touch(r) \/ Reply(r) \/ Close(r)

Next == \/ \E t \in Tasks : TaskStep(t) \/ Break(t)
        \/ \E r \in Requests : \/ PostSession(r) \/ PostMessage(r) \/ DeleteSession(r)
                              \/ PostCleanup(r) \/ RequestStep(r)

Spec == Init /\ [][Next]_vars
-------------------------------------------------------------------------------
(* Properties.                                                             *)

\* The turns of a session are numbered without gaps from 0, each is one
\* message, and message_count is their number: add_message computes the turn
\* from one statement and the count from another, under concurrent saves.
TurnsAreConsecutive ==
    \A s \in Ids : /\ Turns(s) = 0 .. count[s] - 1
                   /\ Cardinality(messages[s]) = count[s]

\* An answer follows the question of the same run immediately: a save is
\* stored as a whole or not at all, and saves do not interleave in a session.
ExchangesStayTogether ==
    \A s \in Ids : \A m \in messages[s] :
        m.role = "assistant" => [turn |-> m.turn - 1, by |-> m.by, role |-> "user"] \in messages[s]

\* A save is thrown away as a duplicate turn only when another run stored an
\* exchange in the same session: requests that are rolled back cost no save.
OnlySavesCollide ==
    \A t \in Tasks : step[t] = "collided" =>
        \E u \in Tasks \ {t} : \E m \in messages[tx[t].sess] : m.by = u

\* The transactions a waits for: their keys, or their lock on its row.
WaitsFor(a) ==
    LET s == tx[a].sess
        Lockers == {b \in Actors \ {a} : s \in tx[b].locks}
    IN  CASE step[a] = "turn" ->
               {b \in Actors \ {a} : tx[b].sess = s /\ \E m \in tx[b].added : m.turn = tx[a].turn + 1}
          [] step[a] = "inserted" -> Lockers
          [] step[a] = "open" /\ tx[a].todo = <<>> ->
               IF tx[a].kind \in {"save", "delete", "cleanup"} THEN Lockers ELSE {}
          [] OTHER -> {}

\* Transactions wait only for transactions that are open, and never in a
\* circle: keys and rows are taken in the same order by saves and requests.
NoCircularWait ==
    LET open == {a \in Actors : step[a] \in InTx}
    IN  /\ \A a \in open : WaitsFor(a) \subseteq open
        /\ \A among \in (SUBSET open) \ {{}} : \E a \in among : WaitsFor(a) \intersect among = {}

\* The memory of a run contains the latest message its session had
\* (app/orchestrator/nodes/memory_context.py:20: "从 sessions 表读取最近 50
\* 条消息", the last 50 messages).
RemembersTheLatest ==
    \A t \in Tasks : expected[t] # {} => \E m \in history[t] : m.turn = Max(expected[t])
=============================================================================
