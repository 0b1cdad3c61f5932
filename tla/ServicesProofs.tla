---------------------------- MODULE ServicesProofs ----------------------------
(***************************************************************************)
(* What Webhooks, Sessions, Documents, Retrieval, Interact and WebIndexing *)
(* promise, for any number of runs, visitors, uploaders, sessions,         *)
(* documents, rounds and pages.  Each part follows one service of          *)
(* Services: its inductive invariant, one lemma per action, and that a     *)
(* behaviour of all services is one of this service.                       *)
(***************************************************************************)
EXTENDS Services, SumTheorems, FunctionTheorems

(* Webhooks. *)
\* A request that is alone has left its URL in the memory and no other is under
\* way; what is left once it is answered survives restarts.
AloneIsLast ==
    /\ \A c \in Calls : request[c].step = "idle" => request[c] = W!Idle
    /\ \A c \in Calls : request[c] # W!Idle /\ request[c].alone =>
          hub = request[c].url /\ \A d \in Calls \ {c} : request[d] = W!Idle
    /\ W!Quiet /\ ~ doubt => hub \in {last, NoUrl} /\ stored = last

WInv == W!TypeOK /\ AloneIsLast

LEMMA WebhooksInit == W!Init => WInv
<1> SUFFICES ASSUME W!Init PROVE WInv
  OBVIOUS
<1>1. \A c \in Calls : request[c] = W!Idle
  BY DEF W!Init
<1>2. W!Idle \in [step : {"idle", "persist"}, url : W!Url, alone : BOOLEAN]
  BY DEF W!Idle, W!Url
<1>3. W!TypeOK
  BY <1>2 DEF W!Init, W!TypeOK, W!Url
<1>4. AloneIsLast
  BY <1>1 DEF W!Init, AloneIsLast
<1> QED
  BY <1>3, <1>4 DEF WInv

LEMMA WebhooksBegin ==
    ASSUME WInv, NEW c \in Calls, NEW url \in W!Url, W!Begin(c, url)
    PROVE  WInv'
<1>1. /\ request[c] = W!Idle /\ hub' = url
      /\ UNCHANGED <<stored, last, doubt>>
      /\ request' = [d \in Calls |->
                     IF d = c THEN [step |-> "persist", url |-> url, alone |-> W!Quiet]
                     ELSE IF request[d] = W!Idle THEN W!Idle ELSE [request[d] EXCEPT !.alone = FALSE]]
  BY DEF W!Begin
<1>2. W!Quiet \in BOOLEAN
  BY DEF W!Quiet
<1>3. request'[c] = [step |-> "persist", url |-> url, alone |-> W!Quiet]
  BY <1>1
<1>4. \A d \in Calls \ {c} : /\ request[d] = W!Idle => request'[d] = W!Idle
                             /\ request[d] # W!Idle => request'[d] = [request[d] EXCEPT !.alone = FALSE]
  BY <1>1
<1>5. W!Idle.step = "idle"
  BY DEF W!Idle
<1>6. W!TypeOK'
  BY <1>1, <1>2 DEF WInv, W!TypeOK, W!Idle, W!Url
<1>7. AloneIsLast'
  BY <1>1, <1>3, <1>4, <1>5 DEF WInv, W!TypeOK, AloneIsLast, W!Quiet
<1> QED
  BY <1>6, <1>7 DEF WInv

LEMMA WebhooksEnd ==
    ASSUME WInv, NEW c \in Calls, W!Persist(c) \/ W!PersistFails(c)
    PROVE  WInv'
<1>1. /\ request[c].step = "persist" /\ request' = [request EXCEPT ![c] = W!Idle]
      /\ last' = request[c].url /\ hub' = hub
  BY DEF W!Persist, W!PersistFails
<1>2. \/ stored' = request[c].url /\ doubt' = ~ request[c].alone
      \/ stored' = stored /\ doubt' = TRUE
  BY DEF W!Persist, W!PersistFails, W!Upsert, W!Remove
<1>3. W!Idle \in [step : {"idle", "persist"}, url : W!Url, alone : BOOLEAN] /\ W!Idle.step = "idle"
  BY DEF W!Idle, W!Url
<1>4. W!TypeOK'
  BY <1>1, <1>2, <1>3 DEF WInv, W!TypeOK
<1>5. AloneIsLast'
  BY <1>1, <1>2, <1>3 DEF WInv, W!TypeOK, AloneIsLast, W!Quiet
<1> QED
  BY <1>4, <1>5 DEF WInv

LEMMA WebhooksRestart == ASSUME WInv, W!Restart PROVE WInv'
<1>1. W!Idle \in [step : {"idle", "persist"}, url : W!Url, alone : BOOLEAN] /\ W!Idle.step = "idle"
  BY DEF W!Idle, W!Url
<1>2. /\ hub' = NoUrl /\ request' = [c \in Calls |-> W!Idle]
      /\ doubt' = (doubt \/ ~ W!Quiet) /\ UNCHANGED <<stored, last>>
  BY DEF W!Restart
<1>3. W!TypeOK'
  BY <1>1, <1>2 DEF WInv, W!TypeOK, W!Url, W!Quiet
<1>4. AloneIsLast'
  BY <1>1, <1>2 DEF WInv, AloneIsLast, W!Quiet
<1> QED
  BY <1>3, <1>4 DEF WInv

LEMMA WebhooksNext == ASSUME WInv, [W!Next]_W!vars PROVE WInv'
<1>1. CASE UNCHANGED W!vars
  BY <1>1 DEF W!vars, WInv, W!TypeOK, AloneIsLast, W!Quiet
<1>2. CASE W!Next
  BY <1>2, WebhooksBegin, WebhooksEnd, WebhooksRestart
     DEF W!Next, W!PostWebhook, W!DeleteWebhook, W!Register, W!Unregister, W!Url
<1> QED
  BY <1>1, <1>2

LEMMA ServicesAreWebhooks == ServicesSpec => W!Spec
<1>1. ServicesInit => W!Init
  BY DEF ServicesInit
<1>2. [ServicesNext]_allVars => [W!Next]_W!vars
  <2>1. CASE UNCHANGED allVars
    BY <2>1 DEF allVars, webhookVars, W!vars
  <2>2. CASE ServicesNext
    BY <2>2 DEF ServicesNext, OnlyOf, webhookVars, W!vars
  <2> QED BY <2>1, <2>2
<1> QED
  BY <1>1, <1>2, PTL DEF ServicesSpec, W!Spec

(* After a request that nothing disturbed the hub calls the URL it left,   *)
(* and no other: through failing writes, restarts that forget the memory   *)
(* and listings that overlap (integrations/webhook.py).                    *)
THEOREM TheLastRequestIsHeard == ServicesSpec => []LastWordCounts
<1>1. W!Init => WInv
  BY WebhooksInit
<1>2. WInv /\ [W!Next]_W!vars => WInv'
  BY WebhooksNext
<1>3. WInv => LastWordCounts
  BY DEF WInv, W!TypeOK, AloneIsLast, LastWordCounts, W!LastWordCounts, W!Notified, W!Shown
<1> QED
  BY <1>1, <1>2, <1>3, ServicesAreWebhooks, PTL DEF W!Spec

-------------------------------------------------------------------------------
(* Sessions. *)
Asked == {<<"user">>, <<"user", "assistant">>}
Todos == Asked \union {<<"assistant">>, <<>>}

\* What an actor's transaction may be.
Transaction == [kind : {"none", "save", "create", "message", "delete", "cleanup"},
                sess : S!Ids \union {NoSession}, todo : Todos, turn : Nat \union {-1},
                added : SUBSET S!Message, count : Nat, locks : SUBSET S!Ids]

\* The rows a transaction t of a adds: a question, which has the first turn that
\* its session does not have yet, and its answer.
Question(a, t) == [turn |-> count[t.sess], by |-> a, role |-> "user"]
Response(a, t) == [turn |-> count[t.sess] + 1, by |-> a, role |-> "assistant"]

Untouched(t) == t.added = {} /\ t.locks = {}
OneAdded(a, t) == t.added = {Question(a, t)} /\ t.locks = {t.sess} /\ t.count = count[t.sess] + 1
BothAdded(a, t) ==
    t.added = {Question(a, t), Response(a, t)} /\ t.locks = {t.sess} /\ t.count = count[t.sess] + 2

\* What the transaction t of actor a has done at each step.
Shape(a, s, t) ==
    /\ s \in S!InTx => t.sess \in S!Ids /\ t.kind # "none" /\ (a \in Runs => t.kind = "save")
    /\ s \notin S!InTx => Untouched(t)
    /\ s \in {"open", "turn"} => \/ t.todo \in Asked /\ Untouched(t) /\ t.kind \in {"save", "message"}
                                 \/ t.todo = <<"assistant">> /\ OneAdded(a, t) /\ t.kind \in {"save", "message"}
                                 \/ s = "open" /\ t.todo = <<>>
    /\ s = "open" /\ t.todo = <<>> => IF t.kind \in {"save", "message"}
                                        THEN OneAdded(a, t) \/ BothAdded(a, t)
                                        ELSE Untouched(t)
    /\ s = "turn" => IF t.added = {} THEN t.turn < count[t.sess] ELSE t.turn = count[t.sess]
    /\ s = "inserted" => /\ t.kind \in {"save", "message"}
                         /\ \/ t.todo \in Asked /\ t.added = {Question(a, t)} /\ t.locks = {}
                            \/ /\ t.todo = <<"assistant">>
                               /\ t.added = {Question(a, t), Response(a, t)}
                               /\ t.locks = {t.sess} /\ t.count = count[t.sess] + 1
    /\ s = "updated" => OneAdded(a, t) \/ BothAdded(a, t)
    /\ s = "replied" => /\ t.added \in {{}, {Question(a, t)}, {Question(a, t), Response(a, t)}}
                        /\ t.locks \subseteq {t.sess}

\* Two transactions share no lock, and only one adds rows to a session.
Apart(t, u) ==
    /\ t.locks \intersect u.locks = {}
    /\ t.sess = u.sess => t.added = {} \/ u.added = {}

\* What is committed: rows of saves that are over.
CommittedTurns ==
    \A s \in S!Ids :
        /\ S!Turns(s) = 0 .. count[s] - 1
        /\ \A m, n \in messages[s] : m.turn = n.turn => m = n
        /\ \A m \in messages[s] : m.by \in Runs /\ saving[m.by] = "saved"

SessionTypes ==
    /\ messages \in [S!Ids -> SUBSET S!Message]
    /\ count \in [S!Ids -> Nat]
    /\ saving \in [S!Actors -> {"idle", "loaded"} \union S!InTx \union S!Ended]
    /\ save \in [S!Actors -> Transaction]
    /\ sessions \subseteq S!Ids

SInv ==
    /\ SessionTypes
    /\ \A a \in S!Actors : Shape(a, saving[a], save[a])
    /\ \A a, b \in S!Actors : a # b => Apart(save[a], save[b])
    /\ CommittedTurns
    /\ S!ExchangesStayTogether
    /\ S!OnlySavesCollide

LEMMA MaxIs ==
    ASSUME NEW T \in SUBSET Int, NEW m \in T, \A x \in T : x <= m
    PROVE  S!Max(T) = m
<1>1. \A x \in T : (\A y \in T : x >= y) => x = m
  OBVIOUS
<1>2. \A y \in T : m >= y
  OBVIOUS
<1> QED
  BY <1>1, <1>2 DEF S!Max

LEMMA NoTxFacts ==
    ASSUME NEW s \in S!Ids \union {NoSession}
    PROVE  /\ [S!NoTx EXCEPT !.sess = s] \in Transaction
           /\ Untouched([S!NoTx EXCEPT !.sess = s])
           /\ [S!NoTx EXCEPT !.sess = s].sess = s
           /\ [S!NoTx EXCEPT !.sess = s].todo = <<>>
           /\ S!NoTx \in Transaction /\ Untouched(S!NoTx)
  BY DEF S!NoTx, S!Tx, Transaction, Untouched, Todos

LEMMA SessionsInit == S!Init => SInv
<1> SUFFICES ASSUME S!Init PROVE SInv
  OBVIOUS
<1>1. SessionTypes
  BY NoTxFacts DEF S!Init, SessionTypes, S!Ids
<1>2. \A a \in S!Actors : Shape(a, saving[a], save[a])
  BY NoTxFacts DEF S!Init, Shape, S!InTx
<1>3. \A a, b \in S!Actors : a # b => Apart(save[a], save[b])
  BY NoTxFacts DEF S!Init, Apart, Untouched
<1>4. CommittedTurns
  BY DEF S!Init, CommittedTurns, S!Turns
<1>5. S!ExchangesStayTogether /\ S!OnlySavesCollide
  BY DEF S!Init, S!ExchangesStayTogether, S!OnlySavesCollide, S!Actors
<1> QED
  BY <1>1, <1>2, <1>3, <1>4, <1>5 DEF SInv

(* A step of a that leaves the committed rows as they are. *)
LEMMA SessionsStep ==
    ASSUME SInv, NEW a \in S!Actors, saving[a] # "saved",
           NEW s \in {"idle", "loaded"} \union S!InTx \union S!Ended, s # "saved",
           NEW t \in Transaction,
           saving' = [saving EXCEPT ![a] = s], save' = [save EXCEPT ![a] = t],
           UNCHANGED S!tables,
           Shape(a, s, t),
           \A b \in S!Actors \ {a} : Apart(t, save[b]),
           a \in Runs /\ s = "collided" =>
              \E u \in Runs \ {a} : \E m \in messages[t.sess] : m.by = u
    PROVE  SInv'
<1>1. SessionTypes'
  BY DEF SInv, SessionTypes, S!tables
<1>2. /\ messages' = messages /\ count' = count
      /\ saving'[a] = s /\ save'[a] = t
      /\ \A b \in S!Actors \ {a} : saving'[b] = saving[b] /\ save'[b] = save[b]
  BY DEF SInv, SessionTypes, S!tables
<1>3. (\A b \in S!Actors : Shape(b, saving[b], save[b]))'
  BY <1>2 DEF SInv, Shape, OneAdded, BothAdded, Question, Response, Untouched
<1>4. (\A b, c \in S!Actors : b # c => Apart(save[b], save[c]))'
  BY <1>2 DEF SInv, Apart
<1>5. CommittedTurns'
  <2>1. Runs \subseteq S!Actors
    BY DEF S!Actors
  <2> QED
    BY <1>2, <2>1 DEF SInv, CommittedTurns, S!Turns
<1>6. S!ExchangesStayTogether'
  BY <1>2 DEF SInv, S!ExchangesStayTogether
<1>7. S!OnlySavesCollide'
  BY <1>2 DEF SInv, S!OnlySavesCollide, S!Actors
<1> QED
  BY <1>1, <1>3, <1>4, <1>5, <1>6, <1>7 DEF SInv

(* What the steps between depend on. *)
LEMMA TodoFacts ==
    /\ Head(<<"user">>) = "user" /\ Tail(<<"user">>) = <<>>
    /\ Head(<<"user", "assistant">>) = "user" /\ Tail(<<"user", "assistant">>) = <<"assistant">>
    /\ Head(<<"assistant">>) = "assistant" /\ Tail(<<"assistant">>) = <<>>
    /\ <<"user">> # <<>> /\ <<"assistant">> # <<>> /\ <<"user", "assistant">> # <<>>
    /\ <<"user">> # <<"assistant">> /\ <<"user", "assistant">> # <<"assistant">>
  OBVIOUS

LEMMA LoadHistoryInv ==
    ASSUME SInv, NEW a \in Runs, S!LoadHistory(a)
    PROVE  SInv'
<1>1. a \in S!Actors /\ saving[a] = "idle" /\ UNCHANGED S!tables /\ saving' = [saving EXCEPT ![a] = "loaded"]
  BY DEF S!LoadHistory, S!Go, S!Actors
<1>2. Untouched(save[a]) /\ save[a] \in Transaction
  BY <1>1 DEF SInv, SessionTypes, Shape, S!InTx
<1>3. PICK s \in S!Ids \union {NoSession} : save' = [save EXCEPT ![a] = [save[a] EXCEPT !.sess = s]]
  <2>1. CASE save' = save
    <3>1. save[a] = [save[a] EXCEPT !.sess = save[a].sess]
      BY <1>2 DEF Transaction
    <3>2. save = [save EXCEPT ![a] = save[a]]
      BY <1>1 DEF SInv, SessionTypes
    <3> QED
      BY <1>2, <2>1, <3>1, <3>2 DEF Transaction
  <2>2. CASE save' # save
    <3>1. PICK s \in Existing : save' = [save EXCEPT ![a].sess = s]
      BY <2>2 DEF S!LoadHistory
    <3> QED
      BY <3>1 DEF S!Ids
  <2> QED
    BY <2>1, <2>2
<1> DEFINE t == [save[a] EXCEPT !.sess = s]
<1>4. t \in Transaction /\ Untouched(t)
  BY <1>2 DEF Transaction, Untouched
<1>5. save' = [save EXCEPT ![a] = t]
  BY <1>3
<1> HIDE DEF t
<1>6. Shape(a, "loaded", t)
  BY <1>4 DEF Shape, S!InTx
<1>7. \A b \in S!Actors \ {a} : Apart(t, save[b])
  BY <1>4 DEF Apart, Untouched
<1> QED
  BY <1>1, <1>4, <1>5, <1>6, <1>7, SessionsStep

(* A transaction begins. *)
LEMMA BeginInv ==
    ASSUME SInv, NEW a \in S!Actors, saving[a] \in {"idle", "loaded"},
           NEW s \in S!Ids, NEW kind \in {"save", "create", "message", "delete", "cleanup"},
           NEW todo \in Asked \union {<<>>}, todo = <<>> <=> kind \notin {"save", "message"},
           a \in Runs => kind = "save",
           save' = [save EXCEPT ![a] = S!Tx(kind, s, todo)],
           saving' = [saving EXCEPT ![a] = "open"],
           UNCHANGED S!tables
    PROVE  SInv'
<1> DEFINE t == S!Tx(kind, s, todo)
<1>1. /\ t \in Transaction /\ Untouched(t) /\ t.sess = s /\ t.kind = kind /\ t.todo = todo
  BY DEF S!Tx, Transaction, Untouched, Todos
<1> HIDE DEF t
<1>2. Shape(a, "open", t)
  BY <1>1 DEF Shape, S!InTx
<1>3. \A b \in S!Actors \ {a} : Apart(t, save[b])
  BY <1>1 DEF Apart, Untouched
<1>4. save' = [save EXCEPT ![a] = t] /\ "open" \in S!InTx
  BY DEF t, S!InTx
<1> QED
  BY <1>1, <1>2, <1>3, <1>4, SessionsStep

LEMMA OpenSaveInv == ASSUME SInv, NEW a \in Runs, S!OpenSave(a) PROVE SInv'
<1>1. a \in S!Actors /\ S!SessionOf(a) \in S!Ids
  BY DEF S!SessionOf, S!Ids, S!Actors, SInv, SessionTypes
<1>2. PICK todo \in Asked : save' = [save EXCEPT ![a] = S!Tx("save", S!SessionOf(a), todo)]
  BY DEF S!OpenSave, Asked
<1>3. saving[a] = "loaded" /\ saving' = [saving EXCEPT ![a] = "open"] /\ UNCHANGED S!tables
  BY DEF S!OpenSave, S!Go
<1>4. todo # <<>>
  BY TodoFacts DEF Asked
<1> QED
  BY <1>1, <1>2, <1>3, <1>4, BeginInv

LEMMA RequestInv ==
    ASSUME SInv, NEW a \in Visitors,
           S!PostSession(a) \/ S!PostMessage(a) \/ S!DeleteSession(a) \/ S!PostCleanup(a)
    PROVE  SInv'
<1>1. a \in S!Actors /\ a \notin Runs /\ a \in S!Ids /\ sessions \subseteq S!Ids
  BY SessionBounds DEF S!SessionAssumption, S!Ids, S!Actors, SInv, SessionTypes
<1>2. PICK kind \in {"create", "message", "delete", "cleanup"}, s \in S!Ids, todo \in {<<>>, <<"user">>} :
         S!Request(a, kind, s, todo) /\ (todo = <<>> <=> kind # "message")
  BY <1>1, TodoFacts DEF S!PostSession, S!PostMessage, S!DeleteSession, S!PostCleanup, S!Cleanup, S!Expired
<1>3. /\ saving[a] = "idle" /\ saving' = [saving EXCEPT ![a] = "open"] /\ UNCHANGED S!tables
      /\ save' = [save EXCEPT ![a] = S!Tx(kind, s, todo)]
  BY <1>2 DEF S!Request, S!Go
<1> QED
  BY <1>1, <1>2, <1>3, BeginInv DEF Asked

LEMMA ReadTurnInv == ASSUME SInv, NEW a \in S!Actors, S!ReadTurn(a) PROVE SInv'
<1> DEFINE u == save[a]
           T == S!Turns(u.sess) \union {m.turn : m \in u.added} \union {-1}
           t == [u EXCEPT !.turn = S!Max(T)]
<1>1. /\ saving[a] = "open" /\ u.todo # <<>> /\ saving' = [saving EXCEPT ![a] = "turn"]
      /\ save' = [save EXCEPT ![a] = t] /\ UNCHANGED S!tables
  BY DEF S!ReadTurn, S!Go
<1>2. u \in Transaction /\ u.sess \in S!Ids
  BY <1>1 DEF SInv, SessionTypes, Shape, S!InTx
<1>3. \/ u.todo \in Asked /\ Untouched(u)
      \/ u.todo = <<"assistant">> /\ OneAdded(a, u)
  BY <1>1 DEF SInv, Shape
<1>3a. u.kind \in {"save", "message"} /\ (a \in Runs => u.kind = "save")
  BY <1>1 DEF SInv, Shape, S!InTx
<1>4. S!Turns(u.sess) = 0 .. count[u.sess] - 1 /\ count[u.sess] \in Nat
  BY <1>2 DEF SInv, CommittedTurns, SessionTypes
<1>5. S!Max(T) \in Nat \union {-1} /\ IF u.added = {} THEN S!Max(T) < count[u.sess] ELSE S!Max(T) = count[u.sess]
  <2>1. CASE u.added = {}
    <3>1. T = (0 .. count[u.sess] - 1) \union {-1}
      BY <1>4, <2>1
    <3>2. T \in SUBSET Int /\ count[u.sess] - 1 \in T /\ \A x \in T : x <= count[u.sess] - 1
      BY <1>4, <3>1
    <3>3. S!Max(T) = count[u.sess] - 1
      BY <3>2, MaxIs
    <3> QED
      BY <1>4, <2>1, <3>3
  <2>2. CASE u.added # {}
    <3>1. u.added = {Question(a, u)}
      BY <1>3, <2>2 DEF Untouched, OneAdded
    <3>2. {m.turn : m \in u.added} = {count[u.sess]}
      BY <3>1 DEF Question
    <3>3. T = (0 .. count[u.sess] - 1) \union {count[u.sess]} \union {-1}
      BY <1>4, <3>2
    <3> HIDE DEF T
    <3>4. T \in SUBSET Int /\ count[u.sess] \in T /\ \A x \in T : x <= count[u.sess]
      BY <1>4, <3>3
    <3>5. S!Max(T) = count[u.sess]
      BY <3>4, MaxIs
    <3> QED
      BY <1>4, <2>2, <3>5
  <2> QED
    BY <2>1, <2>2
<1> HIDE DEF T
<1>6. /\ t \in Transaction /\ t.sess = u.sess /\ t.kind = u.kind /\ t.todo = u.todo
      /\ t.added = u.added /\ t.locks = u.locks /\ t.count = u.count /\ t.turn = S!Max(T)
  BY <1>2, <1>5 DEF Transaction
<1> HIDE DEF t
<1>7. Shape(a, "turn", t)
  BY <1>2, <1>3, <1>3a, <1>5, <1>6 DEF Shape, S!InTx, Untouched, OneAdded, Question, Response
<1>8. \A b \in S!Actors \ {a} : Apart(t, save[b])
  BY <1>6 DEF SInv, Apart
<1> QED
  BY <1>1, <1>6, <1>7, <1>8, SessionsStep DEF S!InTx

(* The transaction is over without having been committed. *)
LEMMA GiveUpInv ==
    ASSUME SInv, NEW a \in S!Actors, saving[a] # "saved",
           NEW s \in {"collided", "broken", "closed"}, saving' = [saving EXCEPT ![a] = s],
           save' = [save EXCEPT ![a] = [S!NoTx EXCEPT !.sess = save[a].sess]],
           UNCHANGED S!tables,
           a \in Runs /\ s = "collided" =>
              \E u \in Runs \ {a} : \E m \in messages[save[a].sess] : m.by = u
    PROVE  SInv'
<1> DEFINE t == [S!NoTx EXCEPT !.sess = save[a].sess]
<1>1. t \in Transaction /\ Untouched(t) /\ t.sess = save[a].sess
  BY NoTxFacts DEF SInv, SessionTypes, Transaction
<1>2. save' = [save EXCEPT ![a] = t]
  OBVIOUS
<1> HIDE DEF t
<1>3. Shape(a, s, t)
  BY <1>1 DEF Shape, S!InTx
<1>4. \A b \in S!Actors \ {a} : Apart(t, save[b])
  BY <1>1 DEF Apart, Untouched
<1> QED
  BY <1>1, <1>2, <1>3, <1>4, SessionsStep DEF S!Ended

LEMMA InsertInv == ASSUME SInv, NEW a \in S!Actors, S!Insert(a) PROVE SInv'
<1> DEFINE u == save[a]
           message == [turn |-> u.turn + 1, by |-> a, role |-> Head(u.todo)]
           Taken == S!Taken(u.sess, message.turn)
           t == [u EXCEPT !.added = @ \union {message}]
<1>1. /\ saving[a] = "turn" /\ UNCHANGED S!tables
      /\ ~ S!InsertedByOther(a, message.turn)
      /\ IF Taken \/ \E m \in u.added : m.turn = message.turn
           THEN /\ saving' = [saving EXCEPT ![a] = "collided"]
                /\ save' = [save EXCEPT ![a] = [S!NoTx EXCEPT !.sess = u.sess]]
           ELSE /\ save' = [save EXCEPT ![a] = t]
                /\ saving' = [saving EXCEPT ![a] = "inserted"]
  BY DEF S!Insert, S!Go
<1>2. u \in Transaction /\ u.sess \in S!Ids /\ u.kind \in {"save", "message"} /\ (a \in Runs => u.kind = "save")
  BY <1>1 DEF SInv, SessionTypes, Shape, S!InTx
<1>3. \/ u.todo \in Asked /\ Untouched(u) /\ u.turn < count[u.sess]
      \/ u.todo = <<"assistant">> /\ OneAdded(a, u) /\ u.turn = count[u.sess]
  BY <1>1 DEF SInv, Shape, Untouched, OneAdded
<1>4. S!Turns(u.sess) = 0 .. count[u.sess] - 1 /\ count[u.sess] \in Nat
  BY <1>2 DEF SInv, CommittedTurns, SessionTypes
<1>5. u.turn \in Nat \union {-1} /\ message.turn = u.turn + 1
  BY <1>2 DEF Transaction
<1>6. ~ \E m \in u.added : m.turn = message.turn
  BY <1>3, <1>4, <1>5 DEF Untouched, OneAdded, Question
<1>7. CASE Taken
  <2>1. PICK m \in messages[u.sess] : m.turn = message.turn
    BY <1>7 DEF S!Taken, S!Turns
  <2>2. m.by \in Runs /\ saving[m.by] = "saved"
    BY <1>2 DEF SInv, CommittedTurns
  <2>3. a \in Runs => \E v \in Runs \ {a} : \E n \in messages[u.sess] : n.by = v
    BY <1>1, <2>2
  <2> QED
    BY <1>1, <1>7, <2>3, GiveUpInv
<1>8. CASE ~ Taken
  <2>1. save' = [save EXCEPT ![a] = t] /\ saving' = [saving EXCEPT ![a] = "inserted"]
    BY <1>1, <1>6, <1>8
  <2>2. message.turn \notin 0 .. count[u.sess] - 1
    BY <1>4, <1>8 DEF S!Taken
  <2>3. \/ /\ u.todo \in Asked /\ Untouched(u) /\ message = Question(a, u)
        \/ /\ u.todo = <<"assistant">> /\ OneAdded(a, u) /\ message = Response(a, u)
    <3>1. CASE u.todo \in Asked /\ Untouched(u) /\ u.turn < count[u.sess]
      <4>1. u.turn + 1 = count[u.sess]
        BY <1>4, <1>5, <2>2, <3>1
      <4>2. Head(u.todo) = "user"
        BY <3>1, TodoFacts DEF Asked
      <4> QED
        BY <3>1, <4>1, <4>2 DEF Question
    <3>2. CASE u.todo = <<"assistant">> /\ OneAdded(a, u) /\ u.turn = count[u.sess]
      BY <3>2, TodoFacts DEF Response
    <3> QED
      BY <1>3, <3>1, <3>2
  <2>4. message \in S!Message
    BY <1>4, <2>3 DEF Question, Response, S!Message, S!Roles
  <2> HIDE DEF message
  <2>5. /\ t \in Transaction /\ t.sess = u.sess /\ t.kind = u.kind /\ t.todo = u.todo
        /\ t.added = u.added \union {message} /\ t.locks = u.locks /\ t.count = u.count
    BY <1>2, <2>4 DEF Transaction
  <2> HIDE DEF t
  <2>6. Shape(a, "inserted", t)
    BY <1>2, <2>3, <2>5 DEF Shape, S!InTx, Untouched, OneAdded, Question, Response
  <2>7. ASSUME NEW b \in S!Actors \ {a}
        PROVE  Apart(t, save[b])
    <3>1. Apart(u, save[b])
      BY DEF SInv
    <3>2. u.sess = save[b].sess => save[b].added = {}
      <4> SUFFICES ASSUME u.sess = save[b].sess, save[b].added # {} PROVE FALSE
        OBVIOUS
      <4>1. u.added = {}
        BY <3>1 DEF Apart
      <4>2. message = Question(a, u)
        BY <2>3, <4>1 DEF OneAdded
      <4>3. \E m \in save[b].added : m.turn = count[u.sess]
        <5>1. saving[b] \in S!InTx /\ Shape(b, saving[b], save[b])
          BY DEF SInv, SessionTypes, Shape, Untouched
        <5>2. saving[b] # "replied" => Question(b, save[b]) \in save[b].added
          BY <5>1 DEF Shape, S!InTx, Untouched, OneAdded, BothAdded
        <5>3. Question(b, save[b]).turn = count[u.sess]
          BY DEF Question
        <5> QED
          BY <5>1, <5>2, <5>3 DEF Shape
      <4> QED
        BY <1>1, <4>2, <4>3 DEF S!InsertedByOther, Question
    <3> QED
      BY <2>5, <3>1, <3>2 DEF Apart
  <2> QED
    BY <1>1, <2>1, <2>5, <2>6, <2>7, SessionsStep DEF S!InTx
<1> QED
  BY <1>7, <1>8

LEMMA TouchInv == ASSUME SInv, NEW a \in S!Actors, S!Touch(a) PROVE SInv'
<1> DEFINE u == save[a]
           t == [u EXCEPT !.count = (IF u.sess \in u.locks THEN @ ELSE count[u.sess]) + 1,
                          !.locks = {u.sess}, !.todo = Tail(@)]
<1>1. /\ saving[a] = "inserted" /\ saving' = [saving EXCEPT ![a] = "open"]
      /\ S!Unlocked(a, u.sess) /\ UNCHANGED S!tables
      /\ save' = [save EXCEPT ![a] = t]
  BY DEF S!Touch, S!Go
<1>2. u \in Transaction /\ u.sess \in S!Ids /\ u.kind \in {"save", "message"} /\ (a \in Runs => u.kind = "save")
  BY <1>1 DEF SInv, SessionTypes, Shape, S!InTx
<1>3. \/ u.todo \in Asked /\ u.added = {Question(a, u)} /\ u.locks = {}
      \/ /\ u.todo = <<"assistant">> /\ u.added = {Question(a, u), Response(a, u)}
         /\ u.locks = {u.sess} /\ u.count = count[u.sess] + 1
  BY <1>1 DEF SInv, Shape
<1>4. count[u.sess] \in Nat
  BY <1>2 DEF SInv, SessionTypes
<1>5. /\ u.todo = <<"user">> => Tail(u.todo) = <<>>
      /\ u.todo = <<"user", "assistant">> => Tail(u.todo) = <<"assistant">>
      /\ u.todo = <<"assistant">> => Tail(u.todo) = <<>>
  BY TodoFacts
<1>6. u.todo \in {<<"user">>, <<"user", "assistant">>, <<"assistant">>}
  BY <1>3 DEF Asked
<1>7. Tail(u.todo) \in {<<>>, <<"assistant">>}
  BY <1>5, <1>6
<1>8. /\ t \in Transaction /\ t.sess = u.sess /\ t.kind = u.kind /\ t.added = u.added
      /\ t.locks = {u.sess} /\ t.todo = Tail(u.todo)
      /\ t.count = (IF u.sess \in u.locks THEN u.count ELSE count[u.sess]) + 1
  <2> DEFINE n == (IF u.sess \in u.locks THEN u.count ELSE count[u.sess]) + 1
             rest == Tail(u.todo)
  <2>1. n \in Nat /\ rest \in Todos
    BY <1>2, <1>4, <1>7 DEF Transaction, Todos
  <2>2. t = [u EXCEPT !.count = n, !.locks = {u.sess}, !.todo = rest]
    OBVIOUS
  <2> HIDE DEF n, rest, t
  <2>3. /\ t \in Transaction /\ t.sess = u.sess /\ t.kind = u.kind /\ t.added = u.added
        /\ t.locks = {u.sess} /\ t.todo = rest /\ t.count = n
    BY <1>2, <2>1, <2>2 DEF Transaction
  <2> QED
    BY <2>3 DEF n, rest
<1> HIDE DEF t
<1>9. Shape(a, "open", t)
  <2>1. CASE u.todo \in Asked /\ u.added = {Question(a, u)} /\ u.locks = {}
    <3>1. OneAdded(a, t)
      BY <1>8, <2>1 DEF OneAdded, Question
    <3> QED
      BY <1>2, <1>7, <1>8, <3>1 DEF Shape, S!InTx
  <2>2. CASE /\ u.todo = <<"assistant">> /\ u.added = {Question(a, u), Response(a, u)}
             /\ u.locks = {u.sess} /\ u.count = count[u.sess] + 1
    <3>1. BothAdded(a, t) /\ t.todo = <<>>
      BY <1>4, <1>5, <1>8, <2>2 DEF BothAdded, Question, Response
    <3> QED
      BY <1>2, <1>8, <3>1, TodoFacts DEF Shape, S!InTx
  <2> QED
    BY <1>3, <2>1, <2>2
<1>10. \A b \in S!Actors \ {a} : Apart(t, save[b])
  BY <1>1, <1>8 DEF SInv, Apart, S!Unlocked
<1> QED
  BY <1>1, <1>8, <1>9, <1>10, SessionsStep DEF S!InTx

(* A transaction that has written all it has to locks its row, or is answered. *)
LEMMA LockInv ==
    ASSUME SInv, NEW a \in S!Actors, S!UpdateRow(a) \/ S!Reply(a)
    PROVE  SInv'
<1> DEFINE u == save[a]
<1>1. /\ saving[a] = "open" /\ u.todo = <<>> /\ UNCHANGED S!tables
  BY DEF S!UpdateRow, S!Reply, S!Go
<1>2. u \in Transaction /\ u.sess \in S!Ids /\ (a \in Runs => u.kind = "save")
  BY <1>1 DEF SInv, SessionTypes, Shape, S!InTx
<1>3. IF u.kind \in {"save", "message"} THEN OneAdded(a, u) \/ BothAdded(a, u) ELSE Untouched(u)
  BY <1>1 DEF SInv, Shape
<1>4. PICK s \in {"updated", "replied"} : saving' = [saving EXCEPT ![a] = s] /\ (s = "updated" => a \in Runs)
  BY DEF S!UpdateRow, S!Reply, S!Go
<1>5. PICK locks \in {{}, {u.sess}} :
         /\ save' = [save EXCEPT ![a].locks = locks]
         /\ s = "updated" => locks = {u.sess}
         /\ locks = {} \/ u.kind \in {"save", "message"} \/ S!Unlocked(a, u.sess)
         /\ locks = {} => u.kind = "create"
  <2>1. CASE S!UpdateRow(a)
    BY <2>1 DEF S!UpdateRow
  <2>2. CASE S!Reply(a)
    <3>1. s = "replied"
      BY <1>4, <2>2 DEF S!Reply, S!Go, SInv, SessionTypes
    <3>2. save' = [save EXCEPT ![a].locks = IF u.kind = "create" THEN {} ELSE {u.sess}]
      BY <2>2 DEF S!Reply
    <3> QED
      BY <1>1, <1>2, <2>2, <3>1, <3>2 DEF S!Reply, Transaction, SInv, Shape, S!InTx
  <2> QED
    BY <2>1, <2>2

<1> DEFINE t == [u EXCEPT !.locks = locks]
<1>6. /\ t \in Transaction /\ t.sess = u.sess /\ t.kind = u.kind /\ t.todo = u.todo
      /\ t.added = u.added /\ t.count = u.count /\ t.locks = locks
  BY <1>2 DEF Transaction
<1>7. save' = [save EXCEPT ![a] = t]
  BY <1>5
<1> HIDE DEF t
<1>8. Shape(a, s, t)
  <2>1. s = "updated" => u.kind = "save" /\ (OneAdded(a, u) \/ BothAdded(a, u))
    BY <1>2, <1>3, <1>4
  <2>2. u.added \in {{}, {Question(a, u)}, {Question(a, u), Response(a, u)}}
    BY <1>3 DEF OneAdded, BothAdded, Untouched
  <2>3. t.kind # "none"
    BY <1>1, <1>6 DEF SInv, Shape, S!InTx
  <2> QED
    BY <1>2, <1>5, <1>6, <2>1, <2>2, <2>3 DEF Shape, S!InTx, OneAdded, BothAdded, Question, Response
<1>9. ASSUME NEW b \in S!Actors \ {a}
      PROVE  Apart(t, save[b])
  <2>1. Apart(u, save[b])
    BY DEF SInv
  <2>2. CASE u.kind \in {"save", "message"}
    <3>1. locks \subseteq u.locks
      BY <1>3, <1>5, <2>2 DEF OneAdded, BothAdded
    <3> QED
      BY <1>6, <2>1, <3>1 DEF Apart
  <2>3. CASE u.kind \notin {"save", "message"}
    BY <1>5, <1>6, <2>1, <2>3 DEF Apart, S!Unlocked
  <2> QED
    BY <2>2, <2>3
<1> QED
  BY <1>1, <1>4, <1>6, <1>7, <1>8, <1>9, SessionsStep DEF S!InTx

(* The rows of a run become visible: they follow those of its session. *)
LEMMA CommitInv == ASSUME SInv, NEW a \in Runs, S!Commit(a) PROVE SInv'
<1> DEFINE u == save[a]
           z == u.sess
           t == [S!NoTx EXCEPT !.sess = z]
<1>1. /\ saving[a] = "updated" /\ saving' = [saving EXCEPT ![a] = "saved"]
      /\ save' = [save EXCEPT ![a] = t]
      /\ sessions' = sessions \union {z}
      /\ messages' = [messages EXCEPT ![z] = @ \union u.added]
      /\ count' = [count EXCEPT ![z] = u.count]
  BY DEF S!Commit, S!Publish, S!Go
<1>2. a \in S!Actors /\ Runs \subseteq S!Actors
  BY DEF S!Actors
<1>3. u \in Transaction /\ z \in S!Ids /\ u.added # {}
  BY <1>1, <1>2 DEF SInv, SessionTypes, Shape, S!InTx, OneAdded, BothAdded
<1>4. /\ count[z] \in Nat
      /\ \/ u.added = {Question(a, u)} /\ u.count = count[z] + 1
         \/ u.added = {Question(a, u), Response(a, u)} /\ u.count = count[z] + 2
  BY <1>1, <1>2, <1>3 DEF SInv, SessionTypes, Shape, OneAdded, BothAdded
<1>5. t \in Transaction /\ Untouched(t) /\ t.sess = z
  BY <1>3, NoTxFacts DEF Transaction
<1> HIDE DEF t
<1>6. SessionTypes'
  <2>1. u.added \subseteq S!Message /\ u.count \in Nat
    BY <1>3 DEF Transaction
  <2> QED
    BY <1>1, <1>2, <1>3, <1>5, <2>1 DEF SInv, SessionTypes, S!Ended
<1>7. /\ saving'[a] = "saved" /\ save'[a] = t
      /\ \A b \in S!Actors \ {a} : saving'[b] = saving[b] /\ save'[b] = save[b]
      /\ messages'[z] = messages[z] \union u.added /\ count'[z] = u.count
      /\ \A s \in S!Ids \ {z} : messages'[s] = messages[s] /\ count'[s] = count[s]
  BY <1>1, <1>2, <1>3 DEF SInv, SessionTypes
<1>8. ASSUME NEW b \in S!Actors
      PROVE  Shape(b, saving[b], save[b])'
  <2>1. CASE b = a
    BY <1>5, <1>7, <2>1 DEF Shape, S!InTx, Untouched
  <2>2. CASE b # a
    <3>1. Shape(b, saving[b], save[b]) /\ Apart(u, save[b]) /\ save[b] \in Transaction
      BY <1>2, <2>2 DEF SInv, SessionTypes
    <3>2. CASE save[b].sess = z
      <4>1. save[b].added = {}
        BY <1>3, <3>1, <3>2 DEF Apart
      <4>2. count[z] <= count'[z] /\ count'[z] \in Nat
        BY <1>4, <1>7
      <4> QED
        BY <1>4, <1>7, <2>2, <3>1, <3>2, <4>1, <4>2
           DEF Shape, Untouched, OneAdded, BothAdded, Transaction
    <3>3. CASE save[b].sess # z
      <4>1. saving[b] \in S!InTx => count'[save[b].sess] = count[save[b].sess]
        BY <1>7, <3>1, <3>3 DEF Shape
      <4>2. CASE saving[b] \in S!InTx
        BY <1>7, <2>2, <3>1, <4>1, <4>2
           DEF Shape, Untouched, OneAdded, BothAdded, Question, Response
      <4>3. CASE saving[b] \notin S!InTx
        BY <1>7, <2>2, <3>1, <4>3 DEF Shape, S!InTx, Untouched
      <4> QED
        BY <4>2, <4>3
    <3> QED
      BY <3>2, <3>3
  <2> QED
    BY <2>1, <2>2
<1>9. (\A b, c \in S!Actors : b # c => Apart(save[b], save[c]))'
  BY <1>5, <1>7 DEF SInv, Apart, Untouched
<1>10. CommittedTurns'
  <2> SUFFICES ASSUME NEW s \in S!Ids
               PROVE  /\ {m.turn : m \in messages'[s]} = 0 .. count'[s] - 1
                      /\ \A m, n \in messages'[s] : m.turn = n.turn => m = n
                      /\ \A m \in messages'[s] : m.by \in Runs /\ saving'[m.by] = "saved"
    BY DEF CommittedTurns, S!Turns
  <2>1. /\ {m.turn : m \in messages[s]} = 0 .. count[s] - 1
        /\ \A m, n \in messages[s] : m.turn = n.turn => m = n
        /\ \A m \in messages[s] : m.by \in Runs /\ saving[m.by] = "saved"
    BY DEF SInv, CommittedTurns, S!Turns
  <2>2. CASE s # z
    BY <1>2, <1>7, <2>1, <2>2
  <2>3. CASE s = z
    <3>1. \A m \in u.added : m.by = a /\ m.turn \notin 0 .. count[z] - 1
      BY <1>4 DEF Question, Response
    <3>2. {m.turn : m \in u.added} = count[z] .. u.count - 1
      <4>1. CASE u.added = {Question(a, u)} /\ u.count = count[z] + 1
        <5>1. {m.turn : m \in u.added} = {count[z]}
          BY <4>1 DEF Question
        <5> QED
          BY <1>4, <4>1, <5>1
      <4>2. CASE u.added = {Question(a, u), Response(a, u)} /\ u.count = count[z] + 2
        <5>1. {m.turn : m \in u.added} = {count[z], count[z] + 1}
          BY <4>2 DEF Question, Response
        <5>2. u.count - 1 = count[z] + 1
          BY <1>4, <4>2
        <5>3. count[z] .. count[z] + 1 = {count[z], count[z] + 1}
          BY <1>4
        <5> QED
          BY <5>1, <5>2, <5>3
      <4> QED
        BY <1>4, <4>1, <4>2
    <3>3. {m.turn : m \in messages'[s]} = 0 .. count'[s] - 1
      <4>1. {m.turn : m \in messages'[s]} = {m.turn : m \in messages[z]} \union {m.turn : m \in u.added}
        BY <1>7, <2>3
      <4>2. {m.turn : m \in messages'[s]} = (0 .. count[z] - 1) \union (count[z] .. u.count - 1)
        BY <2>1, <2>3, <3>2, <4>1
      <4> QED
        BY <1>4, <1>7, <2>3, <4>2
    <3>4. \A m, n \in u.added : m.turn = n.turn => m = n
      BY <1>4 DEF Question, Response
    <3>5. \A m \in messages[z] : m.turn \in 0 .. count[z] - 1
      BY <2>1, <2>3
    <3>6. \A m, n \in messages'[s] : m.turn = n.turn => m = n
      BY <1>7, <2>1, <2>3, <3>1, <3>4, <3>5
    <3>7. \A m \in messages'[s] : m.by \in Runs /\ saving'[m.by] = "saved"
      BY <1>2, <1>7, <2>1, <2>3, <3>1
    <3> QED
      BY <3>3, <3>6, <3>7
  <2> QED
    BY <2>2, <2>3
<1>11. S!ExchangesStayTogether'
  <2> SUFFICES ASSUME NEW s \in S!Ids, NEW m \in messages'[s], m.role = "assistant"
               PROVE  [turn |-> m.turn - 1, by |-> m.by, role |-> "user"] \in messages'[s]
    BY DEF S!ExchangesStayTogether
  <2>1. CASE m \in messages[s]
    BY <1>7, <2>1 DEF SInv, S!ExchangesStayTogether
  <2>2. CASE m \notin messages[s]
    <3>1. s = z /\ m \in u.added
      BY <1>7, <2>2
    <3>2. m = Response(a, u) /\ Question(a, u) \in u.added
      BY <1>4, <3>1 DEF Question
    <3> QED
      BY <1>4, <1>7, <3>1, <3>2 DEF Question, Response
  <2> QED
    BY <2>1, <2>2
<1>12. S!OnlySavesCollide'
  <2> SUFFICES ASSUME NEW r \in Runs, saving'[r] = "collided"
               PROVE  \E v \in Runs \ {r} : \E m \in messages'[save'[r].sess] : m.by = v
    BY DEF S!OnlySavesCollide
  <2>1. r # a /\ saving[r] = "collided" /\ save'[r] = save[r]
    BY <1>2, <1>7
  <2>2. PICK v \in Runs \ {r} : \E m \in messages[save[r].sess] : m.by = v
    BY <2>1 DEF SInv, S!OnlySavesCollide
  <2>3. messages[save[r].sess] \subseteq messages'[save[r].sess]
    BY <1>1, <1>3 DEF SInv, SessionTypes
  <2> QED
    BY <2>1, <2>2, <2>3
<1> QED
  BY <1>6, <1>8, <1>9, <1>10, <1>11, <1>12 DEF SInv

LEMMA SessionsNext == ASSUME SInv, [S!Next]_S!vars PROVE SInv'
<1>1. CASE UNCHANGED S!vars
  <2>1. /\ sessions' = sessions /\ messages' = messages /\ count' = count
        /\ saving' = saving /\ save' = save
    BY <1>1 DEF S!vars, S!tables
  <2>2. SessionTypes'
    BY <2>1 DEF SInv, SessionTypes
  <2>3. (\A a \in S!Actors : Shape(a, saving[a], save[a]))'
    BY <2>1 DEF SInv, Shape, OneAdded, BothAdded, Question, Response
  <2>4. (\A a, b \in S!Actors : a # b => Apart(save[a], save[b]))'
    BY <2>1 DEF SInv
  <2>5. CommittedTurns' /\ S!ExchangesStayTogether' /\ S!OnlySavesCollide'
    BY <2>1 DEF SInv, CommittedTurns, S!Turns, S!ExchangesStayTogether, S!OnlySavesCollide
  <2> QED
    BY <2>2, <2>3, <2>4, <2>5 DEF SInv
<1>2. ASSUME NEW a \in Runs, S!TaskStep(a)
      PROVE  SInv'
  BY <1>2, LoadHistoryInv, OpenSaveInv, ReadTurnInv, InsertInv, TouchInv, LockInv, CommitInv
     DEF S!TaskStep, S!Actors
<1>3. ASSUME NEW a \in Runs, S!Break(a)
      PROVE  SInv'
  <2>1. /\ saving[a] # "saved" /\ saving' = [saving EXCEPT ![a] = "broken"] /\ UNCHANGED S!tables
        /\ save' = [save EXCEPT ![a] = [S!NoTx EXCEPT !.sess = save[a].sess]]
    BY <1>3 DEF S!Break, S!Go, S!InTx
  <2> QED
    BY <2>1, GiveUpInv DEF S!Actors
<1>4. ASSUME NEW a \in Visitors, S!Close(a)
      PROVE  SInv'
  <2>1. /\ saving[a] # "saved" /\ saving' = [saving EXCEPT ![a] = "closed"] /\ UNCHANGED S!tables
        /\ save' = [save EXCEPT ![a] = [S!NoTx EXCEPT !.sess = save[a].sess]]
    BY <1>4 DEF S!Close, S!Go
  <2> QED
    BY <2>1, GiveUpInv DEF S!Actors
<1>5. ASSUME NEW a \in Visitors, S!RequestStep(a)
      PROVE  SInv'
  BY <1>4, <1>5, ReadTurnInv, InsertInv, TouchInv, LockInv DEF S!RequestStep, S!Actors
<1> QED
  BY <1>1, <1>2, <1>3, <1>5, RequestInv DEF S!Next

LEMMA ServicesAreSessions == ServicesSpec => S!Spec
<1>1. ServicesInit => S!Init
  BY DEF ServicesInit
<1>2. [ServicesNext]_allVars => [S!Next]_S!vars
  <2>1. CASE UNCHANGED allVars
    BY <2>1 DEF allVars, sessionVars, S!vars, S!tables
  <2>2. CASE ServicesNext
    BY <2>2 DEF ServicesNext, OnlyOf, sessionVars, S!vars, S!tables
  <2> QED
    BY <2>1, <2>2
<1> QED
  BY <1>1, <1>2, PTL DEF ServicesSpec, S!Spec

LEMMA SessionsInvariance == ServicesSpec => []SInv
  BY SessionsInit, SessionsNext, ServicesAreSessions, PTL DEF S!Spec

LEMMA SizeIs == ASSUME NEW T PROVE S!Cardinality(T) = Cardinality(T)
  BY DEF S!Cardinality, Cardinality

(* Turns, numbered without gaps, are as many as message_count says. *)
LEMMA TurnsCounted == ASSUME SInv PROVE S!TurnsAreConsecutive
<1> SUFFICES ASSUME NEW s \in S!Ids
             PROVE  S!Turns(s) = 0 .. count[s] - 1 /\ Cardinality(messages[s]) = count[s]
  BY SizeIs DEF S!TurnsAreConsecutive
<1>1. /\ S!Turns(s) = 0 .. count[s] - 1 /\ count[s] \in Nat
      /\ \A m, n \in messages[s] : m.turn = n.turn => m = n
  BY DEF SInv, CommittedTurns, SessionTypes
<1> DEFINE f == [m \in messages[s] |-> m.turn]
<1>2. f \in Bijection(messages[s], 0 .. count[s] - 1)
  BY <1>1 DEF S!Turns, Bijection, Injection, Surjection, IsInjective
<1> DEFINE n == count[s] - 1
<1>3. IsFiniteSet(0 .. n) /\ Cardinality(0 .. n) = count[s]
  <2>1. 0 \in Int /\ n \in Int /\ n + 1 = count[s] /\ (0 > n => count[s] = 0)
    BY <1>1
  <2> HIDE DEF n
  <2>2. IsFiniteSet(0 .. n) /\ Cardinality(0 .. n) = IF 0 > n THEN 0 ELSE n - 0 + 1
    BY <2>1, FS_Interval
  <2> QED
    BY <1>1, <2>1, <2>2
<1>4. Cardinality(messages[s]) = count[s]
  BY <1>2, <1>3, FS_Bijection, Fun_ExistsBijSymmetric DEF ExistsBijection
<1> QED
  BY <1>1, <1>4

(* A lock holder waits for no one, who adds rows at most for lock holders, and
   everybody else for those two. *)
LEMMA WaitsInOrder == ASSUME SInv PROVE S!NoCircularWait
<1> DEFINE open == {a \in S!Actors : saving[a] \in S!InTx}
           Holds(a) == save[a].locks # {}
           Adds(a) == save[a].added # {}
<1>1. ASSUME NEW a \in open
      PROVE  /\ S!WaitsFor(a) \subseteq {b \in open : Holds(b) \/ Adds(b)}
             /\ Adds(a) => S!WaitsFor(a) \subseteq {b \in open : Holds(b)}
             /\ Holds(a) => S!WaitsFor(a) = {}
  <2> DEFINE z == save[a].sess
             Lockers == {b \in S!Actors \ {a} : z \in save[b].locks}
             Inserters == {b \in S!Actors \ {a} :
                              save[b].sess = z /\ \E m \in save[b].added : m.turn = save[a].turn + 1}
  <2>1. /\ \A b \in S!Actors : Holds(b) \/ Adds(b) => b \in open
        /\ Shape(a, saving[a], save[a])
        /\ \A b \in S!Actors \ {a} : Apart(save[a], save[b])
    BY DEF SInv, Shape, Untouched
  <2>2. Lockers \subseteq {b \in open : Holds(b)} /\ Inserters \subseteq {b \in open : Adds(b)}
    BY <2>1
  <2>3. Adds(a) => Inserters = {}
    BY <2>1 DEF Apart
  <2>4. z \in save[a].locks => Lockers = {}
    BY <2>1 DEF Apart
  <2>5. Holds(a) => save[a].locks = {z}
    BY <2>1 DEF Shape, S!InTx, Untouched, OneAdded, BothAdded
  <2>6. S!WaitsFor(a) = CASE saving[a] = "turn" -> Inserters
                          [] saving[a] = "inserted" -> Lockers
                          [] saving[a] = "open" /\ save[a].todo = <<>> ->
                               IF save[a].kind \in {"save", "delete", "cleanup"} THEN Lockers ELSE {}
                          [] OTHER -> {}
    BY DEF S!WaitsFor
  <2>7. saving[a] = "turn" /\ Holds(a) => Adds(a)
    BY <2>1 DEF Shape, Untouched, OneAdded
  <2> HIDE DEF Lockers, Inserters, Holds, Adds
  <2>8. CASE saving[a] = "turn"
    BY <2>2, <2>3, <2>6, <2>7, <2>8
  <2>9. CASE saving[a] # "turn"
    <3>1. S!WaitsFor(a) \in {Lockers, {}}
      BY <2>6, <2>9
    <3> QED
      BY <2>2, <2>4, <2>5, <3>1
  <2> QED
    BY <2>8, <2>9
<1>2. \A a \in open : S!WaitsFor(a) \subseteq open
  BY <1>1
<1>3. ASSUME NEW among \in (SUBSET open) \ {{}}
      PROVE  \E a \in among : S!WaitsFor(a) \intersect among = {}
  <2>1. CASE \E a \in among : Holds(a)
    BY <1>1, <2>1
  <2>2. CASE (\A a \in among : ~ Holds(a)) /\ \E a \in among : Adds(a)
    BY <1>1, <2>2
  <2>3. CASE \A a \in among : ~ Holds(a) /\ ~ Adds(a)
    <3>1. PICK a \in among : TRUE
      OBVIOUS
    <3> QED
      BY <1>1, <2>3, <3>1
  <2> QED
    BY <2>1, <2>2, <2>3
<1> QED
  BY <1>2, <1>3 DEF S!NoCircularWait

(* The committed turns of a session have no gaps, no turn is there twice,  *)
(* and message_count is their number, whatever transactions overlap        *)
(* (session_history/repository.py: add_message, soft_delete).              *)
THEOREM ConsecutiveTurns == ServicesSpec => []TurnsAreConsecutive
  BY SessionsInvariance, TurnsCounted, PTL DEF TurnsAreConsecutive

(* An answer follows the question of its own run: no other row comes       *)
(* between them (orchestrator/nodes/save_session.py).                      *)
THEOREM WholeExchanges == ServicesSpec => []ExchangesStayTogether
<1>1. SInv => ExchangesStayTogether
  BY DEF SInv, ExchangesStayTogether
<1> QED
  BY <1>1, SessionsInvariance, PTL

(* A run loses its save only when another save committed to the same       *)
(* session after its turn was read (session_history/repository.py).        *)
THEOREM SavesOnlyCollide == ServicesSpec => []OnlySavesCollide
<1>1. SInv => OnlySavesCollide
  BY DEF SInv, OnlySavesCollide
<1> QED
  BY <1>1, SessionsInvariance, PTL

(* No set of transactions waits for nobody but one another: a transaction  *)
(* that waits holds no lock another one could need before it is done       *)
(* (session_history/repository.py: unique key, then row of the session).   *)
THEOREM TransactionsDoNotDeadlock == ServicesSpec => []NoCircularWait
  BY SessionsInvariance, WaitsInOrder, PTL DEF NoCircularWait

-------------------------------------------------------------------------------
(* Documents. *)
\* Rows of some documents.
RowsOf == UNION {[X -> D!Row] : X \in SUBSET D!Clients}

\* The progress of a call: its content is one of a file once there is one.
Operations == {"none", "upload", "page", "delete", "reindex"}
CallType == [step : D!Steps, op : Operations, content : Contents \union {CHOOSE k \in Contents : TRUE},
             target : D!Clients, reply : D!Replies]

\* What is known of client c, with the progress p, the rows rw its transaction
\* has written and the clients it knew, over the committed rows and the contents
\* that are stored or named.
ClientInv(c, p, rw, seen, stable, safe) ==
    /\ seen \subseteq DOMAIN stable
    /\ p.step \in {"idle", "store", "insert", "mark", "done"} => DOMAIN rw = {}
    /\ p.step \in {"store", "insert"} => p.content \in Contents
    /\ c \in DOMAIN stable => p.step = "done" /\ stable[c].content = p.content
    /\ p.step = "mark" => c \notin Scripts /\ p.target \in DOMAIN stable
    /\ p.step = "tag" => p.target \in DOMAIN stable \union DOMAIN rw
    /\ \A i \in DOMAIN rw : /\ IF i = c THEN rw[i].content = p.content
                                 ELSE i \in DOMAIN stable /\ rw[i].content = stable[i].content
                            /\ c \in Scripts => rw[i].live
    /\ p.step \in {"store", "insert"} \/ c \in DOMAIN rw \union DOMAIN stable =>
          \A j \in seen \ {c} : stable[j].content # p.content
    /\ p.step = "insert" \/ c \in DOMAIN rw \union DOMAIN stable => p.content \in safe

Safe == object \union named

DInv ==
    /\ table \in RowsOf /\ \A i \in DOMAIN table : table[i].live
    /\ tx \in [D!Clients -> RowsOf]
    /\ call \in [D!Clients -> CallType]
    /\ known \in [D!Clients -> SUBSET D!Clients]
    /\ \A c \in D!Clients : ClientInv(c, call[c], tx[c], known[c], table, Safe)

LEMMA NoRowsFacts == D!NoRows \in RowsOf /\ DOMAIN D!NoRows = {}
  BY DEF D!NoRows, RowsOf

LEMMA PutFacts ==
    ASSUME NEW f \in RowsOf, NEW i \in D!Clients, NEW v \in D!Row
    PROVE  /\ D!Put(f, i, v) \in RowsOf
           /\ DOMAIN D!Put(f, i, v) = DOMAIN f \union {i}
           /\ D!Put(f, i, v)[i] = v
           /\ \A j \in DOMAIN f \ {i} : D!Put(f, i, v)[j] = f[j]
<1>1. PICK X \in SUBSET D!Clients : f \in [X -> D!Row]
  BY DEF RowsOf
<1>2. D!Put(f, i, v) \in [X \union {i} -> D!Row]
  BY <1>1 DEF D!Put
<1>3. X \union {i} \in SUBSET D!Clients
  BY <1>1
<1> QED
  BY <1>2, <1>3 DEF RowsOf, D!Put

LEMMA PutOnEmpty ==
    ASSUME NEW f \in RowsOf, DOMAIN f = {}, NEW i \in D!Clients, NEW v \in D!Row
    PROVE  /\ D!Put(f, i, v) \in RowsOf
           /\ DOMAIN D!Put(f, i, v) = {i} /\ D!Put(f, i, v)[i] = v
<1>1. /\ D!Put(f, i, v) \in RowsOf /\ DOMAIN D!Put(f, i, v) = DOMAIN f \union {i}
      /\ D!Put(f, i, v)[i] = v
  BY PutFacts
<1> QED
  BY <1>1

LEMMA DocumentsInit == D!Init => DInv
<1> SUFFICES ASSUME D!Init PROVE DInv
  OBVIOUS
<1>1. /\ table = D!NoRows /\ \A c \in D!Clients : tx[c] = D!NoRows /\ known[c] = {} /\ call[c].step = "idle"
      /\ tx = [c \in D!Clients |-> D!NoRows]
  BY DEF D!Init
<1> DEFINE k == CHOOSE k \in Contents : TRUE
           first(c) == [step |-> "idle", op |-> "none", content |-> k, target |-> c, reply |-> "none"]
<1>2. call = [c \in D!Clients |-> first(c)]
  BY DEF D!Init
<1>3. \A c \in D!Clients : first(c) \in CallType
  BY DEF CallType, Operations, D!Steps, D!Replies
<1> HIDE DEF first
<1>4. call \in [D!Clients -> CallType]
  BY <1>2, <1>3
<1>5. \A c \in D!Clients : ClientInv(c, call[c], tx[c], known[c], table, Safe)
  BY <1>1, NoRowsFacts DEF ClientInv
<1> QED
  BY <1>1, <1>4, <1>5, NoRowsFacts DEF DInv, D!Init

(* A step of c that commits nothing. *)
LEMMA DocumentsStep ==
    ASSUME DInv, NEW c \in D!Clients, NEW p \in CallType, NEW rw \in RowsOf, NEW seen \in SUBSET D!Clients,
           table' = table, call' = [call EXCEPT ![c] = p], tx' = [tx EXCEPT ![c] = rw],
           known' = [known EXCEPT ![c] = seen],
           Safe \subseteq Safe',
           ClientInv(c, p, rw, seen, table, Safe')
    PROVE  DInv'
<1>1. /\ call'[c] = p /\ tx'[c] = rw /\ known'[c] = seen
      /\ \A d \in D!Clients \ {c} : call'[d] = call[d] /\ tx'[d] = tx[d] /\ known'[d] = known[d]
  BY DEF DInv
<1>2. \A d \in D!Clients : ClientInv(d, call'[d], tx'[d], known'[d], table', Safe')
  <2> SUFFICES ASSUME NEW d \in D!Clients PROVE ClientInv(d, call'[d], tx'[d], known'[d], table, Safe')
    OBVIOUS
  <2>1. CASE d = c
    BY <1>1, <2>1
  <2>2. CASE d # c
    BY <1>1, <2>2 DEF DInv, ClientInv
  <2> QED
    BY <2>1, <2>2
<1> QED
  BY <1>2 DEF DInv

(* Only the progress changes, or what was looked up with it. *)
LEMMA ProgressStep ==
    ASSUME DInv, NEW c \in D!Clients, NEW p \in CallType, NEW seen \in SUBSET D!Clients,
           table' = table, call' = [call EXCEPT ![c] = p], tx' = tx,
           known' = [known EXCEPT ![c] = seen],
           Safe \subseteq Safe',
           ClientInv(c, p, tx[c], seen, table, Safe')
    PROVE  DInv'
<1>1. tx' = [tx EXCEPT ![c] = tx[c]] /\ tx[c] \in RowsOf
  BY DEF DInv
<1> QED
  BY <1>1, DocumentsStep

LEMMA ListedFacts ==
    ASSUME DInv
    PROVE  D!Listed = DOMAIN table /\ DOMAIN table \subseteq D!Clients
<1>1. \A f \in RowsOf : DOMAIN f \subseteq D!Clients
  BY DEF RowsOf
<1> QED
  BY <1>1 DEF DInv, D!Listed

LEMMA TypeFacts ==
    ASSUME DInv, NEW c \in D!Clients
    PROVE  /\ call[c] \in CallType /\ tx[c] \in RowsOf /\ known[c] \in SUBSET D!Clients
           /\ known = [known EXCEPT ![c] = known[c]] /\ table \in RowsOf
           /\ DOMAIN table \subseteq D!Clients /\ D!Listed = DOMAIN table
           /\ \A i \in DOMAIN table : table[i] \in D!Row
           /\ \A i \in DOMAIN tx[c] : i \in D!Clients /\ tx[c][i] \in D!Row
           /\ ClientInv(c, call[c], tx[c], known[c], table, Safe)
<1>1. \A f \in RowsOf : DOMAIN f \subseteq D!Clients /\ \A i \in DOMAIN f : f[i] \in D!Row
  BY DEF RowsOf
<1> QED
  BY <1>1 DEF DInv, D!Listed

(* What a progress becomes when some of its fields are given new values. *)
LEMMA LookupInv ==
    ASSUME DInv, NEW c \in D!Clients, NEW op \in {"upload", "page"}, NEW k \in Contents, D!Lookup(c, op, k)
    PROVE  DInv'
<1> DEFINE same == D!Duplicates(k)
           seen == DOMAIN table
<1>1. /\ call[c].step = "idle" /\ known' = [known EXCEPT ![c] = seen]
      /\ table' = table /\ tx' = tx /\ Safe' = Safe
  BY DEF D!Lookup, Safe
<1>2. same = {i \in DOMAIN table : table[i].content = k}
  BY TypeFacts DEF D!Duplicates
<1>3. seen \in SUBSET D!Clients /\ call[c] \in CallType /\ DOMAIN tx[c] = {} /\ c \notin DOMAIN table
  BY <1>1, TypeFacts DEF ClientInv
<1>4. PICK p \in CallType :
         /\ call' = [call EXCEPT ![c] = p]
         /\ \/ same = {} /\ p.step = "store" /\ p.content = k
            \/ p.step = "close"
            \/ p.step = "tag" /\ p.target \in same
  <2>1. CASE same = {} /\ call' = [call EXCEPT ![c].step = "store", ![c].op = op, ![c].content = k]
    <3> DEFINE p == [call[c] EXCEPT !.step = "store", !.op = op, !.content = k]
    <3>1. p \in CallType /\ p.step = "store" /\ p.content = k
      BY <1>3 DEF CallType, Operations, D!Steps, D!Replies
    <3>2. call' = [call EXCEPT ![c] = p]
      BY <2>1
    <3> QED
      BY <2>1, <3>1, <3>2
  <2>2. CASE \E i \in same : call' = [call EXCEPT ![c] = [step |-> IF op = "page" THEN "tag" ELSE "close",
                                            op |-> op, content |-> k, target |-> i,
                                            reply |-> "deduplicated"]]
    <3>1. PICK i \in same : call' = [call EXCEPT ![c] = [step |-> IF op = "page" THEN "tag" ELSE "close",
                                            op |-> op, content |-> k, target |-> i,
                                            reply |-> "deduplicated"]]
      BY <2>2
    <3>2. i \in D!Clients
      BY <1>2, <1>3
    <3> DEFINE p == [step |-> IF op = "page" THEN "tag" ELSE "close", op |-> op, content |-> k,
                     target |-> i, reply |-> "deduplicated"]
    <3>3. p \in CallType /\ p.step \in {"tag", "close"} /\ p.target = i
      BY <3>2 DEF CallType, Operations, D!Steps, D!Replies
    <3> QED
      BY <3>1, <3>3
  <2>3. CASE call' = [call EXCEPT ![c].step = "close", ![c].op = op, ![c].content = k, ![c].reply = "error"]
    <3> DEFINE p == [call[c] EXCEPT !.step = "close", !.op = op, !.content = k, !.reply = "error"]
    <3>1. p \in CallType /\ p.step = "close"
      BY <1>3 DEF CallType, Operations, D!Steps, D!Replies
    <3> QED
      BY <2>3, <3>1
  <2> QED
    BY <2>1, <2>2, <2>3 DEF D!Lookup
<1>5. ClientInv(c, p, tx[c], seen, table, Safe')
  BY <1>1, <1>2, <1>3, <1>4 DEF ClientInv
<1> QED
  BY <1>1, <1>3, <1>4, <1>5, ProgressStep

(* What a call becomes when it goes on, or is answered. *)
LEMMA ToFacts ==
    ASSUME DInv, NEW c \in D!Clients, NEW st \in D!Steps
    PROVE  \E p \in CallType :
              /\ D!To(c, st) = [call EXCEPT ![c] = p]
              /\ p.step = st /\ p.content = call[c].content /\ p.target = call[c].target
<1> DEFINE p == [call[c] EXCEPT !.step = st]
<1>1. call[c] \in CallType
  BY TypeFacts
<1>2. p \in CallType /\ p.step = st /\ p.content = call[c].content /\ p.target = call[c].target
  BY <1>1 DEF CallType
<1>3. D!To(c, st) = [call EXCEPT ![c] = p]
  BY DEF D!To
<1> QED
  BY <1>2, <1>3

(* A call that is over but for its session: its transaction is what it was. *)
LEMMA ClosingInv ==
    ASSUME DInv, NEW c \in D!Clients, NEW p \in CallType, p.step = "close",
           call[c].step \in {"idle", "store"},
           table' = table, call' = [call EXCEPT ![c] = p], tx' = tx, known' = known, Safe \subseteq Safe'
    PROVE  DInv'
<1>1. ClientInv(c, p, tx[c], known[c], table, Safe')
  BY TypeFacts DEF ClientInv
<1> QED
  BY <1>1, TypeFacts, ProgressStep

LEMMA StoreInv == ASSUME DInv, NEW c \in D!Clients, D!Store(c) PROVE DInv'
<1>1. call[c].step = "store" /\ table' = table /\ tx' = tx /\ known' = known /\ named' = named
  BY DEF D!Store
<1>2. Safe \subseteq Safe'
  BY <1>1 DEF D!Store, Safe
<1>3. CASE object' = object \union {call[c].content} /\ call' = D!To(c, "insert")
  <2>1. PICK p \in CallType : /\ call' = [call EXCEPT ![c] = p]
                              /\ p.step = "insert" /\ p.content = call[c].content
    BY <1>3, ToFacts DEF D!Steps
  <2>2. call[c].content \in Safe'
    BY <1>3 DEF Safe
  <2>3. ClientInv(c, p, tx[c], known[c], table, Safe')
    BY <1>1, <2>1, <2>2, TypeFacts DEF ClientInv
  <2> QED
    BY <1>1, <1>2, <2>1, <2>3, TypeFacts, ProgressStep
<1>4. CASE call' = D!Answer(c, "error")
  <2> DEFINE p == [call[c] EXCEPT !.step = "close", !.reply = "error"]
  <2>0. call[c] \in CallType
    BY TypeFacts
  <2>1. p \in CallType /\ p.step = "close"
    BY <2>0 DEF CallType, Operations, D!Steps, D!Replies
  <2>2. call' = [call EXCEPT ![c] = p]
    BY <1>4 DEF D!Answer
  <2> QED
    BY <1>1, <1>2, <2>1, <2>2, ClosingInv
<1> QED
  BY <1>3, <1>4 DEF D!Store

LEMMA InsertRowInv == ASSUME DInv, NEW c \in D!Clients, D!Insert(c) PROVE DInv'
<1> DEFINE rw == D!Put(tx[c], c, D!NewRow(c))
           p == [call[c] EXCEPT !.step = IF call[c].op = "page" THEN "tag" ELSE "close",
                                !.target = c, !.reply = "created"]
<1>1. /\ call[c].step = "insert" /\ table' = table /\ known' = known /\ Safe' = Safe
      /\ tx' = [tx EXCEPT ![c] = rw] /\ call' = [call EXCEPT ![c] = p]
  BY DEF D!Insert, Safe
<1>2. call[c] \in CallType /\ call[c].content \in Contents /\ DOMAIN tx[c] = {} /\ tx[c] \in RowsOf
  BY <1>1, TypeFacts DEF ClientInv
<1>3. /\ D!NewRow(c) \in D!Row /\ D!NewRow(c).content = call[c].content /\ D!NewRow(c).live
  BY <1>2 DEF D!NewRow, D!Row
<1>4. rw \in RowsOf /\ DOMAIN rw = {c} /\ rw[c] = D!NewRow(c)
  <2>1. \A f \in RowsOf : DOMAIN f = {} =>
          \A v \in D!Row : /\ D!Put(f, c, v) \in RowsOf
                           /\ DOMAIN D!Put(f, c, v) = {c} /\ D!Put(f, c, v)[c] = v
    BY PutOnEmpty
  <2> QED
    BY <1>2, <1>3, <2>1
<1>5. /\ p \in CallType /\ p.content = call[c].content /\ p.target = c /\ p.step \in {"tag", "close"}
  BY <1>2 DEF CallType, D!Steps, D!Replies
<1> HIDE DEF p, rw
<1>6. ClientInv(c, p, rw, known[c], table, Safe')
  BY <1>1, <1>2, <1>3, <1>4, <1>5, TypeFacts DEF ClientInv
<1> QED
  BY <1>1, <1>4, <1>5, <1>6, TypeFacts, DocumentsStep

(* A request marks a row: one that its transaction may take with it. *)
LEMMA TagInv == ASSUME DInv, NEW c \in D!Clients, D!Tag(c) PROVE DInv'
<1> DEFINE i == call[c].target
           fresh == [D!Seen(c, i) EXCEPT !.type = "url"]
           rw == D!Put(tx[c], i, fresh)
<1>1. /\ call[c].step = "tag" /\ table' = table /\ known' = known /\ Safe' = Safe
      /\ tx' = [tx EXCEPT ![c] = rw] /\ call' = D!To(c, "close")
  BY DEF D!Tag, D!Write, Safe
<1>2. PICK p \in CallType : /\ call' = [call EXCEPT ![c] = p]
                            /\ p.step = "close" /\ p.content = call[c].content
  BY <1>1, ToFacts DEF D!Steps
<1>3. i \in D!Clients /\ i \in DOMAIN table \union DOMAIN tx[c] /\ tx[c] \in RowsOf /\ c \notin DOMAIN table
  BY <1>1, TypeFacts DEF ClientInv, CallType
<1>4. D!Seen(c, i) \in D!Row /\ D!Seen(c, i) = IF i \in DOMAIN tx[c] THEN tx[c][i] ELSE table[i]
  BY <1>3, TypeFacts DEF D!Seen
<1>5. fresh \in D!Row /\ fresh.content = D!Seen(c, i).content /\ fresh.live = D!Seen(c, i).live
  BY <1>4 DEF D!Row
<1> HIDE DEF fresh
<1>6. /\ rw \in RowsOf /\ DOMAIN rw = DOMAIN tx[c] \union {i}
      /\ rw[i] = fresh /\ \A j \in DOMAIN tx[c] \ {i} : rw[j] = tx[c][j]
  <2> DEFINE f == tx[c]
  <2>1. f \in RowsOf /\ i \in D!Clients /\ fresh \in D!Row
    BY <1>3, <1>5
  <2> HIDE DEF f, i
  <2>2. /\ D!Put(f, i, fresh) \in RowsOf /\ DOMAIN D!Put(f, i, fresh) = DOMAIN f \union {i}
        /\ D!Put(f, i, fresh)[i] = fresh /\ \A j \in DOMAIN f \ {i} : D!Put(f, i, fresh)[j] = f[j]
    BY <2>1, PutFacts
  <2> QED
    BY <2>2 DEF f, i
<1> HIDE DEF rw
<1>7. ClientInv(c, call[c], tx[c], known[c], table, Safe) /\ \A j \in DOMAIN table : table[j].live
  BY TypeFacts DEF DInv
<1>8. \A j \in DOMAIN rw : /\ IF j = c THEN rw[j].content = p.content
                                ELSE j \in DOMAIN table /\ rw[j].content = table[j].content
                           /\ c \in Scripts => rw[j].live
  BY <1>2, <1>3, <1>4, <1>5, <1>6, <1>7 DEF ClientInv
<1>9. c \in DOMAIN rw => c \in DOMAIN tx[c]
  BY <1>3, <1>6
<1>10. ClientInv(c, p, rw, known[c], table, Safe')
  BY <1>1, <1>2, <1>3, <1>7, <1>8, <1>9 DEF ClientInv
<1>11. known[c] \in SUBSET D!Clients /\ known' = [known EXCEPT ![c] = known[c]] /\ Safe \subseteq Safe'
  BY <1>1, TypeFacts
<1> QED
  BY <1>1, <1>2, <1>6, <1>10, <1>11, DocumentsStep

(* A request writes a row of another client. *)
LEMMA RequestWrites ==
    ASSUME DInv, NEW c \in D!Clients, c \notin Scripts, call[c].step \in {"idle", "mark"},
           NEW i \in DOMAIN table, NEW fresh \in D!Row, fresh.content = table[i].content,
           NEW p \in CallType, p.step = "close", call' = [call EXCEPT ![c] = p],
           D!Write(c, i, fresh), table' = table, known' = known, Safe' = Safe
    PROVE  DInv'
<1> DEFINE f == tx[c]
           rw == D!Put(f, i, fresh)
<1>1. f \in RowsOf /\ DOMAIN f = {} /\ i \in D!Clients /\ c \notin DOMAIN table /\ i # c
  BY TypeFacts DEF ClientInv
<1>2. tx' = [tx EXCEPT ![c] = rw]
  BY DEF D!Write
<1>3. rw \in RowsOf /\ DOMAIN rw = {i} /\ rw[i] = fresh
  <2>1. \A v \in D!Row : /\ D!Put(f, i, v) \in RowsOf
                         /\ DOMAIN D!Put(f, i, v) = {i} /\ D!Put(f, i, v)[i] = v
    BY <1>1, PutOnEmpty
  <2> QED
    BY <2>1
<1> HIDE DEF rw
<1>4. ClientInv(c, p, rw, known[c], table, Safe')
  <2>1. ClientInv(c, call[c], tx[c], known[c], table, Safe)
    BY TypeFacts
  <2> QED
    BY <1>1, <1>3, <2>1 DEF ClientInv
<1>5. known[c] \in SUBSET D!Clients /\ known' = [known EXCEPT ![c] = known[c]] /\ Safe \subseteq Safe'
  BY TypeFacts
<1> QED
  BY <1>2, <1>3, <1>4, <1>5, DocumentsStep

LEMMA DeleteInv == ASSUME DInv, NEW c \in D!Clients, D!DeleteDocument(c) PROVE DInv'
<1>1. PICK i \in D!Clients : D!Discard(c, i)
  BY DEF D!DeleteDocument
<1>2. c \notin Scripts
  BY DocumentBounds DEF D!DocumentsAssumption, D!DeleteDocument
<1>3. /\ call[c].step = "idle" /\ call[c] \in CallType
      /\ table' = table /\ tx' = tx /\ known' = known
  BY <1>1, TypeFacts DEF D!Discard
<1>4. Safe \subseteq Safe'
  BY <1>1 DEF D!Discard, Safe
<1>5. CASE i \notin D!Listed
  <2> DEFINE p == [call[c] EXCEPT !.step = "close", !.op = "delete", !.target = i, !.reply = "missing"]
  <2>1. p \in CallType /\ p.step = "close"
    BY <1>3 DEF CallType, Operations, D!Steps, D!Replies
  <2>2. call' = [call EXCEPT ![c] = p]
    BY <1>1, <1>5 DEF D!Discard, D!Get
  <2> HIDE DEF p
  <2> QED
    BY <1>3, <1>4, <2>1, <2>2, ClosingInv
<1>6. CASE i \in D!Listed
  <2> DEFINE p == [call[c] EXCEPT !.step = "mark", !.op = "delete", !.target = i]
  <2>1. p \in CallType /\ p.step = "mark" /\ p.target = i
    BY <1>3 DEF CallType, Operations, D!Steps, D!Replies
  <2>2. call' = [call EXCEPT ![c] = p]
    BY <1>1, <1>6 DEF D!Discard, D!Get
  <2> HIDE DEF p
  <2>3. ClientInv(c, p, tx[c], known[c], table, Safe')
    <3>1. ClientInv(c, call[c], tx[c], known[c], table, Safe) /\ i \in DOMAIN table
      BY <1>6, TypeFacts
    <3> QED
      BY <1>2, <1>3, <2>1, <3>1 DEF ClientInv
  <2> QED
    BY <1>3, <1>4, <2>1, <2>2, <2>3, TypeFacts, ProgressStep
<1> QED
  BY <1>5, <1>6

LEMMA MarkInv == ASSUME DInv, NEW c \in D!Clients, D!Mark(c) PROVE DInv'
<1> DEFINE i == call[c].target
           fresh == [table[i] EXCEPT !.live = FALSE]
           p == [call[c] EXCEPT !.step = "close", !.reply = "deleted"]
<1>1. /\ call[c].step = "mark" /\ table' = table /\ known' = known /\ Safe' = Safe
      /\ D!Write(c, i, fresh)
  BY DEF D!Mark, Safe
<1>2. call' = [call EXCEPT ![c] = p]
  BY DEF D!Mark, D!Answer
<1>3. call[c] \in CallType /\ i \in DOMAIN table /\ c \notin Scripts
  BY <1>1, TypeFacts DEF ClientInv
<1>4. table[i] \in D!Row
  BY <1>3, TypeFacts
<1>5. fresh \in D!Row /\ fresh.content = table[i].content
  BY <1>4 DEF D!Row
<1>6. p \in CallType /\ p.step = "close"
  BY <1>3 DEF CallType, D!Steps, D!Replies
<1> HIDE DEF p, fresh, i
<1> QED
  BY <1>1, <1>2, <1>3, <1>5, <1>6, RequestWrites

LEMMA ReindexInv == ASSUME DInv, NEW c \in D!Clients, D!PostReindex(c) PROVE DInv'
<1>1. PICK i \in D!Clients : D!Reindex(c, i)
  BY DEF D!PostReindex
<1>2. c \notin Scripts
  BY DocumentBounds DEF D!DocumentsAssumption, D!PostReindex
<1>3. /\ call[c].step = "idle" /\ call[c] \in CallType
      /\ table' = table /\ known' = known /\ Safe' = Safe
  BY <1>1, TypeFacts DEF D!Reindex, Safe
<1>4. CASE i \notin D!Listed
  <2> DEFINE p == [call[c] EXCEPT !.step = "close", !.op = "reindex", !.reply = "missing"]
  <2>1. p \in CallType /\ p.step = "close"
    BY <1>3 DEF CallType, Operations, D!Steps, D!Replies
  <2>2. call' = [call EXCEPT ![c] = p] /\ tx' = tx
    BY <1>1, <1>4 DEF D!Reindex, D!Get
  <2> HIDE DEF p
  <2> QED
    BY <1>3, <2>1, <2>2, ClosingInv
<1>5. CASE i \in D!Listed
  <2> DEFINE p == [call[c] EXCEPT !.step = "close", !.op = "reindex", !.target = i, !.reply = "reindexed"]
             fresh == [table[i] EXCEPT !.status = "pending"]
  <2>1. p \in CallType /\ p.step = "close"
    BY <1>3 DEF CallType, Operations, D!Steps, D!Replies
  <2>2. call' = [call EXCEPT ![c] = p] /\ D!Write(c, i, fresh)
    BY <1>1, <1>5 DEF D!Reindex, D!Get
  <2>3. i \in DOMAIN table /\ table[i] \in D!Row
    BY <1>5, TypeFacts
  <2>4. fresh \in D!Row /\ fresh.content = table[i].content
    BY <2>3 DEF D!Row
  <2> HIDE DEF p, fresh
  <2> QED
    BY <1>2, <1>3, <2>1, <2>2, <2>3, <2>4, RequestWrites
<1> QED
  BY <1>4, <1>5

LEMMA RejectedInv ==
    ASSUME DInv, NEW c \in D!Clients, NEW op \in {"upload", "page"}, D!Rejected(c, op)
    PROVE  DInv'
<1> DEFINE p == [call[c] EXCEPT !.step = "close", !.op = op, !.reply = "error"]
<1>1. /\ call[c].step = "idle" /\ call[c] \in CallType /\ Safe' = Safe
      /\ table' = table /\ tx' = tx /\ known' = known /\ call' = [call EXCEPT ![c] = p]
  BY TypeFacts DEF D!Rejected, Safe
<1>2. p \in CallType /\ p.step = "close"
  BY <1>1 DEF CallType, Operations, D!Steps, D!Replies
<1> HIDE DEF p
<1> QED
  BY <1>1, <1>2, ClosingInv

(* A session that closes without commit takes its rows with it. *)
LEMMA OverInv ==
    ASSUME DInv, NEW c \in D!Clients, call[c].step = "close", D!Over(c), table' = table
    PROVE  DInv'
<1>1. PICK p \in CallType : /\ call' = [call EXCEPT ![c] = p]
                            /\ p.step = "done" /\ p.content = call[c].content
  BY ToFacts DEF D!Over, D!Steps
<1>2. tx' = [tx EXCEPT ![c] = D!NoRows] /\ known' = known /\ Safe' = Safe
  BY DEF D!Over, Safe
<1>3. ClientInv(c, call[c], tx[c], known[c], table, Safe)
  BY TypeFacts
<1>4. ClientInv(c, p, D!NoRows, known[c], table, Safe')
  BY <1>1, <1>2, <1>3, NoRowsFacts DEF ClientInv
<1>5. known[c] \in SUBSET D!Clients /\ known' = [known EXCEPT ![c] = known[c]] /\ Safe \subseteq Safe'
  BY <1>2, TypeFacts
<1> QED
  BY <1>1, <1>2, <1>4, <1>5, NoRowsFacts, DocumentsStep

(* A script commits: rows appear, and no row changes its content. *)
LEMMA DocumentsCommit ==
    ASSUME DInv, NEW c \in D!Clients, D!Commit(c), call[c].reply # "error"
    PROVE  DInv'
<1> DEFINE rw == tx[c]
<1>1. /\ c \in Scripts /\ call[c].step = "close"
      /\ table' = [i \in DOMAIN table \union DOMAIN rw |-> D!Seen(c, i)]
      /\ tx' = [tx EXCEPT ![c] = D!NoRows] /\ known' = known /\ Safe' = Safe
  BY DEF D!Commit, D!Over, Safe
<1>2. PICK p \in CallType : /\ call' = [call EXCEPT ![c] = p]
                            /\ p.step = "done" /\ p.content = call[c].content
  BY ToFacts DEF D!Commit, D!Over, D!Steps
<1>3. ClientInv(c, call[c], rw, known[c], table, Safe) /\ c \notin DOMAIN table
  BY <1>1, TypeFacts DEF ClientInv
<1>4. /\ \A i \in DOMAIN table : i \in D!Clients /\ table[i] \in D!Row /\ table[i].live
      /\ \A i \in DOMAIN rw : i \in D!Clients /\ rw[i] \in D!Row
  BY TypeFacts DEF DInv
<1>5. /\ DOMAIN table' = DOMAIN table \union DOMAIN rw
      /\ \A i \in DOMAIN rw : table'[i] = rw[i]
      /\ \A i \in DOMAIN table \ DOMAIN rw : table'[i] = table[i]
  BY <1>1 DEF D!Seen
<1>6. \A i \in DOMAIN table' : i \in D!Clients /\ table'[i] \in D!Row /\ table'[i].live
  BY <1>1, <1>3, <1>4, <1>5 DEF ClientInv
<1>7. table' \in RowsOf
  <2>1. table' \in [DOMAIN table' -> D!Row]
    BY <1>1, <1>5, <1>6
  <2>2. DOMAIN table' \in SUBSET D!Clients
    BY <1>6
  <2> QED
    BY <2>1, <2>2 DEF RowsOf
<1>8. /\ \A i \in DOMAIN table : table'[i].content = table[i].content
      /\ DOMAIN table' \subseteq DOMAIN table \union DOMAIN rw
      /\ \A i \in DOMAIN table' \ DOMAIN table : i = c /\ table'[i].content = call[c].content
  BY <1>3, <1>5 DEF ClientInv
<1>9. /\ call'[c] = p /\ tx'[c] = D!NoRows
      /\ \A d \in D!Clients \ {c} : call'[d] = call[d] /\ tx'[d] = tx[d]
  BY <1>1, <1>2 DEF DInv
<1>10. \A d \in D!Clients : ClientInv(d, call'[d], tx'[d], known'[d], table', Safe')
  <2> SUFFICES ASSUME NEW d \in D!Clients PROVE ClientInv(d, call'[d], tx'[d], known[d], table', Safe)
    BY <1>1
  <2>1. CASE d = c
    <3>1. ClientInv(c, p, D!NoRows, known[c], table', Safe)
      BY <1>2, <1>3, <1>5, <1>8, NoRowsFacts DEF ClientInv
    <3> QED
      BY <1>9, <2>1, <3>1
  <2>2. CASE d # c
    <3>1. ClientInv(d, call[d], tx[d], known[d], table, Safe)
      BY TypeFacts
    <3>2. ClientInv(d, call[d], tx[d], known[d], table', Safe)
      BY <1>5, <1>8, <2>2, <3>1 DEF ClientInv
    <3> QED
      BY <1>9, <2>2, <3>2
  <2> QED
    BY <2>1, <2>2
<1>11. /\ tx' \in [D!Clients -> RowsOf] /\ call' \in [D!Clients -> CallType]
       /\ known' \in [D!Clients -> SUBSET D!Clients]
  BY <1>1, <1>2, NoRowsFacts DEF DInv
<1> QED
  BY <1>6, <1>7, <1>10, <1>11 DEF DInv

LEMMA DocumentsNext == ASSUME DInv, [D!Next]_D!vars PROVE DInv'
<1>1. CASE UNCHANGED D!vars
  <2>1. table' = table /\ tx' = tx /\ call' = call /\ known' = known /\ Safe' = Safe
    BY <1>1 DEF D!vars, Safe
  <2> QED
    BY <2>1 DEF DInv
<1>2. ASSUME NEW c \in D!Clients, D!Step(c)
      PROVE  DInv'
  <2>1. CASE D!PostUpload(c) \/ D!PostPage(c)
    BY <2>1, LookupInv, RejectedInv DEF D!PostUpload, D!PostPage, D!Upload, D!Ingest
  <2>2. CASE D!Close(c) \/ D!Commit(c)
    BY <2>2, OverInv, DocumentsCommit DEF D!Close, D!Commit
  <2>3. CASE D!RunJob(c)
    <3>1. table' = table /\ tx' = tx /\ call' = call /\ known' = known /\ Safe' = Safe
      BY <2>3 DEF D!RunJob, Safe
    <3> QED
      BY <3>1 DEF DInv
  <2> QED
    BY <1>2, <2>1, <2>2, <2>3, DeleteInv, ReindexInv, StoreInv, InsertRowInv, TagInv, MarkInv DEF D!Step
<1> QED
  BY <1>1, <1>2 DEF D!Next

LEMMA ServicesAreDocuments == ServicesSpec => D!Spec
<1>1. ServicesInit => D!Init
  BY DEF ServicesInit
<1>2. [ServicesNext]_allVars => [D!Next]_D!vars
  <2>1. CASE UNCHANGED allVars
    BY <2>1 DEF allVars, documentVars, D!vars
  <2>2. CASE ServicesNext
    BY <2>2 DEF ServicesNext, OnlyOf, documentVars, D!vars
  <2> QED
    BY <2>1, <2>2
<1> QED
  BY <1>1, <1>2, PTL DEF ServicesSpec, D!Spec

LEMMA DocumentsInvariance == ServicesSpec => []DInv
  BY DocumentsInit, DocumentsNext, ServicesAreDocuments, PTL DEF D!Spec

(* Two live rows have equal content only when neither client knew of the   *)
(* other's row when it looked for a duplicate                              *)
(* (document_management/service.py: upload).                               *)
THEOREM DuplicatesOnlyOverlap == ServicesSpec => []OneRowPerContent
<1>1. DInv => OneRowPerContent
  <2> SUFFICES ASSUME DInv, NEW i \in D!Listed, NEW j \in D!Listed, i # j,
                      table[i].content = table[j].content
               PROVE  j \notin known[i]
    BY DEF OneRowPerContent, D!OneRowPerContent
  <2>1. i \in DOMAIN table /\ i \in D!Clients
    BY ListedFacts
  <2>2. ClientInv(i, call[i], tx[i], known[i], table, Safe)
    BY <2>1, TypeFacts
  <2> QED
    BY <2>1, <2>2 DEF ClientInv
<1> QED
  BY <1>1, DocumentsInvariance, PTL

(* The object of a live row is in the store unless some DELETE has named   *)
(* its content (document_management/service.py: upload, delete).           *)
THEOREM ListedIsReadable == ServicesSpec => []ObjectsOutliveRows
<1>1. DInv => ObjectsOutliveRows
  <2> SUFFICES ASSUME DInv, NEW i \in D!Listed, table[i].content \notin named
               PROVE  D!Preview(i) = "text" /\ D!Readable(i)
    BY DEF ObjectsOutliveRows, D!ObjectsOutliveRows
  <2>1. i \in DOMAIN table /\ i \in D!Clients
    BY ListedFacts
  <2>2. ClientInv(i, call[i], tx[i], known[i], table, Safe)
    BY <2>1, TypeFacts
  <2>3. table[i].content \in object
    BY <2>1, <2>2 DEF ClientInv, Safe
  <2> QED
    BY <2>3 DEF D!Preview, D!Readable, D!Get, D!Downloads
<1> QED
  BY <1>1, DocumentsInvariance, PTL

-------------------------------------------------------------------------------
(* Retrieval. *)
Query == [version : Nat, rewritten : BOOLEAN]

\* A document of some engine of the mode, found for the current query or another
\* form of it.
Relevant(d, m, q) ==
    /\ d.query.version = q.version
    /\ m = "global" => d.source \in {"summary", "nothing"}
    /\ m = "local" => d.source \notin {"summary", "nothing"}

\* What has been found for it: something in every mode there is, up to where the
\* number asked for counts, and nothing in another, which no judge accepts.
Gathered(docs, at) ==
    /\ IsFiniteSet(docs)
    /\ \A d \in docs : Relevant(d, mode, query)
    /\ mode # "other" /\ (at \in {"judge", "rerank"} \/ top > 0) => docs # {}
    /\ mode = "other" => docs = {} /\ (at # "judge" => round = MaxRounds)

RInv ==
    /\ query \in Query /\ round \in 0 .. MaxRounds /\ mode \in R!Modes
    /\ IsFiniteSet(subs) /\ query \in subs /\ \A q \in subs : q.version = query.version
    /\ top \in Int
    /\ phase \in {"judge", "rerank", "compress", "done"} => Gathered(results, phase)

LEMMA SingletonIsFinite == \A x : IsFiniteSet({x})
  BY FS_Singleton

LEMMA RetrievalInit == ASSUME R!Init PROVE RInv
<1>1. /\ query \in Query /\ subs = {query} /\ round = 0 /\ mode = "hybrid" /\ phase = "route"
      /\ top \in Int
  BY RetrievalBounds DEF R!Init, R!Original, Query, R!RetrievalAssumption
<1>2. IsFiniteSet(subs) /\ query \in subs /\ \A q \in subs : q.version = query.version
  BY <1>1, SingletonIsFinite
<1>3. 0 \in 0 .. MaxRounds
  BY RetrievalBounds DEF R!RetrievalAssumption
<1> QED
  BY <1>1, <1>2, <1>3 DEF RInv, R!Modes

\* What an engine finds for some queries is finite and found for one of them; it
\* finds something when each of its answers does.
LEMMA SearchFacts ==
    ASSUME NEW Q, IsFiniteSet(Q), NEW answers, DOMAIN answers = Q,
           \A q \in Q : \A a \in answers[q] : IsFiniteSet(a),
           NEW r \in R!Searches(answers)
    PROVE  /\ IsFiniteSet(r)
           /\ \A d \in r : \E q \in Q : \E a \in answers[q] : d \in a
           /\ \A q \in Q : \E a \in answers[q] : a \subseteq r
<1>1. PICK found : /\ found \in [Q -> UNION {answers[q] : q \in Q}]
                   /\ \A q \in Q : found[q] \in answers[q]
                   /\ r = UNION {found[q] : q \in Q}
  BY DEF R!Searches
<1> DEFINE T == {found[q] : q \in Q}
<1>2. IsFiniteSet(T)
  <2>1. found \in Surjection(Q, T)
    BY <1>1 DEF Surjection
  <2> QED
    BY <2>1, FS_Surjection
<1>3. \A a \in T : IsFiniteSet(a)
  BY <1>1
<1>4. IsFiniteSet(UNION T)
  <2> HIDE DEF T
  <2> QED
    BY <1>2, <1>3, FS_UNION
<1> QED
  BY <1>1, <1>4

\* What each engine finds is of its own kind.
LEMMA EngineFacts ==
    ASSUME NEW q
    PROVE  /\ \A a \in R!Local(q) : \E s \in {"entity", "context"} : a = {[source |-> s, query |-> q]}
           /\ \A a \in R!Vectors(q) : a = {} \/ a = {[source |-> "text unit", query |-> q]}
           /\ \A a \in R!Global(q) : \E s \in {"summary", "nothing"} : a = {[source |-> s, query |-> q]}
  BY DEF R!Local, R!Vectors, R!Global

LEMMA SearchRInv == ASSUME RInv, R!Search PROVE RInv'
<1> DEFINE locals == [q \in subs |-> R!Local(q)]
           near == [q \in subs |-> R!Vectors(q)]
<1>1. PICK l \in R!Searches(locals), v \in R!Searches(near), g \in R!Global(query) :
         results' = CASE mode = "local" -> R!Fused(l, v, {})
                      [] mode = "global" -> g
                      [] mode = "hybrid" -> R!Fused(l, v, g)
                      [] mode = "other" -> {}
  BY DEF R!Search
<1>2. IsFiniteSet(subs) /\ query \in subs /\ \A q \in subs : q.version = query.version
  BY DEF RInv
<1>3. /\ IsFiniteSet(l) /\ l # {}
      /\ \A d \in l : d.source \in {"entity", "context"} /\ d.query.version = query.version
  <2>1. \A q \in subs : \A a \in locals[q] : IsFiniteSet(a)
    <3> TAKE q \in subs
    <3> TAKE a \in locals[q]
    <3>1. \E s \in {"entity", "context"} : a = {[source |-> s, query |-> q]}
      BY EngineFacts
    <3> QED
      BY <3>1, SingletonIsFinite
  <2>2. DOMAIN locals = subs
    OBVIOUS
  <2>3. /\ IsFiniteSet(l)
        /\ \A d \in l : \E q \in subs : \E a \in locals[q] : d \in a
        /\ \A q \in subs : \E a \in locals[q] : a \subseteq l
    <3> HIDE DEF locals
    <3> QED
      BY <1>2, <2>1, <2>2, SearchFacts
  <2>4. l # {}
    <3>1. PICK a \in R!Local(query) : a \subseteq l
      BY <1>2, <2>3
    <3>2. PICK s \in {"entity", "context"} : a = {[source |-> s, query |-> query]}
      BY <3>1, EngineFacts
    <3> QED
      BY <3>1, <3>2
  <2>5. ASSUME NEW d \in l PROVE d.source \in {"entity", "context"} /\ d.query.version = query.version
    <3>1. PICK q \in subs : \E a \in locals[q] : d \in a
      BY <2>3
    <3>2. PICK a \in R!Local(q) : d \in a
      BY <3>1
    <3>3. PICK s \in {"entity", "context"} : a = {[source |-> s, query |-> q]}
      BY <3>2, EngineFacts
    <3> QED
      BY <1>2, <3>2, <3>3
  <2> QED
    BY <2>3, <2>4, <2>5
<1>4. /\ IsFiniteSet(v)
      /\ \A d \in v : d.source = "text unit" /\ d.query.version = query.version
  <2>1. \A q \in subs : \A a \in near[q] : IsFiniteSet(a)
    <3> TAKE q \in subs
    <3> TAKE a \in near[q]
    <3>1. a = {} \/ a = {[source |-> "text unit", query |-> q]}
      BY EngineFacts
    <3> QED
      BY <3>1, SingletonIsFinite, FS_EmptySet
  <2>2. DOMAIN near = subs
    OBVIOUS
  <2>3. /\ IsFiniteSet(v)
        /\ \A d \in v : \E q \in subs : \E a \in near[q] : d \in a
    <3> HIDE DEF near
    <3> QED
      BY <1>2, <2>1, <2>2, SearchFacts
  <2>4. ASSUME NEW d \in v PROVE d.source = "text unit" /\ d.query.version = query.version
    <3>1. PICK q \in subs : \E a \in near[q] : d \in a
      BY <2>3
    <3>2. PICK a \in R!Vectors(q) : d \in a
      BY <3>1
    <3>3. a = {[source |-> "text unit", query |-> q]}
      BY <3>2, EngineFacts
    <3>4. d = [source |-> "text unit", query |-> q]
      BY <3>2, <3>3
    <3> QED
      BY <1>2, <3>1, <3>4
  <2> QED
    BY <2>3, <2>4
<1>5. /\ IsFiniteSet(g) /\ g # {}
      /\ \A d \in g : d.source \in {"summary", "nothing"} /\ d.query.version = query.version
  <2>1. PICK s \in {"summary", "nothing"} : g = {[source |-> s, query |-> query]}
    BY EngineFacts
  <2>2. IsFiniteSet(g) /\ g # {}
    BY <2>1, SingletonIsFinite
  <2>3. \A d \in g : d.source \in {"summary", "nothing"} /\ d.query.version = query.version
    BY <2>1
  <2> QED
    BY <2>2, <2>3
<1>6. mode \in {"local", "global", "hybrid", "other"} /\ IsFiniteSet({})
  BY FS_EmptySet DEF RInv, R!Modes
<1>7. IsFiniteSet(l \union v \union {}) /\ IsFiniteSet(l \union v \union g)
  BY <1>3, <1>4, <1>5, <1>6, FS_Union
<1>8. /\ IsFiniteSet(results') /\ \A d \in results' : Relevant(d, mode, query)
      /\ IF mode = "other" THEN results' = {} ELSE results' # {}
  <2>1. CASE mode = "local"
    <3>1. results' = l \union v \union {}
      BY <1>1, <2>1 DEF R!Fused
    <3> QED
      BY <1>3, <1>4, <1>7, <2>1, <3>1 DEF Relevant
  <2>2. CASE mode = "global"
    <3>1. results' = g
      BY <1>1, <2>2
    <3> QED
      BY <1>5, <2>2, <3>1 DEF Relevant
  <2>3. CASE mode = "hybrid"
    <3>1. results' = l \union v \union g
      BY <1>1, <2>3 DEF R!Fused
    <3> QED
      BY <1>3, <1>4, <1>5, <1>7, <2>3, <3>1 DEF Relevant
  <2>4. CASE mode = "other"
    BY <1>1, <1>6, <2>4
  <2> QED
    BY <1>6, <2>1, <2>2, <2>3, <2>4
<1>9. UNCHANGED <<mode, top, query, subs, round>> /\ phase' \in {"judge", "raised"}
  BY DEF R!Search
<1>10. phase' = "judge" => Gathered(results, phase)'
  BY <1>8, <1>9 DEF Gathered, Relevant
<1> QED
  BY <1>8, <1>9, <1>10 DEF RInv

LEMMA JudgeRInv == ASSUME RInv, R!Judge PROVE RInv'
<1>1. phase = "judge" /\ UNCHANGED <<mode, top, results>>
  BY DEF R!Judge
<1>2. Gathered(results, phase)
  BY <1>1 DEF RInv
<1>3. CASE R!Accept
  <2>1. phase' = "rerank" /\ UNCHANGED <<query, subs, round>> /\ results # {}
    BY <1>3 DEF R!Accept
  <2> QED
    BY <1>1, <1>2, <2>1 DEF RInv, Gathered, Relevant
<1>4. CASE round < MaxRounds /\ R!Refine
  <2>1. /\ query' \in {query, [query EXCEPT !.version = @ + 1]} /\ subs' = {query'}
        /\ round' = round + 1 /\ phase' = "search"
    BY <1>4 DEF R!Refine, R!Refined
  <2>2. query' \in Query
    BY <2>1 DEF RInv, Query
  <2>3. round' \in 0 .. MaxRounds
    BY <1>4, <2>1, RetrievalBounds DEF RInv, R!RetrievalAssumption
  <2>4. IsFiniteSet(subs') /\ query' \in subs' /\ \A q \in subs' : q.version = query'.version
    BY <2>1, SingletonIsFinite
  <2> QED
    BY <1>1, <2>1, <2>2, <2>3, <2>4 DEF RInv
<1>5. CASE round = MaxRounds /\ phase' = "rerank" /\ UNCHANGED <<query, subs, round>>
  BY <1>1, <1>2, <1>5 DEF RInv, Gathered, Relevant
<1> QED
  BY <1>3, <1>4, <1>5 DEF R!Judge

LEMMA RerankRInv == ASSUME RInv, R!Rerank PROVE RInv'
<1>1. /\ phase = "rerank" /\ phase' = "compress" /\ results' \subseteq results
      /\ R!Cardinality(results') = R!Kept(R!Cardinality(results))
      /\ UNCHANGED <<mode, top, query, subs, round>>
  BY DEF R!Rerank
<1>2. Gathered(results, phase) /\ top \in Int
  BY <1>1 DEF RInv
<1>3. IsFiniteSet(results')
  BY <1>1, <1>2, FS_Subset DEF Gathered
<1>4. R!Cardinality(results) = Cardinality(results) /\ R!Cardinality(results') = Cardinality(results')
  BY DEF R!Cardinality, Cardinality
<1>5. mode # "other" /\ top > 0 => results' # {}
  <2> SUFFICES ASSUME mode # "other", top > 0 PROVE results' # {}
    OBVIOUS
  <2>1. Cardinality(results) \in Nat /\ Cardinality(results) # 0
    BY <1>1, <1>2, FS_EmptySet, FS_CardinalityType DEF Gathered
  <2>2. Cardinality(results') # 0
    BY <1>1, <1>2, <1>4, <2>1 DEF R!Kept
  <2> QED
    BY <2>2, FS_EmptySet
<1>6. Gathered(results, phase)'
  BY <1>1, <1>2, <1>3, <1>5 DEF Gathered, Relevant
<1> QED
  BY <1>1, <1>6 DEF RInv

LEMMA RetrievalNext == ASSUME RInv, [R!Next]_R!vars PROVE RInv'
<1>1. CASE R!Route
  <2>1. mode' \in R!Modes /\ top' \in Int /\ phase' = "rewrite" /\ UNCHANGED <<query, subs, round>>
    BY <1>1, RetrievalBounds DEF R!Route, R!Numbers, R!RetrievalAssumption
  <2> QED
    BY <2>1 DEF RInv
<1>4. CASE R!Enrich \/ UNCHANGED R!vars
  BY <1>4 DEF R!Enrich, R!vars, RInv, Gathered, Relevant
<1>2. CASE R!Rewrite
  <2>1. /\ subs' \in {{query}, {query, [query EXCEPT !.rewritten = TRUE]}} /\ phase' = "enrich"
        /\ UNCHANGED <<mode, top, query, round, results>>
    BY <1>2 DEF R!Rewrite
  <2>2. IsFiniteSet(subs')
    <3>1. IsFiniteSet({query}) /\ IsFiniteSet({query} \union {[query EXCEPT !.rewritten = TRUE]})
      BY SingletonIsFinite, FS_AddElement
    <3>2. \A x : {query, x} = {query} \union {x}
      OBVIOUS
    <3> QED
      BY <2>1, <3>1, <3>2
  <2>3. query \in Query
    BY DEF RInv
  <2>4. query \in subs' /\ \A q \in subs' : q.version = query.version
    BY <2>1, <2>3 DEF Query
  <2> QED
    BY <2>1, <2>2, <2>4 DEF RInv
<1>3. CASE R!Compress
  <2>1. /\ phase = "compress" /\ phase' = "done"
        /\ results' \subseteq results /\ (results' = {} => results = {})
        /\ UNCHANGED <<mode, top, query, subs, round>>
    BY <1>3 DEF R!Compress
  <2>2. Gathered(results, phase)
    BY <2>1 DEF RInv
  <2>3. IsFiniteSet(results')
    BY <2>1, <2>2, FS_Subset DEF Gathered
  <2>4. Gathered(results, phase)'
    BY <2>1, <2>2, <2>3 DEF Gathered, Relevant
  <2> QED
    BY <2>1, <2>4 DEF RInv
<1> QED
  BY <1>1, <1>2, <1>3, <1>4, SearchRInv, JudgeRInv, RerankRInv DEF R!Next

LEMMA ServicesAreRetrieval == ServicesSpec => R!Spec
<1>1. ServicesInit => R!Init
  BY DEF ServicesInit
<1>2. [ServicesNext]_allVars => [R!Next]_R!vars
  <2>1. CASE UNCHANGED allVars
    BY <2>1 DEF allVars, retrievalVars, R!vars
  <2>2. CASE ServicesNext
    BY <2>2 DEF ServicesNext, OnlyOf, retrievalVars, R!vars
  <2> QED
    BY <2>1, <2>2
<1> QED
  BY <1>1, <1>2, PTL DEF ServicesSpec, R!Spec

(* However the rounds end, what is ranked was found by an engine of the    *)
(* mode for the query it is ranked by, and there is something unless no    *)
(* document is asked for or the mode has no engine                         *)
(* (knowledge_layer/pipeline.py: retrieve).                                *)
THEOREM ResultsMatchTheirQuery == ServicesSpec => []RankedByTheirQuery
<1>1. RInv => RankedByTheirQuery
  BY RetrievalBounds DEF RInv, Gathered, Relevant, RankedByTheirQuery, R!RankedByTheirQuery, R!RetrievalAssumption
<1>2. RInv /\ [R!Next]_R!vars => RInv'
  BY RetrievalNext
<1> QED
  BY <1>1, <1>2, RetrievalInit, ServicesAreRetrieval, PTL DEF R!Spec

-------------------------------------------------------------------------------
(* The unified entry. *)
Open(events) == events \in Seq(I!Events) /\ \A i \in DOMAIN events : events[i] \notin I!Ends
EndedOnce(events) ==
    /\ events \in Seq(I!Events) /\ events # <<>> /\ events[Len(events)] \in I!Ends
    /\ \A i \in DOMAIN events : events[i] \in I!Ends => i = Len(events)

\* The document an analysis is about.
Source(r, w) == IF r.url THEN I!Ingested(w) ELSE I!Loaded(w)

\* What a stream at step s is about, with the request r, the services w and the
\* task k it has created.
About(s, r, w, k) ==
    /\ s \in I!Steps
    /\ s \notin {"idle", "gone"} => r \in I!Requests /\ w \in I!Worlds
    /\ s \notin {"watch", "finished", "gone"} => k = "none"
    /\ s \in {"retrieve", "answer"} => I!Intent(r) \notin {"document_analysis", "complex_generation"}
    /\ s = "create" => I!Intent(r) = "complex_generation"
    /\ s \in {"generate", "load", "analyze"} =>
          /\ I!Intent(r) = "document_analysis" /\ (r.url \/ r.doc)
          /\ r.generate <=> s = "generate"
    /\ s = "analyze" => Source(r, w) = "text"
    /\ s = "watch" => \/ I!Intent(r) = "complex_generation" /\ w.task /\ k = "message"
                      \/ /\ I!Intent(r) = "document_analysis" /\ r.generate /\ r.url
                         /\ I!FromUrl(w) = "task" /\ k = "page"

SentInv(s, events) ==
    /\ s \notin {"finished", "gone"} => Open(events)
    /\ s = "finished" => EndedOnce(events)
    /\ s = "gone" => Open(events)

IInv == /\ About(step, body, world, created)
        /\ SentInv(step, sent)
        /\ I!ModesAgree

LEMMA InteractInit == I!Init => IInv
  BY DEF I!Init, IInv, About, SentInv, Open, I!ModesAgree, I!Steps

\* What is sent is appended.
LEMMA SendOpen ==
    ASSUME NEW s, Open(s), NEW events, Open(events)
    PROVE  Open(s \o events)
  BY DEF Open

LEMMA SendEnd ==
    ASSUME NEW s, Open(s), NEW e \in I!Ends
    PROVE  /\ EndedOnce(s \o <<e>>) /\ (s \o <<e>>)[Len(s \o <<e>>)] = e
           /\ EndedOnce(s \o <<"complete", e>>) /\ (s \o <<"complete", e>>)[Len(s \o <<"complete", e>>)] = e
<1>1. e \in I!Events /\ "complete" \in I!Events /\ "complete" \notin I!Ends
  BY DEF I!Events, I!Ends
<1>2. s \in Seq(I!Events) /\ \A i \in DOMAIN s : s[i] \notin I!Ends
  BY DEF Open
<1>3. /\ s \o <<e>> \in Seq(I!Events) /\ Len(s \o <<e>>) = Len(s) + 1
      /\ (s \o <<e>>)[Len(s) + 1] = e
      /\ \A i \in 1 .. Len(s) : (s \o <<e>>)[i] = s[i]
  BY <1>1, <1>2
<1>4. /\ s \o <<"complete", e>> \in Seq(I!Events) /\ Len(s \o <<"complete", e>>) = Len(s) + 2
      /\ (s \o <<"complete", e>>)[Len(s) + 2] = e /\ (s \o <<"complete", e>>)[Len(s) + 1] = "complete"
      /\ \A i \in 1 .. Len(s) : (s \o <<"complete", e>>)[i] = s[i]
  BY <1>1, <1>2
<1>5. EndedOnce(s \o <<e>>)
  BY <1>2, <1>3 DEF EndedOnce
<1>6. EndedOnce(s \o <<"complete", e>>)
  BY <1>1, <1>2, <1>4 DEF EndedOnce
<1> QED
  BY <1>3, <1>4, <1>5, <1>6

\* A step that sends no end.
LEMMA GoesOnInv ==
    ASSUME IInv, NEW from, from \notin {"finished", "gone"}, NEW to \in I!Steps \ {"finished"}, NEW events,
           Open(events), I!Goes(from, events, to), About(to, body, world, created')
    PROVE  IInv'
<1>1. step = from /\ sent' = sent \o events /\ step' = to /\ body' = body /\ world' = world
  BY DEF I!Goes
<1>2. Open(sent')
  BY <1>1, SendOpen DEF IInv, SentInv
<1> QED
  BY <1>1, <1>2 DEF IInv, SentInv, I!ModesAgree

\* A step that sends the end.
LEMMA FinishesInv ==
    ASSUME IInv, NEW from, from \notin {"finished", "gone"}, NEW e \in I!Ends,
           NEW events \in {<<e>>, <<"complete", e>>}, I!Goes(from, events, "finished"),
           About("finished", body, world, created'),
           sent'[Len(sent')] = e => I!ModesAgree'
    PROVE  IInv'
<1>1. step = from /\ sent' = sent \o events /\ step' = "finished" /\ body' = body /\ world' = world
  BY DEF I!Goes
<1>2. EndedOnce(sent') /\ sent'[Len(sent')] = e
  BY <1>1, SendEnd DEF IInv, SentInv
<1> QED
  BY <1>1, <1>2 DEF IInv, SentInv

LEMMA RouteInv == ASSUME IInv, I!Route PROVE IInv'
<1>1. step = "route" /\ created' = created /\ About("route", body, world, created) /\ created = "none"
  BY DEF I!Route, I!Kept, I!SingleMessage, I!Goes, IInv, About
<1>2. CASE I!Intent(body) = "document_analysis" /\ ~body.url /\ ~body.doc /\ I!SingleMessage
  <2>1. I!Goes("route", <<"complete", "done">>, "finished") /\ "done" \in I!Ends
    BY <1>2 DEF I!SingleMessage, I!Ends
  <2>2. About("finished", body, world, created')
    BY <1>1 DEF About, I!Steps
  <2>3. body' = body /\ world' = world
    BY <2>1 DEF I!Goes
  <2>4. I!Sync(body, world) = "message"
    BY <1>2 DEF I!Sync, I!DocumentAnalysis
  <2>5. I!ModesAgree'
    BY <1>1, <1>2, <2>1, <2>3, <2>4 DEF I!ModesAgree, I!Outcome
  <2> QED
    BY <2>1, <2>2, <2>5, FinishesInv
<1>3. CASE \E to \in {"generate", "load", "create", "retrieve", "answer"},
              events \in {<<>>, <<"loading">>, <<"retrieving">>, <<"generating">>} :
              I!Goes("route", events, to) /\ About(to, body, world, created)
  <2>1. PICK to \in {"generate", "load", "create", "retrieve", "answer"},
              events \in {<<>>, <<"loading">>, <<"retrieving">>, <<"generating">>} :
              I!Goes("route", events, to) /\ About(to, body, world, created)
    BY <1>3
  <2>2. Open(<<>>) /\ Open(<<"loading">>) /\ Open(<<"retrieving">>) /\ Open(<<"generating">>)
    BY DEF Open, I!Events, I!Ends
  <2>3. to \in I!Steps \ {"finished"}
    BY <2>1 DEF I!Steps
  <2> QED
    BY <1>1, <2>1, <2>2, <2>3, GoesOnInv
<1> QED
  BY <1>1, <1>2, <1>3 DEF I!Route, About, I!Steps

LEMMA AnswerInv == ASSUME IInv, I!Retrieve \/ I!Answer \/ I!Analysis PROVE IInv'
<1>1. created' = created /\ body' = body /\ world' = world
  BY DEF I!Retrieve, I!Answer, I!Analysis, I!Kept, I!Chunk, I!Answered, I!Fails, I!Goes
<1>2. CASE I!Retrieve
  <2>1. I!Goes("retrieve", <<"retrieved", "generating">>, "answer") /\ step = "retrieve"
    BY <1>2 DEF I!Retrieve, I!Goes
  <2>2. About("answer", body, world, created')
    BY <1>1, <2>1 DEF IInv, About, I!Steps
  <2>3. Open(<<"retrieved", "generating">>) /\ "answer" \in I!Steps \ {"finished"}
    BY DEF Open, I!Events, I!Ends, I!Steps
  <2> QED
    BY <2>1, <2>2, <2>3, GoesOnInv
<1>3. ASSUME NEW from \in {"answer", "analyze"}, I!Chunk(from) PROVE IInv'
  <2>1. I!Goes(from, <<"chunk">>, from) /\ step = from
    BY <1>3 DEF I!Chunk, I!Goes
  <2>2. About(from, body, world, created')
    BY <1>1, <2>1 DEF IInv
  <2>3. Open(<<"chunk">>) /\ from \in I!Steps \ {"finished"}
    BY DEF Open, I!Events, I!Ends, I!Steps
  <2> QED
    BY <2>1, <2>2, <2>3, GoesOnInv
<1>4. ASSUME NEW from \in {"answer", "analyze"}, I!Answered(from) PROVE IInv'
  <2>1. /\ step = from /\ created' = "none" /\ body \in I!Requests /\ world \in I!Worlds
        /\ About(from, body, world, created)
    BY <1>1, <1>4 DEF I!Answered, I!Fails, I!Goes, IInv, About
  <2>2. About("finished", body, world, created')
    BY <2>1 DEF About, I!Steps
  <2>3. from = "answer" => I!Intent(body) \notin {"document_analysis", "complex_generation"}
    BY <2>1 DEF About
  <2>4. from = "analyze" => /\ I!Intent(body) = "document_analysis" /\ (body.url \/ body.doc)
                            /\ ~body.generate /\ Source(body, world) = "text"
    BY <2>1 DEF About
  <2>5. from = "analyze" => I!Sync(body, world) = I!Analyze(world)
    BY <2>4 DEF I!Sync, I!DocumentAnalysis, Source
  <2>6. CASE world.llm /\ I!Goes(from, <<"complete", "done">>, "finished")
    <3>1. "done" \in I!Ends
      BY DEF I!Ends
    <3>2. from = "analyze" => I!Sync(body, world) = "answer"
      BY <2>5, <2>6 DEF I!Analyze
    <3>3. sent'[Len(sent')] = "done" => I!ModesAgree'
      BY <1>1, <2>1, <2>3, <3>2 DEF I!ModesAgree, I!Outcome, I!Last
    <3> QED
      BY <2>2, <2>6, <3>1, <3>3, FinishesInv
  <2>7. CASE ~world.llm /\ I!Fails(from)
    <3>1. "error" \in I!Ends /\ I!Goes(from, <<"error">>, "finished")
      BY <2>7 DEF I!Ends, I!Fails
    <3>2. from = "analyze" => I!Sync(body, world) = "raises"
      BY <2>5, <2>7 DEF I!Analyze
    <3>3. sent'[Len(sent')] = "error" => I!ModesAgree'
      BY <1>1, <2>1, <2>3, <3>2 DEF I!ModesAgree, I!Outcome, I!Last
    <3> QED
      BY <2>2, <3>1, <3>3, FinishesInv
  <2> QED
    BY <1>4, <2>6, <2>7 DEF I!Answered
<1> QED
  BY <1>2, <1>3, <1>4 DEF I!Answer, I!Analysis

LEMMA TaskInv == ASSUME IInv, I!Create \/ I!Generate \/ I!Watch PROVE IInv'
<1>1. body' = body /\ world' = world /\ body \in I!Requests /\ world \in I!Worlds
  BY DEF I!Create, I!Generate, I!Watch, I!Fails, I!Goes, IInv, About
<1>2. "error" \in I!Ends /\ "task_end" \in I!Ends /\ "watch" \in I!Steps \ {"finished"}
  BY DEF I!Ends, I!Steps
<1>3. Open(<<"created">>) /\ Open(<<"task_event">>)
  BY DEF Open, I!Events, I!Ends
<1>4. CASE I!Create
  <2>1. step = "create" /\ About("create", body, world, created) /\ created = "none"
        /\ I!Intent(body) = "complex_generation"
    BY <1>4 DEF I!Create, I!Fails, I!Goes, IInv, About
  <2>2. CASE world.task /\ I!Goes("create", <<"created">>, "watch") /\ created' = "message"
    <3>1. About("watch", body, world, created')
      BY <1>1, <2>1, <2>2 DEF About, I!Steps
    <3> QED
      BY <1>2, <1>3, <2>2, <3>1, GoesOnInv
  <2>3. CASE ~world.task /\ I!Fails("create") /\ UNCHANGED created
    <3>1. About("finished", body, world, created') /\ I!Goes("create", <<"error">>, "finished")
      BY <1>1, <2>1, <2>3 DEF About, I!Steps, I!Fails
    <3>2. I!Sync(body, world) = "raises"
      BY <2>1, <2>3 DEF I!Sync, I!Generation
    <3>3. sent'[Len(sent')] = "error" => I!ModesAgree'
      BY <1>1, <2>1, <2>3, <3>2 DEF I!ModesAgree, I!Outcome, I!Last
    <3> QED
      BY <1>2, <3>1, <3>3, FinishesInv
  <2> QED
    BY <1>4, <2>2, <2>3 DEF I!Create
<1>5. CASE I!Generate
  <2>1. /\ step = "generate" /\ created = "none" /\ I!Intent(body) = "document_analysis"
        /\ (body.url \/ body.doc) /\ body.generate
    BY <1>5 DEF I!Generate, I!Fails, I!Goes, IInv, About
  <2>2. CASE /\ body.url /\ I!FromUrl(world) = "task"
             /\ I!Goes("generate", <<"created">>, "watch") /\ created' = "page"
    <3>1. About("watch", body, world, created')
      BY <1>1, <2>1, <2>2 DEF About, I!Steps
    <3> QED
      BY <1>2, <1>3, <2>2, <3>1, GoesOnInv
  <2>3. CASE /\ ~body.url \/ I!FromUrl(world) # "task"
             /\ I!Fails("generate") /\ UNCHANGED created
    <3>1. About("finished", body, world, created') /\ I!Goes("generate", <<"error">>, "finished")
      BY <1>1, <2>1, <2>3 DEF About, I!Steps, I!Fails
    <3>2. I!Sync(body, world) \in {"message", "raises"}
      BY <2>1, <2>3 DEF I!Sync, I!DocumentAnalysis, I!FromUrl
    <3>3. sent'[Len(sent')] = "error" => I!ModesAgree'
      BY <1>1, <2>1, <2>3, <3>2 DEF I!ModesAgree, I!Outcome, I!Last
    <3> QED
      BY <1>2, <3>1, <3>3, FinishesInv
  <2> QED
    BY <1>5, <2>2, <2>3 DEF I!Generate
<1>6. CASE I!Watch
  <2>1. step = "watch" /\ created' = created /\ About("watch", body, world, created)
    BY <1>6 DEF I!Watch, I!Kept, I!Goes, IInv
  <2>2. CASE I!Goes("watch", <<"task_event">>, "watch")
    BY <1>2, <1>3, <2>1, <2>2, GoesOnInv
  <2>3. CASE I!Goes("watch", <<"task_end">>, "finished")
    <3>1. About("finished", body, world, created')
      BY <1>1, <2>1 DEF About, I!Steps
    <3>2. I!Sync(body, world) = "task" /\ created \in {"message", "page"}
      BY <2>1 DEF About, I!Sync, I!DocumentAnalysis, I!Generation
    <3>3. sent'[Len(sent')] = "task_end" => I!ModesAgree'
      <4> SUFFICES ASSUME sent'[Len(sent')] = "task_end" PROVE I!ModesAgree'
        OBVIOUS
      <4>1. created' # "none" /\ sent'[Len(sent')] # "error"
        BY <2>1, <3>2
      <4>2. I!Outcome' = "task"
        BY <4>1 DEF I!Outcome, I!Last
      <4>3. I!Sync(body', world') = "task"
        BY <1>1, <3>2
      <4> QED
        BY <4>2, <4>3 DEF I!ModesAgree
    <3> QED
      BY <1>2, <2>3, <3>1, <3>3, FinishesInv
  <2> QED
    BY <1>6, <2>2, <2>3 DEF I!Watch
<1> QED
  BY <1>4, <1>5, <1>6

LEMMA LoadInv == ASSUME IInv, I!Load PROVE IInv'
<1>1. /\ step = "load" /\ created = "none" /\ created' = created /\ body' = body /\ world' = world
      /\ body \in I!Requests /\ world \in I!Worlds
      /\ I!Intent(body) = "document_analysis" /\ (body.url \/ body.doc) /\ ~body.generate
  BY DEF I!Load, I!Fails, I!Goes, IInv, About
<1>2. CASE Source(body, world) = "text" /\ I!Goes("load", <<"analyzing">>, "analyze")
  <2>1. About("analyze", body, world, created')
    BY <1>1, <1>2 DEF About, I!Steps
  <2>2. Open(<<"analyzing">>) /\ "analyze" \in I!Steps \ {"finished"}
    BY DEF Open, I!Events, I!Ends, I!Steps
  <2> QED
    BY <1>2, <2>1, <2>2, GoesOnInv
<1>3. CASE Source(body, world) # "text" /\ I!Fails("load")
  <2>1. About("finished", body, world, created') /\ I!Goes("load", <<"error">>, "finished")
    BY <1>1, <1>3 DEF About, I!Steps, I!Fails
  <2>2. I!Sync(body, world) \in {"message", "raises"}
    BY <1>1, <1>3 DEF I!Sync, I!DocumentAnalysis, Source
  <2>3. sent'[Len(sent')] = "error" => I!ModesAgree'
    BY <1>1, <2>2 DEF I!ModesAgree, I!Outcome, I!Last
  <2>4. "error" \in I!Ends
    BY DEF I!Ends
  <2> QED
    BY <2>1, <2>3, <2>4, FinishesInv
<1> QED
  BY <1>2, <1>3 DEF I!Load, Source

LEMMA InteractNext == ASSUME IInv, [I!Next]_I!vars PROVE IInv'
<1>1. CASE UNCHANGED I!vars
  BY <1>1 DEF I!vars, IInv, I!ModesAgree, I!Outcome
<1>2. CASE I!Receive
  <2>1. /\ step = "idle" /\ step' = "route" /\ created' = created /\ sent' = sent
        /\ body' \in I!Requests /\ world' \in I!Worlds
    BY <1>2 DEF I!Receive
  <2> QED
    BY <2>1 DEF IInv, About, SentInv, I!ModesAgree, I!Steps
<1>3. CASE I!Disconnect
  <2>1. step \notin {"idle", "finished", "gone"} /\ I!Goes(step, <<>>, "gone")
    BY <1>3 DEF I!Disconnect
  <2>2. About("gone", body, world, created') /\ "gone" \in I!Steps \ {"finished"}
    BY DEF About, I!Steps
  <2>3. Open(<<>>)
    BY DEF Open
  <2> QED
    BY <2>1, <2>2, <2>3, GoesOnInv
<1> QED
  BY <1>1, <1>2, <1>3, RouteInv, AnswerInv, TaskInv, LoadInv DEF I!Next

LEMMA ServicesAreInteract == ServicesSpec => I!Spec
<1>1. ServicesInit => I!Init
  BY DEF ServicesInit
<1>2. [ServicesNext]_allVars => [I!Next]_I!vars
  <2>1. CASE UNCHANGED allVars
    BY <2>1 DEF allVars, interactVars, I!vars
  <2>2. CASE ServicesNext
    BY <2>2 DEF ServicesNext, OnlyOf, interactVars, I!vars
  <2> QED
    BY <2>1, <2>2
<1> QED
  BY <1>1, <1>2, PTL DEF ServicesSpec, I!Spec

LEMMA InteractInvariance == ServicesSpec => []IInv
<1>1. IInv /\ [I!Next]_I!vars => IInv'
  BY InteractNext
<1> QED
  BY <1>1, InteractInit, ServicesAreInteract, PTL DEF I!Spec

(* A stream that nobody abandons has one end event, its last, on all of    *)
(* its paths (api/routes/interact.py: _route_stream and its generators).   *)
THEOREM StreamsEndOnce == ServicesSpec => []EndsOnce
<1>1. IInv => EndsOnce
  BY DEF IInv, About, SentInv, Open, EndedOnce, EndsOnce, I!EndsOnce, I!Last
<1> QED
  BY <1>1, InteractInvariance, PTL

(* About documents and generation the stream comes to what the reply would *)
(* have been (api/routes/interact.py: _route_sync, _route_stream).         *)
THEOREM BothModesAgree == ServicesSpec => []ModesAgree
<1>1. IInv => ModesAgree
  BY DEF IInv, ModesAgree
<1> QED
  BY <1>1, InteractInvariance, PTL

-------------------------------------------------------------------------------
(* Web indexing. *)
Pageful == [url : B!Spellings, outcome : B!Outcomes \union {"unchanged"}]

WebType ==
    /\ stage \in {"robots", "crawl", "index", "done"}
    /\ queue \in Seq(B!Spellings) /\ visited \subseteq B!Spellings
    /\ fetched \in Seq(Pageful) /\ indexed \in Seq(B!Spellings)
    /\ DOMAIN links \subseteq visited /\ \A p \in DOMAIN links : links[p] \subseteq B!Spellings

\* What the crawl knows of, the start included.
Waiting(q) == {q[i] : i \in DOMAIN q}
Known(v, q) == v \union Waiting(q)

\* far is the distance of each known page from the start, by the links fetched so
\* far: no link leads to more than one further, and one leads there.
Distances(far, v, q, ln) ==
    /\ far \in [Known(v, q) -> Nat] /\ Start \in Known(v, q)
    /\ \A p \in Known(v, q) : far[p] = 0 <=> p = Start
    /\ \A p \in DOMAIN ln : \A t \in ln[p] : t \in Known(v, q) /\ far[t] <= far[p] + 1
    /\ \A t \in Known(v, q) \ {Start} : \E p \in DOMAIN ln : t \in ln[p] /\ far[t] = far[p] + 1

\* The queue: the nearest first, none twice, none visited, and all within one
\* link more than the first.
QueueInOrder(far, v, q) ==
    /\ \A i, j \in DOMAIN q : i < j => far[q[i]] <= far[q[j]] /\ q[i] # q[j]
    /\ \A i \in DOMAIN q : far[q[i]] <= far[q[1]] + 1
    /\ \A i \in DOMAIN q : q[i] \notin v /\ \A p \in v : far[p] <= far[q[i]]

\* What was fetched, in its order.
FetchedInOrder(far, ln, f) ==
    /\ \A i \in DOMAIN f : f[i].url \in DOMAIN ln
    /\ \A i, j \in DOMAIN f : i < j => f[i].url # f[j].url /\ far[f[i].url] <= far[f[j].url]

\* What is built is built of a page fetched, after those fetched before it.
BuiltInOrder(far, f, x) ==
    /\ \A m \in DOMAIN x : \E k \in DOMAIN f :
          /\ f[k].url = x[m]
          /\ \A j \in DOMAIN f : j < k /\ f[j].outcome = "text" => f[j].url \in Waiting(x)
    /\ \A m, n \in DOMAIN x : m < n => far[x[m]] <= far[x[n]]

BInv ==
    /\ WebType
    /\ stage = "robots" => /\ robots = {} /\ queue = <<Start>> /\ visited = {}
                           /\ fetched = <<>> /\ links = <<>> /\ indexed = <<>>
    /\ stage \in {"robots", "crawl"} => indexed = <<>>
    /\ DOMAIN links \intersect robots = {}
    /\ stage \in {"index", "done"} => queue = <<>> \/ ~(Cardinality(visited) < MaxPages)
    /\ \E far \in [Known(visited, queue) -> Nat] :
          /\ Distances(far, visited, queue, links)
          /\ QueueInOrder(far, visited, queue)
          /\ FetchedInOrder(far, links, fetched)
          /\ BuiltInOrder(far, fetched, indexed)

LEMMA UrlsAreFinite == IsFiniteSet(B!Spellings) /\ Start \in B!Spellings /\ Pages \subseteq B!Spellings
<1>1. IsFiniteSet(Pages)
  BY WebBounds DEF B!WebAssumption, B!IsFiniteSet, IsFiniteSet
<1> QED
  BY <1>1, FS_AddElement DEF B!Spellings

LEMMA PageCount == ASSUME NEW T PROVE B!Cardinality(T) = Cardinality(T)
  BY DEF B!Cardinality, Cardinality

LEMMA WebInit == B!Init => BInv
<1> SUFFICES ASSUME B!Init PROVE BInv
  OBVIOUS
<1>1. /\ stage = "robots" /\ robots = {} /\ queue = <<Start>> /\ visited = {}
      /\ fetched = <<>> /\ links = <<>> /\ indexed = <<>> /\ DOMAIN links = {}
  BY DEF B!Init
<1>2. WebType
  BY <1>1, UrlsAreFinite DEF WebType
<1> DEFINE far == [p \in {Start} |-> 0]
<1>3. Known(visited, queue) = {Start} /\ DOMAIN queue = {1} /\ queue[1] = Start
  BY <1>1 DEF Known, Waiting
<1>4. far \in [Known(visited, queue) -> Nat] /\ far[Start] = 0
  BY <1>3
<1> HIDE DEF far
<1>5. Distances(far, visited, queue, links)
  BY <1>1, <1>3, <1>4 DEF Distances
<1>6. QueueInOrder(far, visited, queue)
  BY <1>1, <1>3, <1>4 DEF QueueInOrder
<1>7. FetchedInOrder(far, links, fetched) /\ BuiltInOrder(far, fetched, indexed)
  BY <1>1 DEF FetchedInOrder, BuiltInOrder
<1> QED
  BY <1>1, <1>2, <1>4, <1>5, <1>6, <1>7 DEF BInv

\* Only one page is read.
LEMMA OnePageBInv ==
    ASSUME BInv, B!FetchOne \/ B!SyncOne
    PROVE  BInv'
<1>1. /\ stage = "robots" /\ robots' = {} /\ indexed' = <<>> /\ stage' \in {"index", "done"}
      /\ queue' = <<>> /\ visited' = {Start} /\ links' = [p \in {Start} |-> {}]
      /\ \E outcome \in B!Outcomes \union {"unchanged"} : fetched' = <<[url |-> Start, outcome |-> outcome]>>
  BY DEF BInv, B!FetchOne, B!SyncOne, B!Synced
<1>2. Start \in B!Spellings
  BY UrlsAreFinite
<1>3. /\ fetched' \in Seq(Pageful) /\ DOMAIN fetched' = {1} /\ fetched'[1].url = Start
  BY <1>1, <1>2 DEF Pageful
<1>4. WebType'
  BY <1>1, <1>2, <1>3 DEF WebType
<1> DEFINE far == [p \in {Start} |-> 0]
<1>5. Known(visited', queue') = {Start}
  BY <1>1 DEF Known, Waiting
<1>6. far \in [Known(visited', queue') -> Nat] /\ far[Start] = 0
  BY <1>5
<1> HIDE DEF far
<1>7. Distances(far, visited', queue', links')
  BY <1>1, <1>5, <1>6 DEF Distances
<1>8. QueueInOrder(far, visited', queue')
  BY <1>1 DEF QueueInOrder
<1>9. FetchedInOrder(far, links', fetched') /\ BuiltInOrder(far, fetched', indexed')
  BY <1>1, <1>3 DEF FetchedInOrder, BuiltInOrder
<1> QED
  BY <1>1, <1>4, <1>6, <1>7, <1>8, <1>9 DEF BInv

\* A queue without its first page.
LEMMA TailFacts ==
    ASSUME NEW q \in Seq(B!Spellings), q # <<>>
    PROVE  /\ Head(q) = q[1] /\ Head(q) \in B!Spellings /\ Tail(q) \in Seq(B!Spellings) /\ 1 \in DOMAIN q
           /\ \A i \in DOMAIN Tail(q) : i + 1 \in DOMAIN q /\ Tail(q)[i] = q[i + 1]
           /\ Waiting(q) = {q[1]} \union Waiting(Tail(q))
<1>1. /\ Head(q) = q[1] /\ Head(q) \in B!Spellings /\ Tail(q) \in Seq(B!Spellings) /\ 1 \in DOMAIN q
      /\ Len(q) \in Nat \ {0} /\ Len(Tail(q)) = Len(q) - 1
      /\ \A i \in DOMAIN Tail(q) : i + 1 \in DOMAIN q /\ Tail(q)[i] = q[i + 1]
  OBVIOUS
<1>2. \A i \in DOMAIN q : i = 1 \/ (i - 1 \in DOMAIN Tail(q) /\ Tail(q)[i - 1] = q[i])
  BY <1>1
<1>3. Waiting(q) = {q[1]} \union Waiting(Tail(q))
  BY <1>1, <1>2 DEF Waiting
<1> QED
  BY <1>1, <1>3

\* The first page of the queue is visited and the distances stay.
LEMMA VisitHead ==
    ASSUME NEW v \in SUBSET B!Spellings, NEW q \in Seq(B!Spellings), q # <<>>, NEW far, QueueInOrder(far, v, q),
           far \in [Known(v, q) -> Nat]
    PROVE  /\ QueueInOrder(far, v \union {Head(q)}, Tail(q))
           /\ Known(v \union {Head(q)}, Tail(q)) = Known(v, q)
           /\ \A i \in DOMAIN Tail(q) : far[Tail(q)[i]] <= far[Head(q)] + 1
           /\ \A p \in v : far[p] <= far[Head(q)]
<1>1. /\ Head(q) = q[1] /\ Head(q) \in B!Spellings /\ Tail(q) \in Seq(B!Spellings) /\ 1 \in DOMAIN q
      /\ \A i \in DOMAIN Tail(q) : i \in Nat /\ i > 0 /\ i + 1 \in DOMAIN q /\ Tail(q)[i] = q[i + 1]
      /\ Waiting(q) = {q[1]} \union Waiting(Tail(q))
  BY TailFacts
<1>2. \A i \in DOMAIN q : q[i] \in Known(v, q) /\ far[q[i]] \in Nat
  BY DEF Known, Waiting
<1>3. \A p \in v : far[p] \in Nat
  BY DEF Known
<1>4. Known(v \union {Head(q)}, Tail(q)) = Known(v, q)
  BY <1>1 DEF Known
<1>5. \A i \in DOMAIN Tail(q) : far[Tail(q)[i]] <= far[Head(q)] + 1 /\ far[Head(q)] <= far[Tail(q)[i]]
  BY <1>1, <1>2 DEF QueueInOrder
<1>6. \A i, j \in DOMAIN Tail(q) : i < j => far[Tail(q)[i]] <= far[Tail(q)[j]] /\ Tail(q)[i] # Tail(q)[j]
  BY <1>1 DEF QueueInOrder
<1>7. \A i \in DOMAIN Tail(q) : 1 \in DOMAIN Tail(q) /\ far[Tail(q)[i]] <= far[Tail(q)[1]] + 1
  <2>1. ASSUME NEW i \in DOMAIN Tail(q) PROVE 1 \in DOMAIN Tail(q)
    BY <1>1
  <2> QED
    BY <1>1, <1>2, <1>5, <2>1
<1>8. \A i \in DOMAIN Tail(q) : Tail(q)[i] \notin v \union {Head(q)}
  BY <1>1 DEF QueueInOrder
<1>9. \A i \in DOMAIN Tail(q) : \A p \in v \union {Head(q)} : far[p] <= far[Tail(q)[i]]
  BY <1>1, <1>5 DEF QueueInOrder
<1>10. \A p \in v : far[p] <= far[Head(q)]
  BY <1>1 DEF QueueInOrder
<1> QED
  BY <1>4, <1>5, <1>6, <1>7, <1>8, <1>9, <1>10 DEF QueueInOrder

\* What is built does not depend on the queue, what is fetched not on what is known.
LEMMA RobotsBInv ==
    ASSUME BInv, B!FetchRobots \/ B!Crawled \/ B!Reply
    PROVE  BInv'
<1>1. /\ UNCHANGED <<queue, visited, fetched, links, indexed>>
      /\ stage' \in {"robots", "crawl", "index", "done"} /\ stage' # "robots"
      /\ stage = "robots" => stage' = "crawl"
      /\ stage # "robots" => robots' = robots
      /\ stage' = "crawl" => stage = "robots"
      /\ stage' \in {"index", "done"} => stage \in {"index", "done"} \/ (stage = "crawl" /\ ~ B!Going)
  BY DEF B!FetchRobots, B!Crawled, B!Reply
<1>2. DOMAIN links' \intersect robots' = {}
  BY <1>1 DEF BInv
<1>3. stage' \in {"index", "done"} => queue' = <<>> \/ ~(Cardinality(visited') < MaxPages)
  BY <1>1, PageCount DEF BInv, B!Going
<1>4. WebType' /\ (stage' \in {"robots", "crawl"} => indexed' = <<>>)
  BY <1>1 DEF BInv, WebType
<1>5. \E far \in [Known(visited', queue') -> Nat] :
          /\ Distances(far, visited', queue', links')
          /\ QueueInOrder(far, visited', queue')
          /\ FetchedInOrder(far, links', fetched')
          /\ BuiltInOrder(far, fetched', indexed')
  BY <1>1 DEF BInv
<1> QED
  BY <1>1, <1>2, <1>3, <1>4, <1>5 DEF BInv

LEMMA ForbiddenBInv == ASSUME BInv, B!Forbidden PROVE BInv'
<1>1. /\ stage = "crawl" /\ queue # <<>> /\ Head(queue) \in robots
      /\ visited' = visited \union {Head(queue)} /\ queue' = Tail(queue)
      /\ UNCHANGED <<stage, robots, fetched, links, indexed>>
  BY DEF B!Forbidden, B!Going
<1>2. PICK far \in [Known(visited, queue) -> Nat] :
          /\ Distances(far, visited, queue, links)
          /\ QueueInOrder(far, visited, queue)
          /\ FetchedInOrder(far, links, fetched)
          /\ BuiltInOrder(far, fetched, indexed)
  BY DEF BInv
<1>3. queue \in Seq(B!Spellings) /\ visited \in SUBSET B!Spellings
  BY DEF BInv, WebType
<1>4. Head(queue) \in B!Spellings /\ Tail(queue) \in Seq(B!Spellings)
  BY <1>1, <1>3
<1>5. WebType'
  BY <1>1, <1>3, <1>4 DEF BInv, WebType
<1>6. QueueInOrder(far, visited', queue') /\ Known(visited', queue') = Known(visited, queue)
  BY <1>1, <1>2, <1>3, VisitHead
<1>7. Distances(far, visited', queue', links')
  BY <1>1, <1>2, <1>6 DEF Distances
<1>8. FetchedInOrder(far, links', fetched') /\ BuiltInOrder(far, fetched', indexed')
  BY <1>1, <1>2
<1>9. far \in [Known(visited', queue') -> Nat]
  BY <1>2, <1>6
<1> QED
  BY <1>1, <1>5, <1>6, <1>7, <1>8, <1>9 DEF BInv

\* A sequence of a set's elements, each once, has all of them.
LEMMA SequenceOfSet ==
    ASSUME NEW T, IsFiniteSet(T), NEW s \in B!SetToSeqs(T)
    PROVE  /\ s \in Seq(T) /\ Waiting(s) = T
           /\ \A i, j \in DOMAIN s : i < j => s[i] # s[j]
<1>1. /\ s \in [1 .. Cardinality(T) -> T] /\ DOMAIN s = 1 .. Cardinality(T)
      /\ \A i, j \in DOMAIN s : i # j => s[i] # s[j]
  BY PageCount DEF B!SetToSeqs
<1>2. Cardinality(T) \in Nat
  BY FS_CardinalityType
<1>3. IsFiniteSet(1 .. Cardinality(T)) /\ Cardinality(1 .. Cardinality(T)) = Cardinality(T)
  BY <1>2, FS_Interval
<1>4. s \in Injection(1 .. Cardinality(T), T)
  BY <1>1 DEF Injection, IsInjective
<1>5. s \in Surjection(1 .. Cardinality(T), T)
  BY <1>3, <1>4, FS_Injection
<1>6. Waiting(s) = T
  BY <1>1, <1>5 DEF Waiting, Surjection
<1>7. s \in Seq(T)
  BY <1>1, <1>2
<1>8. \A i, j \in DOMAIN s : i < j => s[i] # s[j]
  BY <1>1, <1>2
<1> QED
  BY <1>6, <1>7, <1>8

\* New pages, all one link beyond n, come behind those that wait, none of which is
\* nearer than n or farther than they.
Grows(v, q, s, far, n, then) ==
    /\ v \in SUBSET B!Spellings /\ q \in Seq(B!Spellings) /\ s \in Seq(B!Spellings) /\ n \in Nat
    /\ Waiting(s) \intersect Known(v, q) = {}
    /\ \A i, j \in DOMAIN s : i < j => s[i] # s[j]
    /\ far \in [Known(v, q) -> Nat] /\ QueueInOrder(far, v, q)
    /\ \A i \in DOMAIN q : n <= far[q[i]] /\ far[q[i]] <= n + 1
    /\ \A p \in v : far[p] <= n
    /\ \A p \in Known(v, q) : then[p] = far[p]
    /\ \A p \in Waiting(s) : then[p] = n + 1

LEMMA QueueGrows ==
    ASSUME NEW v, NEW q, NEW s, NEW far, NEW n, NEW then, Grows(v, q, s, far, n, then)
    PROVE  /\ Known(v, q \o s) = Known(v, q) \union Waiting(s)
           /\ QueueInOrder(then, v, q \o s)
<1> DEFINE new == Waiting(s)
<1> HIDE DEF new
<1>0. /\ v \in SUBSET B!Spellings /\ q \in Seq(B!Spellings) /\ s \in Seq(B!Spellings) /\ n \in Nat /\ Waiting(s) = new
      /\ new \intersect Known(v, q) = {}
      /\ \A i, j \in DOMAIN s : i < j => s[i] # s[j]
      /\ far \in [Known(v, q) -> Nat] /\ QueueInOrder(far, v, q)
      /\ \A i \in DOMAIN q : n <= far[q[i]] /\ far[q[i]] <= n + 1
      /\ \A p \in v : far[p] <= n
      /\ \A p \in Known(v, q) : then[p] = far[p]
      /\ \A p \in new : then[p] = n + 1
  BY DEF Grows, new
<1>1. /\ q \o s \in Seq(B!Spellings) /\ Len(q \o s) = Len(q) + Len(s) /\ Len(q) \in Nat /\ Len(s) \in Nat
      /\ DOMAIN (q \o s) = 1 .. Len(q) + Len(s) /\ DOMAIN q = 1 .. Len(q) /\ DOMAIN s = 1 .. Len(s)
      /\ \A i \in DOMAIN q : (q \o s)[i] = q[i]
      /\ \A i \in DOMAIN (q \o s) : i \notin DOMAIN q => i - Len(q) \in DOMAIN s /\ (q \o s)[i] = s[i - Len(q)]
      /\ \A i \in DOMAIN s : i + Len(q) \in DOMAIN (q \o s) /\ (q \o s)[i + Len(q)] = s[i]
  BY <1>0
<1> DEFINE all == q \o s
<1> HIDE DEF all
<1>2. Waiting(all) = Waiting(q) \union new
  <2>1. \A i \in DOMAIN all : all[i] \in Waiting(q) \union Waiting(s)
    BY <1>0, <1>1 DEF Waiting, all
  <2>2. \A i \in DOMAIN q : i \in DOMAIN all /\ all[i] = q[i]
    BY <1>0, <1>1 DEF all
  <2>3. \A i \in DOMAIN s : i + Len(q) \in DOMAIN all /\ all[i + Len(q)] = s[i]
    BY <1>0, <1>1 DEF all
  <2> QED
    BY <1>0, <2>1, <2>2, <2>3 DEF Waiting
<1>3. Known(v, all) = Known(v, q) \union new
  BY <1>0, <1>2 DEF Known
<1>4. /\ \A p \in Known(v, q) : then[p] = far[p]
      /\ \A p \in new : then[p] = n + 1 /\ p \notin v
  BY <1>0 DEF Known
<1>5. /\ \A i \in DOMAIN q : q[i] \in Known(v, q) /\ then[q[i]] = far[q[i]] /\ far[q[i]] \in Nat
      /\ \A p \in v : then[p] = far[p] /\ far[p] \in Nat
      /\ \A i \in DOMAIN s : s[i] \in new /\ then[s[i]] = n + 1
  BY <1>0, <1>4 DEF Known, Waiting
<1>6. \A i \in DOMAIN all : /\ then[all[i]] \in Nat /\ n <= then[all[i]] /\ then[all[i]] <= n + 1
                            /\ i \notin DOMAIN q => then[all[i]] = n + 1
  BY <1>0, <1>1, <1>5 DEF all
<1>7. ASSUME NEW i \in DOMAIN all, NEW j \in DOMAIN all, i < j
      PROVE  then[all[i]] <= then[all[j]] /\ all[i] # all[j]
  <2>1. CASE j \in DOMAIN q
    <3>1. i \in DOMAIN q
      BY <1>0, <1>1, <1>7, <2>1 DEF all
    <3> QED
      BY <1>0, <1>1, <1>5, <1>7, <2>1, <3>1 DEF all, QueueInOrder
  <2>2. CASE j \notin DOMAIN q
    <3>1. then[all[i]] <= then[all[j]]
      BY <1>0, <1>6, <2>2
    <3>2. CASE i \in DOMAIN q
      BY <1>0, <1>1, <1>5, <2>2, <3>1, <3>2 DEF all
    <3>3. CASE i \notin DOMAIN q
      <4>1. /\ i - Len(q) \in DOMAIN s /\ j - Len(q) \in DOMAIN s /\ i - Len(q) < j - Len(q)
            /\ all[i] = s[i - Len(q)] /\ all[j] = s[j - Len(q)]
        BY <1>0, <1>1, <1>7, <2>2, <3>3 DEF all
      <4> QED
        BY <1>0, <3>1, <4>1
    <3> QED
      BY <1>0, <3>2, <3>3
  <2> QED
    BY <1>0, <2>1, <2>2
<1>8. \A i \in DOMAIN all : 1 \in DOMAIN all /\ then[all[i]] <= then[all[1]] + 1
  <2>1. ASSUME NEW i \in DOMAIN all PROVE 1 \in DOMAIN all
    BY <1>0, <1>1 DEF all
  <2> QED
    BY <1>0, <1>6, <2>1
<1>9. \A i \in DOMAIN all : all[i] \notin v
  BY <1>0, <1>1, <1>4, <1>5 DEF all, QueueInOrder
<1>10. \A i \in DOMAIN all : \A p \in v : then[p] <= then[all[i]]
  BY <1>0, <1>5, <1>6
<1>11. QueueInOrder(then, v, all)
  BY <1>0, <1>7, <1>8, <1>9, <1>10 DEF QueueInOrder
<1> QED
  BY <1>3, <1>11 DEF all, new

LEMMA FetchBInv == ASSUME BInv, B!Fetch PROVE BInv'
<1> DEFINE page == Head(queue)
           rest == Tail(queue)
           at == visited \union {page}
<1>1. /\ stage = "crawl" /\ queue # <<>> /\ page \notin visited /\ page \notin robots
      /\ stage' = stage /\ robots' = robots /\ indexed' = indexed /\ visited' = at
  BY DEF B!Fetch, B!Going, B!Fetched
<1>2. PICK outcome \in B!Outcomes, to \in SUBSET (Pages \ {page, Start}) :
         /\ fetched' = Append(fetched, [url |-> page, outcome |-> outcome])
         /\ links' = [p \in DOMAIN links \union {page} |-> IF p = page THEN to ELSE links[p]]
         /\ \E new \in B!SetToSeqs((to \ visited') \ B!ToSet(rest)) : queue' = rest \o new
  BY DEF B!Fetch, B!Fetched
<1> DEFINE found == (to \ at) \ Waiting(rest)
<1>3. PICK new \in B!SetToSeqs(found) : queue' = rest \o new
  BY <1>1, <1>2 DEF B!ToSet, Waiting
<1>4. PICK far \in [Known(visited, queue) -> Nat] :
          /\ Distances(far, visited, queue, links)
          /\ QueueInOrder(far, visited, queue)
          /\ FetchedInOrder(far, links, fetched)
          /\ BuiltInOrder(far, fetched, indexed)
  BY DEF BInv
<1>5. /\ queue \in Seq(B!Spellings) /\ visited \in SUBSET B!Spellings /\ fetched \in Seq(Pageful)
      /\ DOMAIN links \subseteq visited /\ \A p \in DOMAIN links : links[p] \subseteq B!Spellings
      /\ DOMAIN links \intersect robots = {} /\ indexed = <<>>
  BY <1>1 DEF BInv, WebType
<1>6. /\ page \in B!Spellings /\ rest \in Seq(B!Spellings) /\ at \in SUBSET B!Spellings /\ page = queue[1] /\ 1 \in DOMAIN queue
  BY <1>1, <1>5
<1>7. /\ QueueInOrder(far, at, rest) /\ Known(at, rest) = Known(visited, queue)
      /\ \A i \in DOMAIN rest : far[rest[i]] <= far[page] + 1
      /\ \A p \in visited : far[p] <= far[page]
  BY <1>1, <1>4, <1>5, VisitHead
<1>8. IsFiniteSet(found) /\ found \subseteq B!Spellings /\ Start \notin found
  <2>1. found \in SUBSET B!Spellings
    BY <1>2, UrlsAreFinite
  <2> QED
    BY <1>2, <2>1, UrlsAreFinite, FS_Subset
<1> HIDE DEF found, at, rest, page
<1>9. /\ new \in Seq(found) /\ Waiting(new) = found
      /\ \A i, j \in DOMAIN new : i < j => new[i] # new[j]
  BY <1>3, <1>8, SequenceOfSet
<1>10. new \in Seq(B!Spellings)
  BY <1>8, <1>9
<1>11. page \in Known(visited, queue) /\ far[page] \in Nat
  BY <1>4, <1>6 DEF Known, Waiting
<1>12. found \intersect Known(at, rest) = {} /\ page \in at
  BY DEF Known, found, at
<1> DEFINE reach == Known(at, rest)
           then == [p \in reach \union found |-> IF p \in reach THEN far[p] ELSE far[page] + 1]
<1>13. /\ Known(at, rest \o new) = reach \union found
       /\ QueueInOrder(then, at, rest \o new)
  <2>1. \A i \in DOMAIN rest : far[page] <= far[rest[i]] /\ far[rest[i]] <= far[page] + 1
    BY <1>7, <1>12 DEF QueueInOrder
  <2>2. \A p \in at : far[p] <= far[page]
    BY <1>7, <1>11 DEF at
  <2>3. far \in [reach -> Nat]
    BY <1>4, <1>7
  <2>4. (\A p \in reach : then[p] = far[p]) /\ (\A p \in found : then[p] = far[page] + 1)
    BY <1>12
  <2> HIDE DEF then, reach
  <2>5. Grows(at, rest, new, far, far[page], then)
    BY <1>6, <1>7, <1>9, <1>10, <1>11, <1>12, <2>1, <2>2, <2>3, <2>4 DEF Grows, reach
  <2> QED
    BY <1>9, <2>5, QueueGrows DEF reach
<1>14. then \in [reach \union found -> Nat]
  BY <1>4, <1>7, <1>11
<1>15. /\ reach = Known(visited, queue) /\ page \in reach
       /\ \A p \in reach : then[p] = far[p] /\ far[p] \in Nat
       /\ \A p \in found : then[p] = far[page] + 1 /\ p # Start /\ p \in to
       /\ visited \subseteq reach
  BY <1>4, <1>7, <1>8, <1>11, <1>12 DEF Known, found
<1> HIDE DEF reach, then
<1>16. page \notin DOMAIN links /\ DOMAIN links' = DOMAIN links \union {page}
       /\ links'[page] = to /\ \A p \in DOMAIN links : links'[p] = links[p]
  BY <1>1, <1>2, <1>5
<1>17. Distances(then, at, rest \o new, links')
  <2>1. Start \in reach \union found /\ \A p \in reach \union found : then[p] = 0 <=> p = Start
    BY <1>4, <1>11, <1>15 DEF Distances
  <2>2. ASSUME NEW p \in DOMAIN links, NEW t \in links[p]
        PROVE  t \in reach \union found /\ then[t] <= then[p] + 1
    BY <1>4, <1>5, <1>15 DEF Distances
  <2>3. ASSUME NEW t \in to PROVE t \in reach \union found /\ then[t] <= then[page] + 1
    <3>1. CASE t \in at
      <4>1. t \in reach
        BY <3>1 DEF reach, Known
      <4>2. far[t] <= far[page]
        BY <1>7, <1>11, <3>1 DEF at
      <4> QED
        BY <1>11, <1>15, <4>1, <4>2
    <3>2. CASE t \in Waiting(rest)
      <4>1. t \in reach /\ far[t] <= far[page] + 1
        BY <1>7, <3>2 DEF reach, Known, Waiting
      <4> QED
        BY <1>15, <4>1
    <3>3. CASE t \in found
      BY <1>11, <1>15, <3>3
    <3> QED
      BY <3>1, <3>2, <3>3 DEF found
  <2>4. \A p \in DOMAIN links' : \A t \in links'[p] : t \in reach \union found /\ then[t] <= then[p] + 1
    BY <1>16, <2>2, <2>3
  <2>5. ASSUME NEW t \in reach \ {Start}
        PROVE  \E p \in DOMAIN links' : t \in links'[p] /\ then[t] = then[p] + 1
    <3>1. PICK p \in DOMAIN links : t \in links[p] /\ far[t] = far[p] + 1
      BY <1>4, <1>15 DEF Distances
    <3>2. p \in reach
      BY <1>5, <1>15
    <3> QED
      BY <1>15, <1>16, <3>1, <3>2
  <2>6. ASSUME NEW t \in found
        PROVE  \E p \in DOMAIN links' : t \in links'[p] /\ then[t] = then[p] + 1
    BY <1>15, <1>16
  <2>7. \A t \in (reach \union found) \ {Start} : \E p \in DOMAIN links' : t \in links'[p] /\ then[t] = then[p] + 1
    BY <2>5, <2>6
  <2> QED
    BY <1>13, <1>14, <2>1, <2>4, <2>7 DEF Distances
<1>18. FetchedInOrder(then, links', fetched')
  <2> DEFINE one == [url |-> page, outcome |-> outcome]
  <2>1. /\ fetched' = Append(fetched, one) /\ Len(fetched) \in Nat /\ DOMAIN fetched = 1 .. Len(fetched)
        /\ DOMAIN fetched' = 1 .. Len(fetched) + 1 /\ fetched'[Len(fetched) + 1].url = page
        /\ \A i \in DOMAIN fetched : fetched'[i] = fetched[i]
    BY <1>2, <1>5
  <2>2. \A i \in DOMAIN fetched : fetched[i].url \in DOMAIN links /\ fetched[i].url \in visited
    BY <1>4, <1>5 DEF FetchedInOrder
  <2>3. \A i \in DOMAIN fetched : /\ fetched[i].url # page
                                  /\ then[fetched[i].url] = far[fetched[i].url]
                                  /\ then[fetched[i].url] <= then[page]
    BY <1>7, <1>15, <1>16, <2>2
  <2>4. \A i \in DOMAIN fetched' : fetched'[i].url \in DOMAIN links'
    BY <1>16, <2>1, <2>2
  <2>5. \A i, j \in DOMAIN fetched' : i < j => fetched'[i].url # fetched'[j].url
                                               /\ then[fetched'[i].url] <= then[fetched'[j].url]
    BY <1>4, <2>1, <2>3 DEF FetchedInOrder
  <2> QED
    BY <2>4, <2>5 DEF FetchedInOrder
<1>19. BuiltInOrder(then, fetched', indexed')
  BY <1>1, <1>5 DEF BuiltInOrder
<1>20. WebType'
  <2>1. rest \o new \in Seq(B!Spellings)
    BY <1>6, <1>10
  <2>2. [url |-> page, outcome |-> outcome] \in Pageful
    BY <1>6 DEF Pageful
  <2>3. fetched' \in Seq(Pageful)
    BY <1>2, <1>5, <2>2
  <2>4. DOMAIN links' \subseteq visited' /\ \A p \in DOMAIN links' : links'[p] \subseteq B!Spellings
    BY <1>1, <1>2, <1>5, <1>16, UrlsAreFinite DEF at
  <2> QED
    BY <1>1, <1>3, <1>5, <1>6, <2>1, <2>3, <2>4 DEF WebType
<1>21. DOMAIN links' \intersect robots' = {}
  BY <1>1, <1>5, <1>16
<1> QED
  BY <1>1, <1>3, <1>5, <1>13, <1>14, <1>17, <1>18, <1>19, <1>20, <1>21 DEF BInv

LEMMA BuildBInv == ASSUME BInv, B!Build PROVE BInv'
<1>1. /\ stage = "index" /\ UNCHANGED <<stage, robots, queue, visited, fetched, links>>
  BY DEF B!Build
<1>2. PICK k \in DOMAIN fetched :
         /\ fetched[k].outcome = "text" /\ fetched[k].url \notin Waiting(indexed)
         /\ \A j \in 1 .. k - 1 : fetched[j].outcome = "text" => fetched[j].url \in Waiting(indexed)
         /\ indexed' = Append(indexed, fetched[k].url)
  BY DEF B!Build, B!ToSet, Waiting
<1>3. PICK far \in [Known(visited, queue) -> Nat] :
          /\ Distances(far, visited, queue, links)
          /\ QueueInOrder(far, visited, queue)
          /\ FetchedInOrder(far, links, fetched)
          /\ BuiltInOrder(far, fetched, indexed)
  BY DEF BInv
<1>4. WebType
  BY DEF BInv
<1>5. /\ indexed \in Seq(B!Spellings) /\ fetched[k].url \in B!Spellings /\ DOMAIN fetched \subseteq Nat \ {0}
  <2>1. \A r \in Pageful : r.url \in B!Spellings
    BY DEF Pageful
  <2>2. fetched \in Seq(Pageful) /\ indexed \in Seq(B!Spellings)
    BY <1>4 DEF WebType
  <2> QED
    BY <2>1, <2>2
<1> DEFINE url == fetched[k].url
<1>6. /\ Len(indexed) \in Nat /\ DOMAIN indexed = 1 .. Len(indexed)
      /\ DOMAIN indexed' = 1 .. Len(indexed) + 1 /\ indexed'[Len(indexed) + 1] = url
      /\ \A m \in DOMAIN indexed : indexed'[m] = indexed[m]
      /\ indexed' \in Seq(B!Spellings)
  BY <1>2, <1>5
<1>7. Waiting(indexed') = Waiting(indexed) \union {url}
  BY <1>6 DEF Waiting
<1>8. ASSUME NEW m \in DOMAIN indexed
      PROVE  /\ far[indexed[m]] <= far[url]
             /\ \E i \in DOMAIN fetched :
                  /\ fetched[i].url = indexed[m]
                  /\ \A j \in DOMAIN fetched : j < i /\ fetched[j].outcome = "text" =>
                        fetched[j].url \in Waiting(indexed')
  <2>1. PICK i \in DOMAIN fetched :
          /\ fetched[i].url = indexed[m]
          /\ \A j \in DOMAIN fetched : j < i /\ fetched[j].outcome = "text" =>
                fetched[j].url \in Waiting(indexed)
    BY <1>3 DEF BuiltInOrder
  <2>2. ~(k < i)
    BY <1>2, <2>1
  <2>3. i # k
    BY <1>2, <2>1 DEF Waiting
  <2>4. i < k
    BY <1>5, <2>2, <2>3
  <2>5. far[indexed[m]] <= far[url]
    BY <1>3, <2>1, <2>4 DEF FetchedInOrder
  <2> QED
    BY <1>7, <2>1, <2>5
<1>9. \A j \in DOMAIN fetched : j < k /\ fetched[j].outcome = "text" => fetched[j].url \in Waiting(indexed')
  BY <1>2, <1>5, <1>7
<1>10. BuiltInOrder(far, fetched, indexed')
  <2>1. \A m \in DOMAIN indexed' : \E i \in DOMAIN fetched :
          /\ fetched[i].url = indexed'[m]
          /\ \A j \in DOMAIN fetched : j < i /\ fetched[j].outcome = "text" =>
                fetched[j].url \in Waiting(indexed')
    BY <1>6, <1>8, <1>9
  <2>2. \A m, n \in DOMAIN indexed' : m < n => far[indexed'[m]] <= far[indexed'[n]]
    BY <1>3, <1>6, <1>8 DEF BuiltInOrder
  <2> QED
    BY <2>1, <2>2 DEF BuiltInOrder
<1>11. WebType'
  BY <1>1, <1>4, <1>6 DEF WebType
<1> QED
  BY <1>1, <1>3, <1>10, <1>11 DEF BInv

LEMMA WebNext == ASSUME BInv, [B!Next]_B!vars PROVE BInv'
<1>1. CASE UNCHANGED B!vars
  <2>1. UNCHANGED <<stage, robots, queue, visited, fetched, links, indexed>>
    BY <1>1 DEF B!vars
  <2>2. WebType'
    BY <2>1 DEF BInv, WebType
  <2>3. \E far \in [Known(visited', queue') -> Nat] :
          /\ Distances(far, visited', queue', links')
          /\ QueueInOrder(far, visited', queue')
          /\ FetchedInOrder(far, links', fetched')
          /\ BuiltInOrder(far, fetched', indexed')
    BY <2>1 DEF BInv
  <2> QED
    BY <2>1, <2>2, <2>3 DEF BInv
<1> QED
  BY <1>1, RobotsBInv, ForbiddenBInv, FetchBInv, OnePageBInv, BuildBInv DEF B!Next

\* Every distance up to the farthest occurs, and so none exceeds the number of URLs.
LEMMA DistancesAreBounded ==
    ASSUME NEW v, NEW q, NEW ln, NEW far, Known(v, q) \subseteq B!Spellings, DOMAIN ln \subseteq v,
           Distances(far, v, q, ln)
    PROVE  /\ Cardinality(B!Spellings) \in Nat
           /\ \A p \in Known(v, q) : far[p] <= Cardinality(B!Spellings)
<1> DEFINE reach == Known(v, q)
           image == {far[p] : p \in reach}
           Levels == {n \in Nat : \A p \in reach : far[p] = n => 0 .. n \subseteq image}
<1>1. /\ far \in [reach -> Nat] /\ image \subseteq Nat /\ DOMAIN ln \subseteq reach
      /\ \A p \in reach : far[p] = 0 <=> p = Start
      /\ \A t \in reach \ {Start} : \E p \in DOMAIN ln : far[t] = far[p] + 1
  BY DEF Distances, Known
<1>2. 0 \in Levels
  OBVIOUS
<1>3. ASSUME NEW n \in Levels PROVE n + 1 \in Levels
  <2>1. ASSUME NEW t \in reach, far[t] = n + 1, NEW m \in 0 .. n + 1 PROVE m \in image
    <3>1. PICK p \in DOMAIN ln : far[t] = far[p] + 1
      BY <1>1, <2>1
    <3>2. p \in reach /\ far[p] = n
      BY <1>1, <2>1, <3>1
    <3>3. 0 .. n \subseteq image
      BY <3>2
    <3>4. CASE m = n + 1
      BY <2>1, <3>4
    <3>5. CASE m \in 0 .. n
      BY <3>3, <3>5
    <3> QED
      BY <3>4, <3>5
  <2> QED
    BY <2>1
<1>4. Nat \subseteq Levels
  <2> HIDE DEF Levels
  <2> QED
    BY <1>2, <1>3, CountingInduction
<1>5. ASSUME NEW p \in reach PROVE 0 .. far[p] \subseteq image
  BY <1>1, <1>4
<1>6. IsFiniteSet(reach) /\ Cardinality(reach) <= Cardinality(B!Spellings)
      /\ Cardinality(B!Spellings) \in Nat /\ Cardinality(reach) \in Nat
  BY UrlsAreFinite, FS_Subset, FS_CardinalityType
<1> DEFINE onto == [p \in reach |-> far[p]]
<1>7. onto \in Surjection(reach, image)
  BY DEF Surjection
<1>8. IsFiniteSet(image) /\ Cardinality(image) <= Cardinality(reach) /\ Cardinality(image) \in Nat
  <2> HIDE DEF image, reach, onto
  <2> QED
    BY <1>6, <1>7, FS_Surjection, FS_CardinalityType
<1>9. ASSUME NEW p \in reach PROVE far[p] <= Cardinality(B!Spellings)
  <2>1. far[p] \in Nat /\ 0 .. far[p] \in SUBSET image
    BY <1>1, <1>5
  <2> HIDE DEF image, reach
  <2>2. Cardinality(0 .. far[p]) = far[p] + 1
    BY <2>1, FS_Interval
  <2>3. Cardinality(0 .. far[p]) <= Cardinality(image)
    BY <1>8, <2>1, FS_Subset
  <2> QED
    BY <1>6, <1>8, <2>1, <2>2, <2>3
<1> QED
  BY <1>6, <1>9

\* N gives the pages within each number of links, by the links ln.
ByLinks(N, ln) ==
    N = [n \in Nat |->
            IF n = 0 THEN {Start} ELSE N[n - 1] \union UNION {ln[p] : p \in N[n - 1] \intersect DOMAIN ln}]

LEMMA NearIsByLinks ==
    ASSUME NEW v, NEW q, NEW ln, NEW far, DOMAIN ln \subseteq v, Distances(far, v, q, ln)
    PROVE  ByLinks([n \in Nat |-> {p \in Known(v, q) : far[p] <= n}], ln)
<1> DEFINE reach == Known(v, q)
           Near(n) == {p \in reach : far[p] <= n}
<1>1. /\ far \in [reach -> Nat] /\ Start \in reach /\ DOMAIN ln \subseteq reach
      /\ \A p \in reach : far[p] = 0 <=> p = Start
      /\ \A p \in DOMAIN ln : \A t \in ln[p] : t \in reach /\ far[t] <= far[p] + 1
      /\ \A t \in reach \ {Start} : \E p \in DOMAIN ln : t \in ln[p] /\ far[t] = far[p] + 1
  BY DEF Distances, Known
<1> HIDE DEF reach
<1>2. Near(0) = {Start}
  BY <1>1
<1>3. ASSUME NEW n \in Nat, n # 0
      PROVE  Near(n) = Near(n - 1) \union UNION {ln[p] : p \in Near(n - 1) \intersect DOMAIN ln}
  <2>1. ASSUME NEW t \in Near(n)
        PROVE  t \in Near(n - 1) \union UNION {ln[p] : p \in Near(n - 1) \intersect DOMAIN ln}
    <3>1. t \in reach /\ far[t] \in Nat /\ far[t] <= n
      BY <1>1
    <3>2. CASE far[t] <= n - 1
      BY <3>1, <3>2
    <3>3. CASE far[t] = n
      <4>1. t # Start
        BY <1>1, <1>3, <3>1, <3>3
      <4>2. PICK p \in DOMAIN ln : t \in ln[p] /\ far[t] = far[p] + 1
        BY <1>1, <3>1, <4>1
      <4>3. p \in Near(n - 1)
        BY <1>1, <3>3, <4>2
      <4> QED
        BY <4>2, <4>3
    <3> QED
      BY <3>1, <3>2, <3>3
  <2>2. ASSUME NEW t \in Near(n - 1) PROVE t \in Near(n)
    BY <1>1
  <2>3. ASSUME NEW p \in Near(n - 1) \intersect DOMAIN ln, NEW t \in ln[p] PROVE t \in Near(n)
    BY <1>1
  <2> QED
    BY <2>1, <2>2, <2>3
<1> DEFINE near == [n \in Nat |-> {p \in reach : far[p] <= n}]
<1>4. \A n \in Nat : near[n] = Near(n)
  OBVIOUS
<1> HIDE DEF Near
<1>5. \A n \in Nat : n # 0 => n - 1 \in Nat
  OBVIOUS
<1>6. \A n \in Nat : near[n] = IF n = 0 THEN {Start}
                               ELSE near[n - 1] \union UNION {ln[p] : p \in near[n - 1] \intersect DOMAIN ln}
  BY <1>2, <1>3, <1>4, <1>5
<1>7. near = [n \in Nat |-> near[n]]
  OBVIOUS
<1> HIDE DEF near
<1>8. ByLinks(near, ln)
  BY <1>6, <1>7 DEF ByLinks
<1> QED
  BY <1>8 DEF near, reach

LEMMA OneByLinks ==
    ASSUME NEW N, NEW near, NEW ln, ByLinks(N, ln), ByLinks(near, ln)
    PROVE  \A n \in Nat : N[n] = near[n]
<1> DEFINE Levels == {n \in Nat : N[n] = near[n]}
<1>1. /\ \A n \in Nat : N[n] = IF n = 0 THEN {Start}
                               ELSE N[n - 1] \union UNION {ln[p] : p \in N[n - 1] \intersect DOMAIN ln}
      /\ \A n \in Nat : near[n] = IF n = 0 THEN {Start}
                                  ELSE near[n - 1] \union UNION {ln[p] : p \in near[n - 1] \intersect DOMAIN ln}
  BY DEF ByLinks
<1>2. 0 \in Levels
  BY <1>1
<1>3. ASSUME NEW n \in Levels PROVE n + 1 \in Levels
  <2>1. n + 1 \in Nat /\ n + 1 # 0 /\ (n + 1) - 1 = n
    OBVIOUS
  <2>2. N[n + 1] = N[n] \union UNION {ln[p] : p \in N[n] \intersect DOMAIN ln}
    BY <1>1, <2>1
  <2>3. near[n + 1] = near[n] \union UNION {ln[p] : p \in near[n] \intersect DOMAIN ln}
    BY <1>1, <2>1
  <2> QED
    BY <2>2, <2>3
<1>4. Nat \subseteq Levels
  <2> HIDE DEF Levels
  <2> QED
    BY <1>2, <1>3, CountingInduction
<1> QED
  BY <1>4

\* The depth of a page is its distance.
LEMMA DepthIsDistance ==
    ASSUME BInv, NEW far, Distances(far, visited, queue, links)
    PROVE  /\ \A n \in Nat : B!Within[n] = {p \in Known(visited, queue) : far[p] <= n}
           /\ \A p \in Known(visited, queue) : B!Depth(p) = far[p] /\ far[p] \in Nat
           /\ B!Within[B!Cardinality(B!Spellings)] = Known(visited, queue)
<1> DEFINE reach == Known(visited, queue)
           near == [n \in Nat |-> {p \in reach : far[p] <= n}]
           size == Cardinality(B!Spellings)
<1>1. ByLinks(near, links) /\ DOMAIN links \subseteq visited
  BY NearIsByLinks DEF BInv, WebType
<1>2. reach \subseteq B!Spellings
  BY DEF BInv, WebType, Known, Waiting
<1>3. size \in Nat /\ \A p \in reach : far[p] <= size /\ far[p] \in Nat
  BY <1>1, <1>2, DistancesAreBounded DEF Distances
<1>4. ByLinks(B!Within, links)
  BY <1>1 DEF B!Within, ByLinks
<1>5. \A n \in Nat : B!Within[n] = near[n]
  BY <1>1, <1>4, OneByLinks
<1>6. \A n \in Nat : B!Within[n] = {p \in reach : far[p] <= n}
  BY <1>5
<1> HIDE DEF near, reach, size
<1>7. B!Within[size] = reach
  BY <1>3, <1>6
<1>8. ASSUME NEW p \in reach PROVE B!Depth(p) = far[p]
  <2> DEFINE Ns == {n \in 0 .. size : p \in B!Within[n]}
  <2>1. far[p] \in Ns /\ \A n \in Ns : n \in Nat /\ far[p] <= n
    BY <1>3, <1>6
  <2>2. B!Depth(p) = B!Min(Ns)
    BY PageCount DEF B!Depth, size
  <2> HIDE DEF Ns
  <2> QED
    BY <1>3, <2>1, <2>2 DEF B!Min
<1> QED
  BY <1>3, <1>6, <1>7, <1>8, PageCount DEF reach, size

LEMMA ServicesAreWeb == ServicesSpec => B!Spec
<1>1. ServicesInit => B!Init
  BY DEF ServicesInit
<1>2. [ServicesNext]_allVars => [B!Next]_B!vars
  <2>1. CASE UNCHANGED allVars
    BY <2>1 DEF allVars, webVars, B!vars
  <2>2. CASE ServicesNext
    BY <2>2 DEF ServicesNext, OnlyOf, webVars, B!vars
  <2> QED
    BY <2>1, <2>2
<1> QED
  BY <1>1, <1>2, PTL DEF ServicesSpec, B!Spec

(* Any site is crawled nearest first, each URL once and none that          *)
(* robots.txt forbids, a page twice only when the crawl began with another *)
(* spelling of it; a crawl that ends before max_pages has visited all  *)
(* there is a way to; and pages are indexed in that order                  *)
(* (web_indexing/web_crawler.py: crawl, api/routes/web_indexing.py).       *)
THEOREM AnySiteIsCrawledNearestFirst == ServicesSpec => []CrawlsNearestFirst
<1>1. BInv => CrawlsNearestFirst
  <2> SUFFICES ASSUME BInv PROVE B!CrawlsNearestFirst
    BY DEF CrawlsNearestFirst
  <2>1. PICK far \in [Known(visited, queue) -> Nat] :
          /\ Distances(far, visited, queue, links)
          /\ QueueInOrder(far, visited, queue)
          /\ FetchedInOrder(far, links, fetched)
          /\ BuiltInOrder(far, fetched, indexed)
    BY DEF BInv
  <2>2. \A p \in Known(visited, queue) : B!Depth(p) = far[p]
    BY <2>1, DepthIsDistance
  <2>3. \A i \in DOMAIN fetched : fetched[i].url \in Known(visited, queue)
    BY <2>1 DEF FetchedInOrder, BInv, WebType, Known
  <2>4. \A i, j \in DOMAIN fetched : i < j =>
          /\ fetched[i].url # fetched[j].url
          /\ B!Depth(fetched[i].url) <= B!Depth(fetched[j].url)
    BY <2>1, <2>2, <2>3 DEF FetchedInOrder
  <2>10. ASSUME NEW i \in DOMAIN fetched, NEW j \in DOMAIN fetched, i < j,
                B!Page(fetched[i].url) = B!Page(fetched[j].url)
         PROVE  i = 1 /\ fetched[i].url = Start
    <3>1. \A k \in DOMAIN fetched : /\ far[fetched[k].url] \in Nat
                                    /\ far[fetched[k].url] = 0 <=> fetched[k].url = Start
      BY <2>1, <2>3 DEF Distances
    <3>2. fetched[i].url = Start \/ fetched[j].url = Start
      BY <2>4, <2>10 DEF B!Page
    <3>3. fetched[i].url = Start
      BY <2>1, <2>10, <3>1, <3>2 DEF FetchedInOrder
    <3>4. i \in Nat \ {0} /\ (i > 1 => 1 \in DOMAIN fetched /\ 1 < i)
      BY DEF BInv, WebType
    <3>5. i > 1 => far[fetched[1].url] <= far[fetched[i].url] /\ fetched[1].url # fetched[i].url
      BY <2>1, <3>4 DEF FetchedInOrder
    <3>6. i > 1 => FALSE
      BY <3>1, <3>3, <3>4, <3>5
    <3> QED
      BY <3>3, <3>4, <3>6
  <2>5. DOMAIN links \intersect robots = {}
    BY DEF BInv
  <2>6. ASSUME stage \in {"index", "done"}, B!Cardinality(visited) < MaxPages
        PROVE  visited = B!Within[B!Cardinality(B!Spellings)]
    <3>1. queue = <<>>
      BY <2>6, PageCount DEF BInv
    <3>2. Known(visited, queue) = visited
      BY <3>1 DEF Known, Waiting
    <3> QED
      BY <2>1, <3>2, DepthIsDistance
  <2>7. \A p \in visited, q \in B!ToSet(queue) : B!Depth(p) <= B!Depth(q)
    BY <2>1, <2>2 DEF QueueInOrder, Known, Waiting, B!ToSet
  <2>8. \A m \in DOMAIN indexed : indexed[m] \in Known(visited, queue)
    BY <2>1, <2>3 DEF BuiltInOrder
  <2>9. \A i, j \in DOMAIN indexed : i < j => B!Depth(indexed[i]) <= B!Depth(indexed[j])
    BY <2>1, <2>2, <2>8 DEF BuiltInOrder
  <2> QED
    BY <2>4, <2>5, <2>6, <2>7, <2>9, <2>10 DEF B!CrawlsNearestFirst
<1>2. BInv /\ [B!Next]_B!vars => BInv'
  BY WebNext
<1> QED
  BY <1>1, <1>2, WebInit, ServicesAreWeb, PTL DEF B!Spec
===============================================================================
