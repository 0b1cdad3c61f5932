------------------------------ MODULE Webhooks ------------------------------
(***************************************************************************)
(* Webhook subscriptions (app/integrations/webhook.py and its routes): the *)
(* hub's memory is changed at once and written through to the table        *)
(* webhook_subscriptions afterwards, a failure of which is only logged.    *)
(* The memory starts empty.  One workspace and one event.                  *)
(***************************************************************************)
CONSTANTS
    Urls,       \* callback URLs
    Calls,      \* requests under way at the same time
    NoUrl       \* no subscription

VARIABLES
    hub,        \* IntegrationHub._webhooks of the workspace and event
    stored,     \* the committed row
    request,    \* request -> what it has still to write, and has it run alone?
    last,       \* history: what the last request to be answered asked for
    doubt       \* history: since the last request that ran alone was answered, one
                \* has overlapped another one, has failed to write or was lost

vars == <<hub, stored, request, last, doubt>>

Url == Urls \union {NoUrl}
Idle == [step |-> "idle", url |-> NoUrl, alone |-> TRUE]

TypeOK ==
    /\ hub \in Url /\ stored \in Url /\ last \in Url
    /\ request \in [Calls -> [step : {"idle", "persist"}, url : Url, alone : BOOLEAN]]
    /\ doubt \in BOOLEAN

Init == /\ hub = NoUrl /\ stored = NoUrl /\ last = NoUrl
        /\ request = [c \in Calls |-> Idle]
        /\ doubt = FALSE

Quiet == \A c \in Calls : request[c] = Idle

\* The memory is written and the row is to follow: url, or none.
Begin(c, url) ==
    /\ request[c] = Idle
    /\ hub' = url
    /\ request' = [d \in Calls |->
                     IF d = c THEN [step |-> "persist", url |-> url, alone |-> Quiet]
                     ELSE IF request[d] = Idle THEN Idle ELSE [request[d] EXCEPT !.alone = FALSE]]
    /\ UNCHANGED <<stored, last, doubt>>

\* register_webhook.
Register(c, url) == url \in Urls /\ Begin(c, url)

\* Mutant: the subscription is deleted from the memory alone.
UnregisterFromMemory(c) ==
    /\ request[c] = Idle /\ hub # NoUrl
    /\ hub' = NoUrl /\ last' = NoUrl
    /\ doubt' = ~Quiet
    /\ UNCHANGED <<stored, request>>

\* unregister_webhook: only of a subscription in the memory; any other is
\* answered with 404, which changes nothing.
Unregister(c) == hub # NoUrl /\ Begin(c, NoUrl)

\* _persist_upsert.
Upsert(url) == url # NoUrl /\ stored' = url

\* _persist_delete.
Remove(url) == url = NoUrl /\ stored' = NoUrl

\* The row is written and committed, and the request answered.
Persist(c) ==
    /\ request[c].step = "persist"
    /\ Upsert(request[c].url) \/ Remove(request[c].url)
    /\ request' = [request EXCEPT ![c] = Idle]
    /\ last' = request[c].url
    /\ doubt' = ~request[c].alone
    /\ UNCHANGED hub

\* The database fails: a warning, and the same answer.
PersistFails(c) ==
    /\ request[c].step = "persist"
    /\ request' = [request EXCEPT ![c] = Idle]
    /\ last' = request[c].url
    /\ doubt' = TRUE
    /\ UNCHANGED <<hub, stored>>

\* The process restarts: the memory is lost, and so are the requests under way.
Restart ==
    /\ hub' = NoUrl
    /\ request' = [c \in Calls |-> Idle]
    /\ doubt' = (doubt \/ ~Quiet)
    /\ UNCHANGED <<stored, last>>

-------------------------------------------------------------------------------
\* notify: the URLs of the memory and of the table, each once.
Notified == {hub, stored} \ {NoUrl}

\* list_webhooks, and get_webhook_url: the memory before the table.
Shown == IF hub # NoUrl THEN hub ELSE stored

PostWebhook(c) == \E url \in Urls : Register(c, url)
DeleteWebhook(c) == Unregister(c)

Next == \/ \E c \in Calls : PostWebhook(c) \/ DeleteWebhook(c) \/ Persist(c) \/ PersistFails(c)
        \/ Restart

Spec == Init /\ [][Next]_vars

-------------------------------------------------------------------------------
(* Once a request that ran alone has been answered and its row written,    *)
(* the end of a task is sent to exactly the URL it left, shown by the      *)
(* list, whatever restarts follow: no URL replaced or removed earlier is   *)
(* ever called (webhook.py:147, 171, 250).                                 *)
LastWordCounts ==
    Quiet /\ ~doubt => Notified = {last} \ {NoUrl} /\ Shown = last
=============================================================================
