--------------------------- MODULE SemanticCache ---------------------------
(***************************************************************************)
(* The semantic cache of the gateway (app/llm_gateway/cache.py and its use *)
(* in complete() and stream_complete()): a bounded memory of exact         *)
(* prompts, and a table whose prompts are compared by the cosine of their  *)
(* embeddings.  One workspace and one task type: the keys and the          *)
(* candidates are scoped by both.  Embeddings are abstracted to the        *)
(* relation Similar; the embeddings kept between lookup and store only     *)
(* save a call and are left out.  A prompt with images is only looked up   *)
(* in the memory, and its answer is only stored there.                     *)
(*                                                                         *)
(* Time is counted in units much longer than a request.                    *)
(***************************************************************************)
EXTENDS Integers, FiniteSets

CONSTANTS
    Prompts,
    Pictures,   \* the prompts with images: text and fingerprint of the images
    Models,
    Similar,    \* pairs of prompts whose cosine reaches the threshold
    TTL,        \* SEMANTIC_CACHE_TTL_SECONDS
    MaxSize,    \* of the memory
    Callers,
    MaxTime,    \* bound of the clock
    MaxCalls    \* bound of the calls answered by a model

\* What the constants have to satisfy; Services assumes it.
CacheAssumption ==
    /\ Pictures \subseteq Prompts
    /\ Similar \subseteq Prompts \X Prompts
    /\ \A p \in Prompts : <<p, p>> \in Similar
    /\ TTL \in Nat \ {0} /\ MaxSize \in Nat \ {0} /\ MaxTime \in Nat /\ MaxCalls \in Nat

\* make_key: the scope, the model and the prompt.
Keys == [prompt : Prompts, model : Models]
\* An answer, by the prompt and the model it was made with and the time it was made.
Answers == [prompt : Prompts, model : Models, born : 0 .. MaxTime]

VARIABLES
    memory,     \* key -> [answer, at]
    rows,       \* semantic_cache_entries: key -> [answer, expires]
    asked,      \* caller -> its progress
    now,
    calls,      \* calls answered so far
    served      \* the answers served from the cache in the last step: at most one

vars == <<memory, rows, asked, now, calls, served>>

NoAnswer == [prompt |-> CHOOSE p \in Prompts : TRUE, model |-> CHOOSE m \in Models : TRUE, born |-> 0]
Progress == [step : {"idle", "call", "persist"}, key : Keys, answer : Answers]
Served == [key : Keys, answer : Answers]

TypeOK ==
    /\ DOMAIN memory \subseteq Keys
    /\ \A k \in DOMAIN memory : memory[k] \in [answer : Answers, at : 0 .. MaxTime]
    /\ DOMAIN rows \subseteq Keys
    /\ \A k \in DOMAIN rows : rows[k] \in [answer : Answers, expires : Nat]
    /\ asked \in [Callers -> Progress]
    /\ now \in 0 .. MaxTime /\ calls \in 0 .. MaxCalls
    /\ served \subseteq Served

Empty == [k \in {} |-> 0]
Rest == [step |-> "idle", key |-> [prompt |-> NoAnswer.prompt, model |-> NoAnswer.model],
         answer |-> NoAnswer]

Init == /\ memory = Empty /\ rows = Empty
        /\ asked = [c \in Callers |-> Rest]
        /\ now = 0 /\ calls = 0 /\ served = {}

Without(f, S) == [k \in DOMAIN f \ S |-> f[k]]
With(f, k, v) == [j \in DOMAIN f \union {k} |-> IF j = k THEN v ELSE f[j]]

\* Mutant: entries of the memory do not age.
GetForever(m, key) == IF key \in DOMAIN m THEN {m[key].answer} ELSE {}

\* get: the answer of an entry not older than the TTL.
Fetch(m, key) ==
    IF key \in DOMAIN m /\ now - m[key].at <= TTL THEN {m[key].answer} ELSE {}

\* get deletes an entry it finds expired.
Dropped(m, key) == IF Fetch(m, key) = {} THEN Without(m, {key}) ELSE m

\* set: at its limit the memory loses its oldest entry, even when key has one.
Sets(m, key, answer) ==
    LET oldest == {k \in DOMAIN m : \A j \in DOMAIN m : m[k].at <= m[j].at}
        entry == [answer |-> answer, at |-> now]
    IN  IF Cardinality(DOMAIN m) >= MaxSize
        THEN {With(Without(m, {k}), key, entry) : k \in oldest}
        ELSE {With(m, key, entry)}

\* candidates: the rows of the model that have not expired.
Candidates(key) == {k \in DOMAIN rows : k.model = key.model /\ rows[k].expires > now}

\* The best of them, when its cosine reaches the threshold; any similar one
\* may be the best.
Best(key) == {k \in Candidates(key) : <<key.prompt, k.prompt>> \in Similar}

-------------------------------------------------------------------------------
Serve(c, key, answer) ==
    /\ asked' = [asked EXCEPT ![c] = Rest]
    /\ served' = {[key |-> key, answer |-> answer]}

Miss(c, key) ==
    /\ asked' = [asked EXCEPT ![c] = [Rest EXCEPT !.step = "call", !.key = key]]
    /\ served' = {}

\* The exact entry is the answer.
Exact(c, key) ==
    /\ \E a \in Fetch(memory, key) : Serve(c, key, a)
    /\ UNCHANGED <<memory, rows>>

\* Mutant: an answer found for a similar prompt is written to the table too.
SemanticWritten(c, key) ==
    /\ key.prompt \notin Pictures
    /\ \E k \in Best(key) :
         /\ Fetch(memory, key) = {}
         /\ memory' \in Sets(Dropped(memory, key), key, rows[k].answer)
         /\ rows' = With(rows, key, rows[k])
         /\ Serve(c, key, rows[k].answer)

\* lookup: the answer of the best candidate, kept in the memory under the
\* prompt asked, for another TTL.  Not for prompts with images.
Semantic(c, key) ==
    /\ key.prompt \notin Pictures
    /\ \E k \in Best(key) :
         /\ Fetch(memory, key) = {}
         /\ memory' \in Sets(Dropped(memory, key), key, rows[k].answer)
         /\ Serve(c, key, rows[k].answer)
         /\ UNCHANGED rows

\* Nothing similar, or the embedding or the table is not available.
Missed(c, key) ==
    /\ Fetch(memory, key) = {}
    /\ memory' = Dropped(memory, key)
    /\ Miss(c, key)
    /\ UNCHANGED rows

\* complete() and stream_complete() ask the cache for the model of the rule, or
\* of the budget downgrade.
Ask(c, key) ==
    /\ asked[c].step = "idle"
    /\ Exact(c, key) \/ Semantic(c, key) \/ Missed(c, key)
    /\ UNCHANGED <<now, calls>>

\* The call has an answer, of the model asked for or of a failover model.
Answered(c, model) ==
    [prompt |-> asked[c].key.prompt, model |-> model, born |-> now]

\* store() puts it in the memory under the model that answered.
Store(c, model) ==
    LET key == [asked[c].key EXCEPT !.model = model]
    IN  /\ asked[c].step = "call" /\ calls < MaxCalls
        /\ asked[c].key.prompt \notin Pictures
        /\ calls' = calls + 1
        /\ memory' \in Sets(memory, key, Answered(c, model))
        /\ asked' = [asked EXCEPT ![c] = [step |-> "persist", key |-> key,
                                         answer |-> Answered(c, model)]]
        /\ served' = {}
        /\ UNCHANGED <<rows, now>>

\* The answer to a prompt with images is set in the memory only: complete() sets it
\* under the model it had asked for, whoever answered, and stream_complete() under the
\* model that answered.
StorePicture(c, model) ==
    /\ asked[c].step = "call" /\ calls < MaxCalls
    /\ asked[c].key.prompt \in Pictures
    /\ calls' = calls + 1
    /\ \E under \in {asked[c].key.model, model} :
         memory' \in Sets(memory, [asked[c].key EXCEPT !.model = under], Answered(c, model))
    /\ asked' = [asked EXCEPT ![c] = Rest]
    /\ served' = {}
    /\ UNCHANGED <<rows, now>>

\* Every target failed: nothing is cached.
Unanswered(c) ==
    /\ asked[c].step = "call"
    /\ asked' = [asked EXCEPT ![c] = Rest]
    /\ served' = {}
    /\ UNCHANGED <<memory, rows, now, calls>>

\* upsert: a row of the same scope and prompt is replaced; a failure is logged.
Persist(c) ==
    /\ asked[c].step = "persist"
    /\ \/ rows' = With(rows, asked[c].key, [answer |-> asked[c].answer, expires |-> now + TTL])
       \/ UNCHANGED rows
    /\ asked' = [asked EXCEPT ![c] = Rest]
    /\ served' = {}
    /\ UNCHANGED <<memory, now, calls>>

Tick ==
    /\ now < MaxTime
    /\ \A c \in Callers : asked[c].step # "persist"
    /\ now' = now + 1
    /\ served' = {}
    /\ UNCHANGED <<memory, rows, asked, calls>>

Restart ==
    /\ memory' = Empty
    /\ asked' = [c \in Callers |-> Rest]
    /\ served' = {}
    /\ UNCHANGED <<rows, now, calls>>

Next == \/ \E c \in Callers :
            \/ \E key \in Keys : Ask(c, key)
            \/ \E m \in Models : Store(c, m) \/ StorePicture(c, m)
            \/ Unanswered(c) \/ Persist(c)
        \/ Tick \/ Restart

Spec == Init /\ [][Next]_vars

-------------------------------------------------------------------------------
(* However answers are found, kept again and evicted, one that is served   *)
(* was made for a prompt similar to the one asked, since similar prompts   *)
(* do not add up, and by the model asked for (cache.py:303).  With images  *)
(* it was made for this very prompt, but another model may have made it in *)
(* the place of the one asked for (llm_gateway/__init__.py:545).           *)
NoDrift ==
    \A s \in served :
        /\ <<s.key.prompt, s.answer.prompt>> \in Similar
        /\ IF s.key.prompt \in Pictures THEN s.answer.prompt = s.key.prompt
           ELSE s.answer.model = s.key.model

(* An answer kept again for a similar prompt starts a new TTL, and only    *)
(* one: none is served that is two TTLs old (cache.py:303).                *)
StaleAtMostTwice == \A s \in served : now - s.answer.born < 2 * TTL
=============================================================================
