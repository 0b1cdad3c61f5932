------------------------------ MODULE Interact ------------------------------
(***************************************************************************)
(* The unified entry POST /api/v1/interact (app/api/routes/interact.py):   *)
(* what a request leads to in the synchronous mode, as functions of the    *)
(* request and of how the services it calls answer, and the event stream   *)
(* of the streaming mode, step by step.                                    *)
(***************************************************************************)
EXTENDS Integers, FiniteSets, SequencesExt

CONSTANT MaxChunks    \* bound of the chunks of an answer

Intents == {"chat", "knowledge_qa", "clarification", "complex_generation", "document_analysis"}

\* url, doc: is there a url, a doc_id; label: what the classifier makes of the message.
Requests == [label : Intents, url : BOOLEAN, doc : BOOLEAN, generate : BOOLEAN]

\* How the services answer during this request.
Worlds == [page : {"text", "empty", "refused"},             \* validate_url and WebLoader.fetch
           workspace : BOOLEAN, database : BOOLEAN,
           upload : {"stored", "refused", "raises"},
           file : {"text", "unreadable", "raises"},         \* get_document_content, extract_text
           task : BOOLEAN, graph : BOOLEAN, llm : BOOLEAN]

VARIABLES
    request, world,
    step,       \* of the generator of the stream
    sent,       \* its events
    created     \* the text a task was created for: "none", "message", "page"

vars == <<request, world, step, sent, created>>

-------------------------------------------------------------------------------
(* app/orchestrator/intent_classifier.py.                                  *)

\* Which groups of patterns a message matches, and whether it is short; its
\* capitals are lowered first, so that "TSD" and "PRD" match nothing.
Messages == [generation : BOOLEAN, document : BOOLEAN, knowledge : 0 .. 2,
             chat : BOOLEAN, short : BOOLEAN]

Result(intent, confidence) == [intent |-> intent, confidence |-> confidence]

\* _rule_based: the groups in their order, with a confidence in percent.
RuleBased(m) ==
    CASE m.generation -> Result("complex_generation", 85)
      [] ~m.generation /\ m.document -> Result("document_analysis", 85)
      [] ~m.generation /\ ~m.document /\ m.knowledge > 0 ->
            Result("knowledge_qa", IF m.knowledge = 1 THEN 70 ELSE 90)
      [] ~m.generation /\ ~m.document /\ m.knowledge = 0 /\ m.chat -> Result("chat", 80)
      [] OTHER -> IF m.short THEN Result("knowledge_qa", 60) ELSE Result("complex_generation", 50)

\* _llm_classify: below, between and above the confidences of the rules; a
\* failure is the first one.
LlmResults == {Result("complex_generation", 50)} \union [intent : Intents, confidence : {50, 65, 75}]

\* classify: the model is asked when the rules are not sure, and heard when it
\* is surer.
Classify(m, llm) ==
    LET rule == RuleBased(m)
    IN  IF rule.confidence < 80 /\ llm.confidence > rule.confidence THEN llm.intent ELSE rule.intent

Labels == {Classify(m, llm) : m \in Messages, llm \in LlmResults}

-------------------------------------------------------------------------------
(* The services both modes call.                                           *)

\* _classify_intent: a url or doc_id decides.
Intent(r) == IF r.url \/ r.doc THEN "document_analysis" ELSE r.label

\* _fetch_url_for_analysis: the text, "" or a ValueError.
Page(w) == w.page

\* _ingest_url_document: fetch, upload in a session that is closed without a
\* commit, and the text.  An empty page is refused by ingest.
Ingested(w) ==
    IF ~w.database \/ w.page # "text" \/ ~w.workspace \/ w.upload = "refused" THEN "refused"
    ELSE IF w.upload = "raises" THEN "raises" ELSE "text"

\* _load_document_text: the text of a document, or a reason why there is none.
Loaded(w) == IF ~w.database THEN "unreadable" ELSE w.file

\* _create_generation_task_from_url.
FromUrl(w) ==
    IF Page(w) # "text" THEN "refused" ELSE IF w.task THEN "task" ELSE "raises"

-------------------------------------------------------------------------------
(* The synchronous mode: "answer", "task", "message" (the reason of a      *)
(* refusal) or "raises" (a 500).                                           *)

\* _analyze_document.
Analyze(w) == IF w.llm THEN "answer" ELSE "raises"

\* Mutant: with a doc_id alone, generate is not looked at.
DocumentAnalysisGenerous(r, w) ==
    CASE ~r.url /\ ~r.doc -> "message"
      [] r.url /\ r.generate -> IF FromUrl(w) = "refused" THEN "message" ELSE FromUrl(w)
      [] r.url /\ ~r.generate ->
            IF Ingested(w) = "text" THEN Analyze(w)
            ELSE IF Ingested(w) = "refused" THEN "message" ELSE "raises"
      [] OTHER -> IF Loaded(w) = "text" THEN Analyze(w)
                  ELSE IF Loaded(w) = "unreadable" THEN "message" ELSE "raises"

\* _document_analysis_sync.
DocumentAnalysis(r, w) ==
    CASE ~r.url /\ ~r.doc -> "message"
      [] r.generate /\ ~r.url /\ r.doc -> "message"
      [] r.generate /\ r.url -> IF FromUrl(w) = "refused" THEN "message" ELSE FromUrl(w)
      [] r.url /\ ~r.generate ->
            IF Ingested(w) = "text" THEN Analyze(w)
            ELSE IF Ingested(w) = "refused" THEN "message" ELSE "raises"
      [] OTHER -> IF Loaded(w) = "text" THEN Analyze(w)
                  ELSE IF Loaded(w) = "unreadable" THEN "message" ELSE "raises"

\* _graph_sync: without the graph, the gateway answers.
Graph(w) == IF w.graph \/ w.llm THEN "answer" ELSE "raises"

\* _create_generation_task.
Generation(w) == IF w.task THEN "task" ELSE "raises"

\* _route_sync.
Sync(r, w) ==
    CASE Intent(r) = "document_analysis" -> DocumentAnalysis(r, w)
      [] Intent(r) = "complex_generation" -> Generation(w)
      [] OTHER -> Graph(w)

-------------------------------------------------------------------------------
(* The streaming mode.                                                     *)

Ends == {"done", "error", "task_end"}
Events == Ends \union {"created", "retrieving", "retrieved", "generating", "loading",
                       "analyzing", "chunk", "complete", "task_event"}
Steps == {"idle", "route", "retrieve", "answer", "chunks", "create", "generate", "watch", "load", "analyze",
          "finished", "gone"}

TypeOK ==
    /\ request \in Requests /\ world \in Worlds
    /\ step \in Steps /\ sent \in Seq(Events)
    /\ created \in {"none", "message", "page"}

Init == /\ request = CHOOSE r \in Requests : TRUE
        /\ world = CHOOSE w \in Worlds : TRUE
        /\ step = "idle" /\ sent = <<>>
        /\ created = "none"

\* interact, with stream: a request arrives.
Receive ==
    /\ step = "idle" /\ step' = "route"
    /\ request' \in {r \in Requests : r.label \in Labels} /\ world' \in Worlds
    /\ UNCHANGED <<sent, created>>

Goes(from, events, to) ==
    /\ step = from
    /\ sent' = sent \o events
    /\ step' = to
    /\ UNCHANGED <<request, world>>

Kept == UNCHANGED created

\* The except clauses of every generator: an error event is its last one.
Fails(from) == Goes(from, <<"error">>, "finished")

\* _single_message_stream.
SingleMessage == Goes("route", <<"complete", "done">>, "finished")

\* _route_stream.
Route ==
    /\ LET intent == Intent(request) IN
       \/ /\ intent = "document_analysis" /\ ~request.url /\ ~request.doc
          /\ SingleMessage
       \/ /\ intent = "document_analysis" /\ (request.url \/ request.doc)
          /\ \/ request.generate /\ Goes("route", <<>>, "generate")
             \/ ~request.generate /\ Goes("route", <<"loading">>, "load")
       \/ intent = "complex_generation" /\ Goes("route", <<>>, "create")
       \/ intent = "knowledge_qa" /\ Goes("route", <<"retrieving">>, "retrieve")
       \/ intent \in {"chat", "clarification"} /\ Goes("route", <<"generating">>, "answer")
    /\ Kept

\* The retrieval of _chat_qa_stream: a failure of it is answered without a context.
Retrieve == Goes("retrieve", <<"retrieved", "generating">>, "answer") /\ Kept

Chunks == Cardinality({i \in DOMAIN sent : sent[i] = "chunk"})

\* stream_complete: chunks one by one, and the end or an exception.
Chunk(from) ==
    /\ world.llm /\ Chunks < MaxChunks
    /\ Goes(from, <<"chunk">>, from)
    /\ Kept

Answered(from) ==
    /\ \/ world.llm /\ Goes(from, <<"complete", "done">>, "finished")
       \/ ~world.llm /\ Fails(from)
    /\ Kept

\* The answer of _chat_qa_stream.
Answer == Chunk("answer") \/ Answered("answer")

\* The subscription to the events of the task that was created.
Watch ==
    /\ \/ Goes("watch", <<"task_event">>, "watch") /\ Len(sent) <= MaxChunks
       \/ Goes("watch", <<"task_end">>, "finished")
    /\ Kept

\* _generation_stream.
Create ==
    /\ \/ world.task /\ Goes("create", <<"created">>, "watch") /\ created' = "message"
       \/ ~world.task /\ Fails("create") /\ UNCHANGED created

\* _document_analysis_stream with generate.
Generate ==
    /\ \/ /\ request.url /\ FromUrl(world) = "task"
          /\ Goes("generate", <<"created">>, "watch")
          /\ created' = "page"
       \/ /\ ~request.url \/ FromUrl(world) # "task"
          /\ Fails("generate")
          /\ UNCHANGED created

\* Mutant: an unreadable document is reported, and analysed all the same.
LoadOn ==
    LET source == IF request.url THEN Ingested(world) ELSE Loaded(world) IN
    /\ UNCHANGED created
    /\ \/ source = "text" /\ Goes("load", <<"analyzing">>, "analyze")
       \/ source = "unreadable" /\ Goes("load", <<"error", "analyzing">>, "analyze")
       \/ source \in {"refused", "raises"} /\ Fails("load")

\* _document_analysis_stream: the document is read, from the url when there is one.
Load ==
    LET source == IF request.url THEN Ingested(world) ELSE Loaded(world) IN
    /\ UNCHANGED created
    /\ \/ source = "text" /\ Goes("load", <<"analyzing">>, "analyze")
       \/ source # "text" /\ Fails("load")

\* Its analysis.
Analysis == Chunk("analyze") \/ Answered("analyze")

\* The client goes away: the generator is closed.
Disconnect ==
    /\ step \notin {"idle", "finished", "gone"}
    /\ Goes(step, <<>>, "gone")
    /\ Kept

Next == Receive \/ Route \/ Retrieve \/ Answer \/ Create \/ Watch \/ Generate \/ Load \/ Analysis \/ Disconnect

Spec == Init /\ [][Next]_vars

-------------------------------------------------------------------------------
(* Every stream that is not abandoned ends with one end event: done, an    *)
(* error, or the end of the task it follows; nothing is sent after it      *)
(* (interact.py:621, 718, 754).                                            *)
EndsOnce ==
    /\ \A i \in DOMAIN sent : sent[i] \in Ends => i = Len(sent)
    /\ step = "finished" => sent # <<>> /\ Last(sent) \in Ends

\* What a finished stream amounts to, in the terms of the synchronous mode.
Outcome == CASE created # "none" -> "task"
             [] Last(sent) = "error" -> "refused"
             [] OTHER -> "answer"

(* The two modes are two programs for one request: about documents and     *)
(* generation they agree.  The stream creates a task exactly when the      *)
(* reply would name one, answers when it would hold an answer, and reports *)
(* an error for the rest (interact.py:133, 464, 567, 754).                 *)
ModesAgree ==
    step = "finished" /\ Intent(request) \in {"document_analysis", "complex_generation"} =>
        LET reply == Sync(request, world) IN
        /\ reply = "task" <=> Outcome = "task"
        /\ reply = "raises" => Outcome = "refused"
        /\ reply = "message" /\ (request.url \/ request.doc) => Outcome = "refused"
        /\ reply = "answer" => Outcome = "answer"
=============================================================================
