----------------------------- MODULE Compressor -----------------------------
(***************************************************************************)
(* The graph node compress_memory (app/orchestrator/nodes/                 *)
(* compress_memory.py) and the compressor it calls                         *)
(* (app/session_history/compressor.py): the history of the session is cut  *)
(* to a number of tokens.  A message is its position in the history; what  *)
(* matters of its text is the estimate of its tokens, an integer that is 0 *)
(* for a short text.                                                       *)
(***************************************************************************)
EXTENDS Integers, Sequences, SequencesExt

CONSTANTS
    MaxTokens,      \* max_tokens
    Reserve,        \* reserve_for_latest
    Longest,        \* messages of a history
    Largest         \* tokens of a message or a summary

\* What the constants have to satisfy; Services assumes it.
CompressorAssumption ==
    {MaxTokens, Reserve, Longest, Largest} \subseteq Nat /\ Reserve <= MaxTokens

VARIABLES
    tokens,      \* the estimates of the messages, oldest first
    summarizes,  \* has the compressor a gateway?
    context,     \* compressed_context: what it consists of, in order
    phase        \* "load", "compress", "done" or "skipped"

vars == <<tokens, summarizes, context, phase>>

\* Messages keep their position; a summary stands for messages at no position.
Message(ts, i) == [position |-> i, tokens |-> ts[i]]
Summary(n) == [position |-> 0, tokens |-> n]
Total(items) == FoldSeq(LAMBDA item, sum : item.tokens + sum, 0, items)

\* The messages at some positions, oldest first.
Items(ts, positions) ==
    LET Rank(i) == Cardinality({j \in positions : j <= i})
    IN  [k \in 1 .. Cardinality(positions) |-> Message(ts, CHOOSE i \in positions : Rank(i) = k)]

Init == /\ tokens \in UNION {[1 .. n -> 0 .. Largest] : n \in 0 .. Longest}
        /\ summarizes \in BOOLEAN
        /\ context = <<>> /\ phase = "load"

-------------------------------------------------------------------------------
\* The tokens protected among the messages from each position on: the newest
\* first, each that still fits, those behind one that does not included.
Safe(ts) ==
    LET From[i \in 1 .. Len(ts) + 1] ==
            IF i > Len(ts) THEN 0
            ELSE IF From[i + 1] + ts[i] <= Reserve THEN From[i + 1] + ts[i] ELSE From[i + 1]
    IN  From

Protected(ts) == {i \in DOMAIN ts : Safe(ts)[i + 1] + ts[i] <= Reserve}
Compressible(ts) == DOMAIN ts \ Protected(ts)
Budget(ts) == MaxTokens - Safe(ts)[1]
Since(ts, i) == {j \in Compressible(ts) : j >= i}

\* Mutant: nothing is subtracted for the protected messages.
RollingWithoutReserve(ts) == {i \in Compressible(ts) : Total(Items(ts, Since(ts, i))) <= MaxTokens}

\* _rolling: the newest of the messages, up to the first that does not fit.
Rolling(ts) == {i \in Compressible(ts) : Total(Items(ts, Since(ts, i))) <= Budget(ts)}

\* The strategies in their order.  Without a gateway the first changes nothing,
\* and what it leaves never fits; the second always fits, so that _truncate and
\* the last resort behind it are never reached.
Compressed(ts, gateway) ==
    LET protected == Items(ts, Protected(ts))
        rolled == Items(ts, Rolling(ts)) \o protected
        summary(n) == IF n <= Budget(ts) THEN <<Summary(n)>> \o protected ELSE rolled
    IN  IF Total(Items(ts, DOMAIN ts)) <= MaxTokens THEN {Items(ts, DOMAIN ts)}
        ELSE {rolled} \union IF gateway /\ Compressible(ts) # {}
                             THEN {summary(n) : n \in 0 .. Largest} ELSE {}

\* load_history_messages; without messages, or when it fails, the state stays
\* as it is.
Load ==
    /\ phase = "load"
    /\ phase' \in IF tokens = <<>> THEN {"skipped"} ELSE {"compress", "skipped"}
    /\ UNCHANGED <<tokens, summarizes, context>>

Compress ==
    /\ phase = "compress" /\ phase' = "done"
    /\ context' \in Compressed(tokens, summarizes)
    /\ UNCHANGED <<tokens, summarizes>>

Next == Load \/ Compress

Spec == Init /\ [][Next]_vars

-------------------------------------------------------------------------------
(* The context fits, whatever the sizes; no message is in it twice; the    *)
(* newest message ends it unless it alone exceeds the reserve; and it is   *)
(* in the order of the conversation as long as no message was protected    *)
(* behind one that was not (compressor.py:60-86: then the older one comes  *)
(* last).                                                                  *)
ContextFits ==
    phase = "done" =>
        LET last == Len(tokens)
            InOrder == \A j, k \in DOMAIN context : j < k => context[j].position < context[k].position
        IN  /\ Total(context) <= MaxTokens
            /\ \A j, k \in DOMAIN context : j # k => context[j].position # context[k].position
            /\ tokens[last] <= Reserve => context[Len(context)] = Message(tokens, last)
            /\ InOrder \/ \E i \in Protected(tokens), j \in Compressible(tokens) : i < j
=============================================================================
