--------------------------- MODULE EngineRequest ---------------------------
(***************************************************************************)
(* How the engine lowers a request into the conversation it presents to    *)
(* the model: crates/uncaged_engine/src/request_parse.rs over the builder  *)
(* of model.rs.  What was said is a part: a text, a query or an attachment *)
(* of a turn, or a call and its result, known by the turn and the index of *)
(* the call in it.  A message is a role with the parts coalesced into it.  *)
(***************************************************************************)
EXTENDS Naturals, SequencesExt

Part(kind, turn, index) == [kind |-> kind, turn |-> turn, index |-> index]

\* Who says a part.
Role(kind) ==
    CASE kind = "query" -> "user"
      [] kind \in {"text", "call"} -> "assistant"
      [] kind = "result" -> "results"

\* push_user, push_assistant_text, push_tool_use and push_tool_result: a part
\* joins the last message when the role is the same.
Push(messages, part) ==
    IF messages # <<>> /\ Last(messages).role = Role(part.kind)
    THEN Front(messages) \o
             <<[Last(messages) EXCEPT !.parts = Append(@, part)]>>
    ELSE Append(messages, [role |-> Role(part.kind), parts |-> <<part>>])

\* Only an exact copy of the last user message is dropped.
PushUserDeduped(messages, part) ==
    IF messages # <<>> /\ Last(messages) = [role |-> "user", parts |-> <<part>>]
    THEN messages
    ELSE Push(messages, part)

\* Results the history already shows are dropped, by the id of the call.
PushInputResult(messages, part) ==
    IF \E i \in 1..Len(messages) : part \in ToSet(messages[i].parts)
    THEN messages
    ELSE Push(messages, part)

\* parse: the history of the tasks, then the input.
Parse(history, results, queries) ==
    LET replayed == FoldLeft(Push, <<>>, history)
        answered == FoldLeft(PushInputResult, replayed, results)
    IN  FoldLeft(PushUserDeduped, answered, queries)

\* How often the model is shown a part.
Shown(messages, part) ==
    LET parts == FlattenSeq([i \in 1..Len(messages) |-> messages[i].parts])
    IN  Cardinality({n \in 1..Len(parts) : parts[n] = part})
=============================================================================
