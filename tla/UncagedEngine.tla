---------------------------- MODULE UncagedEngine ----------------------------
(***************************************************************************)
(* The local engine that answers Agent Mode's requests (crates/            *)
(* uncaged_engine/src/engine.rs) between the client of one conversation    *)
(* and the model backends of EngineProviders.  The client sends a request, *)
(* reads the turn's response stream and may drop it at any point: the      *)
(* turn's drive and its provider do not notice and run to their end.       *)
(***************************************************************************)
EXTENDS EngineProviders, EngineRequest

VARIABLES
    turns,         \* turns the client has sent, one after the other
    outcome,       \* of each turn, as the client sees it
    read,          \* events of the current stream that the client has applied
    token,         \* the conversation's id, or Nobody until an Init is read
    has_task,      \* the conversation's task is known to the engine
    history,       \* the task's messages
    answered,      \* calls whose results the client has sent
    asked_by_user, \* turns that carry a query
    named,         \* each request's target_task_id is there
    request,       \* the messages each request presents to the model
    drive,         \* where each turn's drive is
    started_text,  \* its flag
    stream         \* the ResponseEvents it has sent, while the client holds the stream

clientVars == <<turns, outcome, read, token, has_task, history, answered, asked_by_user, named, request>>
driveVars == <<drive, started_text, stream>>
vars == <<providerVars, clientVars, driveVars>>

DroppedStreams == {t \in Turns : outcome[t] \in {"done", "error", "stopped"}}

Contract == INSTANCE ResponseContract WITH Texts <- {0}, dropped <- DroppedStreams

-----------------------------------------------------------------------------
(* The client's request.                                                    *)

IsCall(part) == part.kind = "call"
CallsMade == {<<history[n].turn, history[n].index>> : n \in {m \in 1..Len(history) : IsCall(history[m])}}
Unanswered == SelectSeq(history, LAMBDA part : IsCall(part) /\ <<part.turn, part.index>> \notin answered)
Results == [n \in 1..Len(Unanswered) |-> Part("result", Unanswered[n].turn, Unanswered[n].index)]

\* A query takes the results of what is unanswered along, a follow-up is sent
\* for its results, and a turn that failed is resumed with neither.
LastOutcome == IF turns = 0 THEN "unsent" ELSE outcome[turns]

MaySend(kind) ==
    CASE kind = "query" -> LastOutcome # "open"
      [] kind = "results" -> LastOutcome = "done" /\ ~(CallsMade \subseteq answered)
      [] kind = "resume" -> LastOutcome = "error"

\* generate_multi_agent_output and run_turn: the active backend is chosen, the
\* request is lowered and the drive is spawned.
SendTurn(t, kind, b) ==
    /\ t = turns + 1 /\ MaySend(kind)
    /\ request' = [request EXCEPT ![t] =
          Parse(history, IF kind = "resume" THEN <<>> ELSE Results,
                IF kind = "query" THEN <<Part("query", t, 0)>> ELSE <<>>)]
    /\ answered' = IF kind = "resume" THEN answered ELSE CallsMade
    /\ turns' = t
    /\ outcome' = [outcome EXCEPT ![t] = "open"]
    /\ read' = 0
    /\ asked_by_user' = IF kind = "query" THEN asked_by_user \cup {t} ELSE asked_by_user
    /\ named' = [named EXCEPT ![t] = has_task]
    /\ backend' = [backend EXCEPT ![t] = b]
    /\ conversation' = [conversation EXCEPT ![t] = IF token = Nobody THEN t ELSE token]
    /\ drive' = [drive EXCEPT ![t] = "called"]
    /\ UNCHANGED <<provider, accum, events, slots, said, token, has_task, history, started_text, stream>>

-----------------------------------------------------------------------------
(* drive                                                                    *)

\* What is sent once the stream has been dropped is lost, and nobody notices.
Send(t, new_events) ==
    stream' = IF outcome[t] = "open" THEN [stream EXCEPT ![t] = @ \o new_events] ELSE stream

\* The stream opens, a task is created if the request names none, and the
\* provider's task is spawned.
OpenStream(t) ==
    /\ drive[t] = "called"
    /\ Send(t, IF named[t] THEN <<Contract!InitEvent(t)>>
               ELSE <<Contract!InitEvent(t), Contract!CreateTask(t)>>)
    /\ drive' = [drive EXCEPT ![t] = "streaming"]
    /\ Goto(t, IF Http(t) THEN "reading" ELSE "waiting")
    /\ UNCHANGED <<backend, conversation, accum, events, slots, said, started_text, clientVars>>

\* The next ProviderEvent, of one of these kinds.
NextEvent(t, kinds) ==
    /\ drive[t] = "streaming" /\ events[t] # <<>> /\ Head(events[t]).kind \in kinds
    /\ events' = [events EXCEPT ![t] = Tail(@)]
    /\ UNCHANGED <<backend, conversation, provider, accum, slots, said, clientVars>>

ForwardText_Unflagged(t) ==
    /\ NextEvent(t, {"text"})
    /\ Send(t, <<Contract!Event(IF started_text[t] THEN "append" ELSE "add", 0, Head(events[t]).of)>>)
    /\ UNCHANGED <<drive, started_text>>

\* The first piece of text adds the turn's message, the others append to it.
ForwardText(t) ==
    /\ NextEvent(t, {"text"})
    /\ Send(t, <<Contract!Event(IF started_text[t] THEN "append" ELSE "add", 0, Head(events[t]).of)>>)
    /\ started_text' = [started_text EXCEPT ![t] = TRUE]
    /\ UNCHANGED drive

\* An empty piece of text, or a call of a tool nobody knows.
IgnoreEvent(t) ==
    /\ NextEvent(t, {"empty", "call"})
    /\ Head(events[t]).kind = "call" => <<t, Head(events[t]).index>> \notin KnownCalls
    /\ UNCHANGED driveVars

ForwardCall(t) ==
    /\ NextEvent(t, {"call"})
    /\ <<t, Head(events[t]).index>> \in KnownCalls
    /\ Send(t, <<Contract!Event("call", Head(events[t]).index, Head(events[t]).of)>>)
    /\ UNCHANGED <<drive, started_text>>

FinishStream(t) ==
    /\ NextEvent(t, {"done", "error"})
    /\ Send(t, <<Contract!Event(Head(events[t]).kind, 0, Head(events[t]).of)>>)
    /\ drive' = [drive EXCEPT ![t] = "ended"]
    /\ UNCHANGED started_text

DriveStep(t) ==
    OpenStream(t) \/ ForwardText(t) \/ IgnoreEvent(t) \/ ForwardCall(t) \/ FinishStream(t)

-----------------------------------------------------------------------------
(* The client applies the events of its open stream, in order.              *)

Unread(t) == outcome[t] = "open" /\ read < Len(stream[t])

\* The turn is over for the client, which drops the stream.
EndTurn(t, how) ==
    /\ outcome' = [outcome EXCEPT ![t] = how]
    /\ stream' = [stream EXCEPT ![t] = <<>>]
    /\ read' = 0
    /\ UNCHANGED <<drive, started_text>>

ApplyEvent(t) ==
    /\ t = turns /\ Unread(t)
    /\ LET event == stream[t][read + 1]
       IN  /\ token' = IF event.kind = "init" THEN conversation[t] ELSE token
           /\ has_task' = (has_task \/ event.kind = "create")
           /\ history' = CASE event.kind = "add" -> Append(history, Part("text", t, 0))
                           [] event.kind = "call" -> Append(history, Part("call", t, event.message))
                           [] OTHER -> history
           /\ IF event.kind \in {"done", "error"} THEN EndTurn(t, event.kind)
              ELSE read' = read + 1 /\ UNCHANGED <<outcome, driveVars>>
    /\ UNCHANGED <<providerVars, turns, answered, asked_by_user, named, request>>

\* The user stops the turn.
StopTurn(t) ==
    /\ t = turns /\ outcome[t] = "open"
    /\ EndTurn(t, "stopped")
    /\ UNCHANGED <<providerVars, turns, token, has_task, history, answered, asked_by_user, named, request>>

-----------------------------------------------------------------------------
Init ==
    /\ ProviderInit
    /\ turns = 0 /\ read = 0 /\ token = Nobody /\ has_task = FALSE
    /\ history = <<>> /\ answered = {} /\ asked_by_user = {}
    /\ outcome = [t \in Turns |-> "unsent"]
    /\ named = [t \in Turns |-> FALSE]
    /\ request = [t \in Turns |-> <<>>]
    /\ drive = [t \in Turns |-> "none"]
    /\ started_text = [t \in Turns |-> FALSE]
    /\ stream = [t \in Turns |-> <<>>]

ClientStep(t) ==
    \/ \E kind \in {"query", "results", "resume"}, b \in Backends : SendTurn(t, kind, b)
    \/ ApplyEvent(t)
    \/ StopTurn(t)

Next ==
    \/ ProviderNext /\ UNCHANGED <<clientVars, driveVars>>
    \/ \E t \in Turns : DriveStep(t) \/ ClientStep(t)

Spec == Init /\ [][Next]_vars

\* What goes on by itself once a turn is sent: the tasks run, the client reads,
\* a model ends its answer or its connection breaks, and an agent answers a
\* prompt or exits (neither is timed).
Advance(t) ==
    \/ DriveStep(t)
    \/ ApplyEvent(t)
    \/ /\ ProviderStep(t) \/ ModelEnds(t) \/ AgentAnswers(t)
       /\ UNCHANGED <<clientVars, driveVars>>

FairSpec == Spec /\ WF_vars(\E t \in Turns : Advance(t))

-----------------------------------------------------------------------------
HistoryParts == [kind : {"text", "call"}, turn : Turns, index : Calls \cup {0}]
ResponseEvents ==
    [kind : {"init", "create", "add", "append", "call", "done", "error"},
     message : Calls \cup {0}, of : Turns]

TypeOK ==
    /\ ProviderTypeOK
    /\ turns \in Turns \cup {0} /\ read \in Nat /\ token \in Turns \cup {Nobody}
    /\ outcome \in [Turns -> {"unsent", "open", "done", "error", "stopped"}]
    /\ has_task \in BOOLEAN
    /\ named \in [Turns -> BOOLEAN]
    /\ history \in Seq(HistoryParts)
    /\ answered \subseteq Turns \X (Calls \cup {0})
    /\ asked_by_user \subseteq Turns
    /\ drive \in [Turns -> {"none", "called", "streaming", "ended"}]
    /\ started_text \in [Turns -> BOOLEAN]
    /\ stream \in [Turns -> Seq(ResponseEvents)]

\* What a turn's stream says is the agent's answer to that turn: no text of
\* another prompt, and no end that answers another prompt, even when earlier
\* turns were stopped and their prompts are still being answered (acp.rs: the
\* lock and the request ids).
AnswersOwnPrompt ==
    \A t \in Turns : \A n \in 1..Len(stream[t]) : stream[t][n].of = t

\* The calls the model has completed: for Anthropic, up to their block's stop.
Completed(t) ==
    {i \in Calls : \/ accum[t][i] = "asked"
                   \/ accum[t][i] = "whole" /\ backend[t] = "openai"}

IsCallOf(part, t) == IsCall(part) /\ part.turn = t

\* A turn the client has seen done has given it each known call that the model
\* completed, once, in the order of the indices (accumulate and flush).
CallsReachClientOnce ==
    \A t \in Turns : outcome[t] = "done" =>
        /\ \A m, n \in 1..Len(history) :
              m < n /\ IsCallOf(history[m], t) /\ IsCallOf(history[n], t) =>
                  history[m].index < history[n].index
        /\ \A i \in Completed(t) :
              <<t, i>> \in KnownCalls => Part("call", t, i) \in ToSet(history)

\* The client can apply the event it reads next: a task is created once and
\* before its messages, and text is appended to a message that is there.
ClientCanApply ==
    \A t \in Turns : t = turns /\ Unread(t) =>
        LET event == stream[t][read + 1]
        IN  /\ event.kind = "create" => ~has_task
            /\ event.kind \in {"add", "append", "call"} => has_task
            /\ event.kind = "append" => Part("text", t, 0) \in ToSet(history)

\* What the client has read is what the model has said, and it can go on.
ClientFollows == CallsReachClientOnce /\ ClientCanApply

\* Every request presents each query that has been answered, and its own, to
\* the model exactly once (request_parse.rs:1-6).
EveryTurnPresented ==
    \A t \in Turns : t = turns =>
        \A u \in asked_by_user :
            u = t \/ outcome[u] = "done" => Shown(request[t], Part("query", u, 0)) = 1

\* Each response stream keeps the contract.
ImplementsResponseContract == Contract!Spec

\* A turn that is sent comes to its end for the client, and so no turn is open.
EveryTurnEnds ==
    (\E t \in Turns : outcome[t] = "open") ~> (\A t \in Turns : outcome[t] # "open")
=============================================================================
