-------------------------- MODULE EngineProviders --------------------------
(***************************************************************************)
(* The model backends of crates/uncaged_engine/src/providers and what they *)
(* talk to.  Each turn runs its provider in a task of its own, which sends *)
(* ProviderEvents to the turn's drive.  anthropic.rs and openai.rs read    *)
(* the answer to one HTTP request; acp.rs prompts a CLI agent that lives   *)
(* on in its conversation's slot, under the slot's lock.                   *)
(***************************************************************************)
EXTENDS Integers, SequencesExt

CONSTANTS
    Turns,       \* turns of the agent
    Calls,       \* indices of the calls in an answer
    KnownCalls,  \* <<turn, index>>: names a tool the registry knows
    Backends,    \* the backends the user flips between
    MaxParts     \* bound: pieces of text and calls, in all answers together

ASSUME ProviderAssumption ==
    /\ Turns \subseteq Nat \ {0}
    /\ Calls \subseteq Nat \ {0}
    /\ KnownCalls \subseteq Turns \X Calls
    /\ Backends \subseteq {"anthropic", "openai", "acp"}
    /\ MaxParts \in Nat

VARIABLES
    backend,       \* of each turn: the one that was active when it was sent
    conversation,  \* the conversation a turn belongs to, by the turn that named it
    provider,      \* where each turn's provider task is
    accum,         \* what it has of each call
    events,        \* ProviderEvents not yet read by the drive
    slots,         \* SESSIONS: each conversation's lock and live session
    said           \* counter of the bound

providerVars == <<backend, conversation, provider, accum, events, slots, said>>

Nobody == 0

\* `of` is the turn whose answer the event is part of.
ProviderEvent(kind, index, of) == [kind |-> kind, index |-> index, of |-> of]

Emit(t, kind, index, of) ==
    events' = [events EXCEPT ![t] = Append(@, ProviderEvent(kind, index, of))]

Goto(t, place) == provider' = [provider EXCEPT ![t] = place]

-----------------------------------------------------------------------------
(* The HTTP backends.  The model is external: it sends text and calls, one  *)
(* block at a time for Anthropic, and may stop at any point.                *)

Http(t) == backend[t] \in {"anthropic", "openai"}
Held(t) == {i \in Calls : accum[t][i] \in {"partial", "whole"}}

\* openai.rs drops an empty piece, anthropic.rs forwards it.
ModelSays(t) ==
    /\ provider[t] = "reading" /\ Http(t) /\ said < MaxParts
    /\ said' = said + 1
    /\ \E kind \in {"text", "empty"} :
          /\ kind = "empty" => backend[t] = "anthropic"
          /\ Emit(t, kind, 0, t)
    /\ UNCHANGED <<backend, conversation, provider, accum, slots>>

\* The first fragment of a call: its id and its name.
ModelStartsCall(t, i) ==
    /\ provider[t] = "reading" /\ Http(t) /\ accum[t][i] = "none"
    /\ \A j \in Calls : j < i => accum[t][j] # "none"
    /\ said < MaxParts /\ said' = said + 1
    /\ backend[t] = "anthropic" => Held(t) = {}
    /\ accum' = [accum EXCEPT ![t][i] = "partial"]
    /\ UNCHANGED <<backend, conversation, provider, events, slots>>

\* The last fragment of its arguments.
ModelEndsCall(t, i) ==
    /\ provider[t] = "reading" /\ accum[t][i] = "partial"
    /\ accum' = [accum EXCEPT ![t][i] = "whole"]
    /\ UNCHANGED <<backend, conversation, provider, events, slots, said>>

\* A call leaves the accumulator.  Arguments that are cut short do not parse
\* and become {}: the call goes out all the same.
SendCall(t, i) ==
    /\ Emit(t, "call", i, t)
    /\ accum' = [accum EXCEPT ![t][i] = IF @ = "whole" THEN "asked" ELSE "cut"]

\* content_block_stop.
BlockStops(t, i) ==
    /\ provider[t] = "reading" /\ backend[t] = "anthropic" /\ i \in Held(t)
    /\ SendCall(t, i)
    /\ UNCHANGED <<backend, conversation, provider, slots, said>>

\* A finish_reason, [DONE] or the end of the bytes, whichever comes first.
StartFlush(t) ==
    /\ provider[t] = "reading" /\ backend[t] = "openai"
    /\ Goto(t, "flushing")
    /\ UNCHANGED <<backend, conversation, accum, events, slots, said>>

\* flush_tool_calls, one call after the other in the order of their indices.
FlushCall(t, i) ==
    /\ provider[t] = "flushing" /\ i \in Held(t)
    /\ \A j \in Held(t) : i <= j
    /\ SendCall(t, i)
    /\ UNCHANGED <<backend, conversation, provider, slots, said>>

ModelDone_Unflushed(t) ==
    /\ provider[t] \in {"reading", "flushing"} /\ Http(t)
    /\ Goto(t, "ended")
    /\ Emit(t, "done", 0, t)
    /\ UNCHANGED <<backend, conversation, accum, slots, said>>

\* A call Anthropic has not finished is dropped, and the turn is done all the same.
ModelDone(t) ==
    /\ \/ provider[t] = "reading" /\ backend[t] = "anthropic"
       \/ provider[t] = "flushing" /\ Held(t) = {}
    /\ Goto(t, "ended")
    /\ Emit(t, "done", 0, t)
    /\ UNCHANGED <<backend, conversation, accum, slots, said>>

\* The request is refused, the connection breaks, or the model reports an error.
ModelFails(t) ==
    /\ \/ provider[t] = "reading" /\ Http(t)
       \/ provider[t] = "flushing" /\ Held(t) = {}
    /\ Goto(t, "ended")
    /\ Emit(t, "error", 0, t)
    /\ UNCHANGED <<backend, conversation, accum, slots, said>>

-----------------------------------------------------------------------------
(* The CLI agents.  Sending a prompt, or the handshake of a new session, is *)
(* one step: what the agent prints meanwhile waits in its pipe.             *)

NoSession == [running |-> FALSE, prompts |-> <<>>, lines |-> <<>>, next_id |-> 1]
NewSession_FromZero == [NoSession EXCEPT !.running = TRUE, !.next_id = 0]
NewSession == [NoSession EXCEPT !.running = TRUE]

Slot(t) == slots[conversation[t]]
Release(slot) == [slot EXCEPT !.holder = Nobody]
SetSlot(t, slot) == slots' = [slots EXCEPT ![conversation[t]] = slot]

\* The lock is the turn's until it is over.  A session whose process has
\* exited counts as none.
LockSlot(t) ==
    /\ provider[t] = "waiting" /\ Slot(t).holder = Nobody
    /\ SetSlot(t, [Slot(t) EXCEPT !.holder = t])
    /\ Goto(t, IF Slot(t).session.running THEN "prompting" ELSE "opening")
    /\ UNCHANGED <<backend, conversation, accum, events, said>>

OpenSession(t) ==
    /\ provider[t] = "opening"
    /\ SetSlot(t, [Slot(t) EXCEPT !.session = NewSession])
    /\ Goto(t, "prompting")
    /\ UNCHANGED <<backend, conversation, accum, events, said>>

\* The agent cannot be spawned or does not complete the handshake.
OpenFails(t) ==
    /\ provider[t] = "opening"
    /\ SetSlot(t, Release(Slot(t)))
    /\ Goto(t, "ended")
    /\ Emit(t, "error", 0, t)
    /\ UNCHANGED <<backend, conversation, accum, said>>

WithPrompt(session, t) ==
    [session EXCEPT !.prompts = Append(@, [id |-> session.next_id, turn |-> t]), !.next_id = @ + 1]

Prompted_Unlocked(slot, t) == [holder |-> Nobody, session |-> WithPrompt(slot.session, t)]

\* The slot while a prompt is out: the lock stays with the turn.
Prompted(slot, t) == [slot EXCEPT !.session = WithPrompt(slot.session, t)]

Prompt(t) ==
    /\ provider[t] = "prompting" /\ Slot(t).session.running
    /\ SetSlot(t, Prompted(Slot(t), t))
    /\ Goto(t, "answering")
    /\ UNCHANGED <<backend, conversation, accum, events, said>>

\* prompt_turn fails: the session is dropped with its process.
Dropped(slot) == [Release(slot) EXCEPT !.session = NoSession]

PromptFails(t, of) ==
    /\ SetSlot(t, Dropped(Slot(t)))
    /\ Goto(t, "ended")
    /\ Emit(t, "error", 0, of)
    /\ UNCHANGED <<backend, conversation, accum, said>>

PipeBreaks_OnWrite(t) ==
    /\ provider[t] = "prompting" /\ ~Slot(t).session.running
    /\ PromptFails(t, t)

\* The pipe is broken, or ends before the answer.
PipeBreaks(t) ==
    /\ \/ provider[t] = "prompting"
       \/ provider[t] = "answering" /\ Slot(t).session.lines = <<>>
    /\ ~Slot(t).session.running
    /\ PromptFails(t, t)

\* Text is passed on until the answer to the prompt comes; anything else that
\* the agent writes is skipped.
ReadLine(t) ==
    /\ provider[t] = "answering" /\ Slot(t).session.lines # <<>>
    /\ LET line == Head(Slot(t).session.lines)
           rest == [Slot(t) EXCEPT !.session.lines = Tail(@)]
           is_answer == line.kind \in {"result", "error"} /\ line.id = Slot(t).session.next_id - 1
       IN  \/ /\ ~is_answer
              /\ IF line.kind = "text" THEN Emit(t, "text", 0, line.turn) ELSE UNCHANGED events
              /\ SetSlot(t, rest)
              /\ UNCHANGED <<backend, conversation, provider, accum, said>>
           \/ /\ is_answer /\ line.kind = "result"
              /\ Emit(t, "done", 0, line.turn)
              /\ SetSlot(t, Release(rest))
              /\ Goto(t, "ended")
              /\ UNCHANGED <<backend, conversation, accum, said>>
           \/ /\ is_answer /\ line.kind = "error"
              /\ PromptFails(t, line.turn)

\* The agent works on its prompts in order, and answers a prompt after the
\* text of its answer.
WithLine(session, kind) ==
    LET prompt == Head(session.prompts)
    IN  [session EXCEPT !.lines = Append(@, [kind |-> kind, id |-> prompt.id, turn |-> prompt.turn]),
                        !.prompts = IF kind \in {"result", "error"} THEN Tail(@) ELSE @]

OutputLine(c, kind) ==
    /\ slots[c].session.running /\ slots[c].session.prompts # <<>>
    /\ slots' = [slots EXCEPT ![c].session = WithLine(slots[c].session, kind)]

AgentSays(c) ==
    /\ \E kind \in {"text", "other"} : OutputLine(c, kind)
    /\ said < MaxParts /\ said' = said + 1
    /\ UNCHANGED <<backend, conversation, provider, accum, events>>

AgentAnswers(c) ==
    /\ \E kind \in {"result", "error"} : OutputLine(c, kind)
    /\ UNCHANGED <<backend, conversation, provider, accum, events, said>>

AgentExits(c) ==
    /\ slots[c].session.running
    /\ slots' = [slots EXCEPT ![c].session.running = FALSE]
    /\ UNCHANGED <<backend, conversation, provider, accum, events, said>>

-----------------------------------------------------------------------------
ProviderInit ==
    /\ backend = [t \in Turns |-> "none"]
    /\ conversation = [t \in Turns |-> t]
    /\ provider = [t \in Turns |-> "none"]
    /\ accum = [t \in Turns |-> [i \in Calls |-> "none"]]
    /\ events = [t \in Turns |-> <<>>]
    /\ slots = [c \in Turns |-> [holder |-> Nobody, session |-> NoSession]]
    /\ said = 0

\* What the provider's task does by itself.
ProviderStep(t) ==
    \/ \E i \in Calls : FlushCall(t, i)
    \/ LockSlot(t) \/ OpenSession(t) \/ OpenFails(t)
    \/ Prompt(t) \/ PipeBreaks(t) \/ ReadLine(t)

\* The end of the model's answer: it is never waited for in vain.
ModelEnds(t) == StartFlush(t) \/ ModelDone(t) \/ ModelFails(t)

ModelStep(t) ==
    \/ ModelSays(t)
    \/ \E i \in Calls : ModelStartsCall(t, i) \/ ModelEndsCall(t, i) \/ BlockStops(t, i)
    \/ ModelEnds(t)

AgentStep(c) == AgentSays(c) \/ AgentAnswers(c) \/ AgentExits(c)

ProviderNext == \E t \in Turns : ProviderStep(t) \/ ModelStep(t) \/ AgentStep(t)

Places == {"none", "reading", "flushing", "waiting", "opening", "prompting", "answering", "ended"}
ProviderEvents ==
    [kind : {"text", "empty", "call", "done", "error"}, index : Calls \cup {0}, of : Turns]
Prompts == [id : Nat, turn : Turns]
Lines == [kind : {"text", "other", "result", "error"}, id : Nat, turn : Turns]
Sessions == [running : BOOLEAN, prompts : Seq(Prompts), lines : Seq(Lines), next_id : Nat \ {0}]

ProviderTypeOK ==
    /\ backend \in [Turns -> Backends \cup {"none"}]
    /\ conversation \in [Turns -> Turns]
    /\ provider \in [Turns -> Places]
    /\ accum \in [Turns -> [Calls -> {"none", "partial", "whole", "asked", "cut"}]]
    /\ events \in [Turns -> Seq(ProviderEvents)]
    /\ slots \in [Turns -> [holder : Turns \cup {Nobody}, session : Sessions]]
    /\ said \in Nat
=============================================================================
