-------------------------- MODULE ResponseContract --------------------------
(***************************************************************************)
(* What the client may rely on in the response stream of a turn: it opens, *)
(* messages are added each once, only a message that was added is appended *)
(* to, and it ends once, after which nothing comes.  The client may drop   *)
(* the stream at any point.  Which turn the text answers is left open.     *)
(***************************************************************************)
EXTENDS Naturals, Sequences

CONSTANTS
    Turns,
    Texts,   \* the messages of prose
    Calls    \* the messages that call a tool

VARIABLES
    stream,   \* the events each turn has sent
    dropped   \* turns whose stream the client has dropped

vars == <<stream, dropped>>

\* `of` is the turn an event is the answer to.
Event(kind, message, of) == [kind |-> kind, message |-> message, of |-> of]
InitEvent(t) == Event("init", 0, t)
CreateTask(t) == Event("create", 0, t)

Has(t, kinds, m) ==
    \E i \in 1..Len(stream[t]) : stream[t][i].kind \in kinds /\ stream[t][i].message = m
Ended(t) == \E i \in 1..Len(stream[t]) : stream[t][i].kind \in {"done", "error"}
IsOpen(t) == stream[t] # <<>> /\ ~Ended(t)

Init == stream = [t \in Turns |-> <<>>] /\ dropped = {}

\* The stream opens, and names the task that it creates when there is none.
Open(t) ==
    /\ stream[t] = <<>> /\ t \notin dropped
    /\ \E opening \in {<<InitEvent(t)>>, <<InitEvent(t), CreateTask(t)>>} :
          stream' = [stream EXCEPT ![t] = opening]
    /\ UNCHANGED dropped

Send(t, kind, m, of) ==
    /\ IsOpen(t)
    /\ stream' = [stream EXCEPT ![t] = Append(@, Event(kind, m, of))]
    /\ UNCHANGED dropped

AddText(t, m, of) == ~Has(t, {"add"}, m) /\ Send(t, "add", m, of)
AppendText(t, m, of) == Has(t, {"add"}, m) /\ Send(t, "append", m, of)
AddCall(t, m, of) == ~Has(t, {"call"}, m) /\ Send(t, "call", m, of)
Finish(t, of) == \E k \in {"done", "error"} : Send(t, k, 0, of)

Drop(t) ==
    /\ dropped' = dropped \cup {t}
    /\ stream' = [stream EXCEPT ![t] = <<>>]

Next ==
    \E t, of \in Turns :
        \/ Open(t)
        \/ \E m \in Texts : AddText(t, m, of) \/ AppendText(t, m, of)
        \/ \E m \in Calls : AddCall(t, m, of)
        \/ Finish(t, of)
        \/ Drop(t)

Spec == Init /\ [][Next]_vars
=============================================================================
