------------------------ MODULE UncagedEngineProofs ------------------------
(***************************************************************************)
(* What UncagedEngine promises for any number of turns, calls and texts.   *)
(***************************************************************************)
EXTENDS UncagedEngine, TLAPS

\* The slots, by what a turn may find in them.
SlotType == [holder : Turns \cup {Nobody}, session : Sessions]

-----------------------------------------------------------------------------
(* Types *)

LEMMA TypeInit == Init => TypeOK
<1>1. NoSession \in Sessions
    BY DEF NoSession, Sessions
<1>2. ASSUME Init PROVE ProviderTypeOK
    <2>1. slots \in [Turns -> SlotType]
        BY <1>1, <1>2 DEF Init, ProviderInit, SlotType
    <2>2. events \in [Turns -> Seq(ProviderEvents)] /\ accum \in [Turns -> [Calls -> {"none", "partial", "whole", "asked", "cut"}]]
        BY <1>2 DEF Init, ProviderInit
    <2>3. QED
        BY <1>2, <2>1, <2>2 DEF Init, ProviderInit, ProviderTypeOK, Places, SlotType
<1>3. ASSUME Init PROVE stream \in [Turns -> Seq(ResponseEvents)] /\ history \in Seq(HistoryParts)
    BY <1>3 DEF Init
<1>4. ASSUME Init
      PROVE  /\ turns \in Turns \cup {0} /\ read \in Nat /\ token \in Turns \cup {Nobody}
             /\ has_task \in BOOLEAN /\ answered \subseteq Turns \X (Calls \cup {0})
             /\ asked_by_user \subseteq Turns
    BY <1>4 DEF Init
<1>5. ASSUME Init
      PROVE  /\ outcome \in [Turns -> {"unsent", "open", "done", "error", "stopped"}]
             /\ named \in [Turns -> BOOLEAN] /\ started_text \in [Turns -> BOOLEAN]
             /\ drive \in [Turns -> {"none", "called", "streaming", "ended"}]
    BY <1>5 DEF Init
<1>6. QED
    BY <1>2, <1>3, <1>4, <1>5 DEF TypeOK

LEMMA EmitType ==
    ASSUME ProviderTypeOK, NEW t \in Turns, NEW of \in Turns, NEW index \in Calls \cup {0},
           NEW kind \in {"text", "empty", "call", "done", "error"}, Emit(t, kind, index, of)
    PROVE  events' \in [Turns -> Seq(ProviderEvents)]
<1>1. ProviderEvent(kind, index, of) \in ProviderEvents
    BY DEF ProviderEvent, ProviderEvents
<1>2. events[t] \in Seq(ProviderEvents)
    BY DEF ProviderTypeOK
<1>3. Append(events[t], ProviderEvent(kind, index, of)) \in Seq(ProviderEvents)
    BY <1>1, <1>2
<1>4. events \in [Turns -> Seq(ProviderEvents)]
    BY DEF ProviderTypeOK
<1>5. QED
    BY <1>3, <1>4 DEF Emit

\* The HTTP backends leave the slots alone.
HttpStep(t) ==
    \/ ModelSays(t)
    \/ \E i \in Calls : ModelStartsCall(t, i) \/ ModelEndsCall(t, i) \/ BlockStops(t, i) \/ FlushCall(t, i)
    \/ ModelEnds(t)

LEMMA HttpTypes ==
    ASSUME ProviderTypeOK, NEW t \in Turns, HttpStep(t)
    PROVE  ProviderTypeOK'
<1> USE DEF ProviderTypeOK
<1>1. CASE ModelSays(t)
    <2>1. PICK kind \in {"text", "empty"} : Emit(t, kind, 0, t)
        BY <1>1 DEF ModelSays
    <2>2. events' \in [Turns -> Seq(ProviderEvents)]
        BY <2>1, EmitType
    <2>3. QED
        BY <1>1, <2>2 DEF ModelSays
<1>2. ASSUME NEW i \in Calls, ModelStartsCall(t, i) \/ ModelEndsCall(t, i)
      PROVE  ProviderTypeOK'
    <2>1. UNCHANGED <<backend, conversation, provider, events, slots>> /\ said' \in Nat
        BY <1>2 DEF ModelStartsCall, ModelEndsCall
    <2>2. \E part \in {"partial", "whole"} : accum' = [accum EXCEPT ![t][i] = part]
        BY <1>2 DEF ModelStartsCall, ModelEndsCall
    <2>3. QED
        BY <2>1, <2>2
<1>3. ASSUME NEW i \in Calls, BlockStops(t, i) \/ FlushCall(t, i)
      PROVE  ProviderTypeOK'
    <2>1. SendCall(t, i) /\ UNCHANGED <<backend, conversation, provider, slots, said>>
        BY <1>3 DEF BlockStops, FlushCall
    <2>2. events' \in [Turns -> Seq(ProviderEvents)]
        BY <2>1, EmitType DEF SendCall
    <2>3. QED
        BY <2>1, <2>2 DEF SendCall
<1>4. CASE StartFlush(t)
    BY <1>4 DEF StartFlush, Goto, Places
<1>5. CASE ModelDone(t) \/ ModelFails(t)
    <2>1. PICK kind \in {"done", "error"} : Emit(t, kind, 0, t)
        BY <1>5 DEF ModelDone, ModelFails
    <2>2. events' \in [Turns -> Seq(ProviderEvents)]
        BY <2>1, EmitType
    <2>3. QED
        BY <1>5, <2>2 DEF ModelDone, ModelFails, Goto, Places
<1>6. QED
    BY <1>1, <1>2, <1>3, <1>4, <1>5 DEF HttpStep, ModelEnds

-----------------------------------------------------------------------------
(* The slots *)

AcpStep(t) ==
    \/ LockSlot(t) \/ OpenSession(t) \/ OpenFails(t) \/ Prompt(t) \/ PipeBreaks(t) \/ ReadLine(t)

LEMMA SlotTyped ==
    ASSUME ProviderTypeOK, NEW t \in Turns
    PROVE  /\ conversation[t] \in Turns /\ Slot(t) \in SlotType
           /\ Slot(t).session \in Sessions /\ Slot(t).holder \in Turns \cup {Nobody}
           /\ Slot(t).session.running \in BOOLEAN
           /\ Slot(t).session.prompts \in Seq(Prompts)
           /\ Slot(t).session.lines \in Seq(Lines)
           /\ Slot(t).session.next_id \in Nat \ {0}
<1>1. conversation[t] \in Turns /\ Slot(t) \in SlotType
    BY DEF ProviderTypeOK, Slot, SlotType
<1>2. QED
    BY <1>1 DEF SlotType, Sessions

LEMMA SetSlotTyped ==
    ASSUME ProviderTypeOK, NEW t \in Turns, NEW slot \in SlotType, SetSlot(t, slot)
    PROVE  slots' \in [Turns -> SlotType] /\ slots'[conversation[t]] = slot
BY DEF ProviderTypeOK, SetSlot, SlotType

LEMMA SessionValues ==
    ASSUME NEW session \in Sessions, NEW prompts \in Seq(Prompts), NEW lines \in Seq(Lines)
    PROVE  /\ [session EXCEPT !.prompts = prompts, !.next_id = session.next_id + 1] \in Sessions
           /\ [session EXCEPT !.lines = lines, !.prompts = prompts] \in Sessions
<1>1. session.next_id + 1 \in Nat \ {0}
    BY DEF Sessions
<1>2. QED
    BY <1>1 DEF Sessions

\* What a step makes of a slot is a slot.
LEMMA SlotValues ==
    ASSUME ProviderTypeOK, NEW t \in Turns
    PROVE  /\ [Slot(t) EXCEPT !.holder = t] \in SlotType
           /\ [Slot(t) EXCEPT !.session = NewSession] \in SlotType
           /\ Release(Slot(t)) \in SlotType
           /\ Prompted(Slot(t), t) \in SlotType
           /\ Dropped(Slot(t)) \in SlotType
           /\ Slot(t).session.lines # <<>> =>
                 LET rest == [Slot(t) EXCEPT !.session.lines = Tail(@)]
                 IN  rest \in SlotType /\ Release(rest) \in SlotType
                     /\ Head(Slot(t).session.lines) \in Lines
<1>1. Slot(t) \in SlotType /\ Slot(t).session \in Sessions
    BY SlotTyped
<1>2. NoSession \in Sessions /\ NewSession \in Sessions
    <2>1. <<>> \in Seq(Prompts) /\ <<>> \in Seq(Lines) /\ 1 \in Nat \ {0}
        OBVIOUS
    <2>2. NoSession \in Sessions
        BY <2>1 DEF NoSession, Sessions
    <2>3. QED
        BY <2>2 DEF NewSession, Sessions
<1>3. [id |-> Slot(t).session.next_id, turn |-> t] \in Prompts
    BY SlotTyped DEF Prompts
<1>4. Append(Slot(t).session.prompts, [id |-> Slot(t).session.next_id, turn |-> t]) \in Seq(Prompts)
    BY <1>3, SlotTyped
<1>5. Prompted(Slot(t), t) \in SlotType
    <2>1. WithPrompt(Slot(t).session, t) \in Sessions
        BY <1>1, <1>4, SessionValues, SlotTyped DEF WithPrompt
    <2>2. QED
        BY <1>1, <2>1 DEF SlotType, Prompted
<1>6. ASSUME Slot(t).session.lines # <<>>
      PROVE  /\ [Slot(t) EXCEPT !.session.lines = Tail(@)] \in SlotType
             /\ Release([Slot(t) EXCEPT !.session.lines = Tail(@)]) \in SlotType
             /\ Head(Slot(t).session.lines) \in Lines
    <2>1. Tail(Slot(t).session.lines) \in Seq(Lines) /\ Head(Slot(t).session.lines) \in Lines
        BY <1>6, SlotTyped
    <2>2. [Slot(t) EXCEPT !.session.lines = Tail(@)] \in SlotType
        BY <1>1, <2>1 DEF SlotType, Sessions
    <2>3. QED
        BY <2>1, <2>2 DEF Release, SlotType, Nobody
<1>7. QED
    BY <1>1, <1>2, <1>5, <1>6 DEF SlotType, Release, Dropped, Nobody

LEMMA AcpTypes ==
    ASSUME ProviderTypeOK, NEW t \in Turns, AcpStep(t)
    PROVE  ProviderTypeOK'
<1>a. UNCHANGED <<backend, conversation, accum, said>>
    BY DEF AcpStep, LockSlot, OpenSession, OpenFails, Prompt, PipeBreaks, ReadLine, PromptFails
<1>b. provider' \in [Turns -> Places]
    <2>1. provider' = provider \/ \E place \in Places : Goto(t, place)
        BY DEF AcpStep, LockSlot, OpenSession, OpenFails, Prompt, PipeBreaks, ReadLine, PromptFails, Places
    <2>2. QED
        BY <2>1 DEF Goto, ProviderTypeOK
<1>c. slots' \in [Turns -> SlotType]
    <2>1. \E slot \in SlotType : SetSlot(t, slot)
        BY SlotValues DEF AcpStep, LockSlot, OpenSession, OpenFails, Prompt, PipeBreaks, ReadLine, PromptFails
    <2>2. QED
        BY <2>1, SetSlotTyped
<1>d. events' \in [Turns -> Seq(ProviderEvents)]
    <2>1. CASE events' = events
        BY <2>1 DEF ProviderTypeOK
    <2>2. CASE \E kind \in {"text", "done", "error"}, of \in Turns : Emit(t, kind, 0, of)
        BY <2>2, EmitType
    <2>3. CASE ReadLine(t)
        <3>1. Head(Slot(t).session.lines).turn \in Turns
            BY <2>3, SlotValues DEF ReadLine, Lines
        <3>2. QED
            BY <2>1, <2>2, <2>3, <3>1 DEF ReadLine, PromptFails
    <2>4. QED
        BY <2>1, <2>2, <2>3 DEF AcpStep, LockSlot, OpenSession, OpenFails, Prompt, PipeBreaks, PromptFails
<1>e. QED
    BY <1>a, <1>b, <1>c, <1>d DEF ProviderTypeOK, SlotType

LEMMA AgentTypes ==
    ASSUME ProviderTypeOK, NEW c \in Turns, AgentStep(c)
    PROVE  ProviderTypeOK'
<1>1. slots[c] \in SlotType /\ slots[c].session \in Sessions
    BY DEF ProviderTypeOK, SlotType
<1>2. ASSUME NEW kind \in {"text", "other", "result", "error"}, OutputLine(c, kind)
      PROVE  slots' \in [Turns -> SlotType]
    <2> DEFINE session == slots[c].session
               prompt == Head(session.prompts)
               line == [kind |-> kind, id |-> prompt.id, turn |-> prompt.turn]
    <2>1. session.prompts \in Seq(Prompts) /\ session.lines \in Seq(Lines) /\ session.prompts # <<>>
        BY <1>1, <1>2 DEF Sessions, OutputLine
    <2>2. prompt \in Prompts /\ Tail(session.prompts) \in Seq(Prompts)
        BY <2>1
    <2>3. line \in Lines
        BY <2>2 DEF Prompts, Lines
    <2>4. Append(session.lines, line) \in Seq(Lines)
        BY <2>1, <2>3
    <2>5. WithLine(session, kind) \in Sessions
        BY <1>1, <2>1, <2>2, <2>4, SessionValues DEF WithLine
    <2>6. QED
        BY <1>1, <1>2, <2>5 DEF OutputLine, ProviderTypeOK, SlotType
<1>3. slots' \in [Turns -> SlotType]
    <2>1. CASE AgentExits(c)
        <3>1. [slots[c].session EXCEPT !.running = FALSE] \in Sessions
            BY <1>1 DEF Sessions
        <3>2. QED
            BY <1>1, <2>1, <3>1 DEF AgentExits, ProviderTypeOK, SlotType
    <2>2. QED
        BY <1>2, <2>1 DEF AgentStep, AgentSays, AgentAnswers
<1>4. UNCHANGED <<backend, conversation, provider, accum, events>> /\ said' \in Nat
    BY DEF AgentStep, AgentSays, AgentAnswers, AgentExits, ProviderTypeOK
<1>5. QED
    BY <1>3, <1>4 DEF ProviderTypeOK, SlotType

-----------------------------------------------------------------------------
(* The drive and the client *)

LEMMA ProviderTypes ==
    ASSUME ProviderTypeOK, ProviderNext
    PROVE  ProviderTypeOK'
<1>1. PICK t \in Turns : HttpStep(t) \/ AcpStep(t) \/ AgentStep(t)
    BY DEF ProviderNext, ProviderStep, ModelStep, HttpStep, AcpStep
<1>2. QED
    BY <1>1, HttpTypes, AcpTypes, AgentTypes

LEMMA SendType ==
    ASSUME TypeOK, NEW t \in Turns, NEW new \in Seq(ResponseEvents), Send(t, new)
    PROVE  stream' \in [Turns -> Seq(ResponseEvents)]
<1>1. stream \in [Turns -> Seq(ResponseEvents)] /\ stream[t] \in Seq(ResponseEvents)
    BY DEF TypeOK
<1>2. stream[t] \o new \in Seq(ResponseEvents)
    BY <1>1
<1>3. QED
    BY <1>1, <1>2 DEF Send

\* What the drive reads next.
LEMMA NextEventTyped ==
    ASSUME TypeOK, NEW t \in Turns, NEW kinds, NextEvent(t, kinds)
    PROVE  /\ Head(events[t]) \in ProviderEvents
           /\ events' \in [Turns -> Seq(ProviderEvents)]
           /\ ProviderTypeOK'
<1>1. events \in [Turns -> Seq(ProviderEvents)] /\ events[t] \in Seq(ProviderEvents) /\ events[t] # <<>>
    BY DEF TypeOK, ProviderTypeOK, NextEvent
<1>2. Head(events[t]) \in ProviderEvents /\ Tail(events[t]) \in Seq(ProviderEvents)
    BY <1>1
<1>3. events' \in [Turns -> Seq(ProviderEvents)]
    BY <1>1, <1>2 DEF NextEvent
<1>4. QED
    BY <1>2, <1>3 DEF NextEvent, TypeOK, ProviderTypeOK

\* What it sends.
LEMMA SentTyped ==
    ASSUME NEW t \in Turns, NEW of \in Turns, NEW m \in Calls \cup {0},
           NEW kind \in {"add", "append", "call", "done", "error"}
    PROVE  /\ <<Contract!Event(kind, m, of)>> \in Seq(ResponseEvents)
           /\ <<Contract!InitEvent(t)>> \in Seq(ResponseEvents)
           /\ <<Contract!InitEvent(t), Contract!CreateTask(t)>> \in Seq(ResponseEvents)
<1>1. Contract!Event(kind, m, of) \in ResponseEvents
    BY DEF Contract!Event, ResponseEvents
<1>2. Contract!InitEvent(t) \in ResponseEvents /\ Contract!CreateTask(t) \in ResponseEvents
    BY DEF Contract!Event, Contract!InitEvent, Contract!CreateTask, ResponseEvents
<1>3. QED
    BY <1>1, <1>2

LEMMA DriveTypes ==
    ASSUME TypeOK, NEW t \in Turns, DriveStep(t)
    PROVE  TypeOK'
<1>1. CASE OpenStream(t)
    <2>1. \E new \in Seq(ResponseEvents) : Send(t, new)
        BY <1>1, SentTyped DEF OpenStream
    <2>2. stream' \in [Turns -> Seq(ResponseEvents)]
        BY <2>1, SendType
    <2>3. ProviderTypeOK'
        BY <1>1 DEF OpenStream, TypeOK, ProviderTypeOK, Goto, Places
    <2>4. drive' \in [Turns -> {"none", "called", "streaming", "ended"}]
        BY <1>1 DEF OpenStream, TypeOK
    <2>5. QED
        BY <1>1, <2>2, <2>3, <2>4 DEF OpenStream, TypeOK, clientVars
<1>2. CASE ForwardText(t)
    <2> DEFINE event == Contract!Event(IF started_text[t] THEN "append" ELSE "add", 0, Head(events[t]).of)
    <2>1. Head(events[t]) \in ProviderEvents /\ ProviderTypeOK'
        BY <1>2, NextEventTyped DEF ForwardText
    <2>2. <<event>> \in Seq(ResponseEvents) /\ Send(t, <<event>>)
        BY <1>2, <2>1, SentTyped DEF ForwardText, ProviderEvents
    <2>3. stream' \in [Turns -> Seq(ResponseEvents)]
        BY <2>2, SendType
    <2>4. QED
        BY <1>2, <2>1, <2>3 DEF ForwardText, NextEvent, TypeOK, clientVars
<1>3. CASE IgnoreEvent(t)
    <2>1. ProviderTypeOK'
        BY <1>3, NextEventTyped DEF IgnoreEvent
    <2>2. QED
        BY <1>3, <2>1 DEF IgnoreEvent, NextEvent, TypeOK, clientVars, driveVars
<1>4. CASE ForwardCall(t)
    <2> DEFINE event == Contract!Event("call", Head(events[t]).index, Head(events[t]).of)
    <2>1. Head(events[t]) \in ProviderEvents /\ ProviderTypeOK'
        BY <1>4, NextEventTyped DEF ForwardCall
    <2>2. <<event>> \in Seq(ResponseEvents) /\ Send(t, <<event>>)
        BY <1>4, <2>1, SentTyped DEF ForwardCall, ProviderEvents
    <2>3. stream' \in [Turns -> Seq(ResponseEvents)]
        BY <2>2, SendType
    <2>4. QED
        BY <1>4, <2>1, <2>3 DEF ForwardCall, NextEvent, TypeOK, clientVars
<1>5. CASE FinishStream(t)
    <2> DEFINE event == Contract!Event(Head(events[t]).kind, 0, Head(events[t]).of)
    <2>1. /\ Head(events[t]) \in ProviderEvents /\ ProviderTypeOK'
          /\ Head(events[t]).kind \in {"done", "error"}
        BY <1>5, NextEventTyped DEF FinishStream, NextEvent
    <2>2. <<event>> \in Seq(ResponseEvents) /\ Send(t, <<event>>)
        BY <1>5, <2>1, SentTyped DEF FinishStream, ProviderEvents
    <2>3. stream' \in [Turns -> Seq(ResponseEvents)]
        BY <2>2, SendType
    <2>4. QED
        BY <1>5, <2>1, <2>3 DEF FinishStream, NextEvent, TypeOK, clientVars
<1>6. QED
    BY <1>1, <1>2, <1>3, <1>4, <1>5 DEF DriveStep

LEMMA SendTurnTypes ==
    ASSUME TypeOK, NEW t \in Turns, NEW kind \in {"query", "results", "resume"}, NEW b \in Backends,
           SendTurn(t, kind, b)
    PROVE  TypeOK'
<1>1. CallsMade \subseteq Turns \X (Calls \cup {0})
    <2>1. ASSUME NEW n \in 1..Len(history)
          PROVE  <<history[n].turn, history[n].index>> \in Turns \X (Calls \cup {0})
        <3>1. history[n] \in HistoryParts
            BY DEF TypeOK
        <3>2. QED
            BY <3>1 DEF HistoryParts
    <2>2. QED
        BY <2>1 DEF CallsMade
<1>2. ProviderTypeOK'
    BY DEF SendTurn, TypeOK, ProviderTypeOK, Nobody
<1>3. answered' \subseteq Turns \X (Calls \cup {0}) /\ asked_by_user' \subseteq Turns
    BY <1>1 DEF SendTurn, TypeOK
<1>4. QED
    BY <1>2, <1>3 DEF SendTurn, TypeOK

LEMMA EndTurnTypes ==
    ASSUME TypeOK, NEW t \in Turns, NEW how \in {"done", "error", "stopped"}, EndTurn(t, how)
    PROVE  /\ outcome' \in [Turns -> {"unsent", "open", "done", "error", "stopped"}]
           /\ stream' \in [Turns -> Seq(ResponseEvents)] /\ read' \in Nat
           /\ drive' \in [Turns -> {"none", "called", "streaming", "ended"}]
           /\ started_text' \in [Turns -> BOOLEAN]
<1>1. <<>> \in Seq(ResponseEvents)
    OBVIOUS
<1>2. QED
    BY <1>1 DEF TypeOK, EndTurn

LEMMA ApplyTypes ==
    ASSUME TypeOK, NEW t \in Turns, ApplyEvent(t)
    PROVE  TypeOK'
<1> DEFINE event == stream[t][read + 1]
<1>1. event \in ResponseEvents
    <2>1. read + 1 \in 1..Len(stream[t]) /\ stream[t] \in Seq(ResponseEvents)
        BY DEF TypeOK, ApplyEvent, Unread
    <2>2. QED
        BY <2>1
<1>2. history' \in Seq(HistoryParts)
    <2>1. Part("text", t, 0) \in HistoryParts /\ Part("call", t, event.message) \in HistoryParts
        BY <1>1 DEF Part, HistoryParts, ResponseEvents
    <2>2. QED
        BY <2>1 DEF ApplyEvent, TypeOK
<1>3. /\ outcome' \in [Turns -> {"unsent", "open", "done", "error", "stopped"}]
      /\ stream' \in [Turns -> Seq(ResponseEvents)] /\ read' \in Nat
      /\ drive' \in [Turns -> {"none", "called", "streaming", "ended"}]
      /\ started_text' \in [Turns -> BOOLEAN]
    <2>1. CASE event.kind \in {"done", "error"}
        <3>1. EndTurn(t, event.kind)
            BY <2>1 DEF ApplyEvent
        <3>2. CASE event.kind = "done"
            BY <3>1, <3>2, EndTurnTypes
        <3>3. CASE event.kind = "error"
            BY <3>1, <3>3, EndTurnTypes
        <3>4. QED
            BY <2>1, <3>2, <3>3
    <2>2. CASE event.kind \notin {"done", "error"}
        BY <2>2 DEF ApplyEvent, TypeOK, driveVars
    <2>3. QED
        BY <2>1, <2>2
<1>4. token' \in Turns \cup {Nobody} /\ has_task' \in BOOLEAN
    BY DEF ApplyEvent, TypeOK, ProviderTypeOK
<1>5. ProviderTypeOK'
    BY DEF ApplyEvent, TypeOK, ProviderTypeOK, providerVars
<1>6. UNCHANGED <<turns, answered, asked_by_user, named>>
    BY DEF ApplyEvent
<1>7. QED
    BY <1>2, <1>3, <1>4, <1>5, <1>6 DEF TypeOK

\* The state of the engine and of its client stays of its type, whatever the
\* models and the agents send and whenever a turn is stopped.
THEOREM TypeCorrect == Spec => []TypeOK
<1>1. TypeOK /\ [Next]_vars => TypeOK'
    <2> SUFFICES ASSUME TypeOK, [Next]_vars PROVE TypeOK'
        OBVIOUS
    <2>1. CASE ProviderNext /\ UNCHANGED <<clientVars, driveVars>>
        <3>1. ProviderTypeOK'
            BY <2>1, ProviderTypes DEF TypeOK
        <3>2. QED
            BY <2>1, <3>1 DEF TypeOK, clientVars, driveVars
    <2>2. ASSUME NEW t \in Turns, DriveStep(t) PROVE TypeOK'
        BY <2>2, DriveTypes
    <2>3. ASSUME NEW t \in Turns, StopTurn(t) PROVE TypeOK'
        <3>1. EndTurn(t, "stopped")
            BY <2>3 DEF StopTurn
        <3>2. ProviderTypeOK'
            BY <2>3 DEF StopTurn, TypeOK, ProviderTypeOK, providerVars
        <3>3. QED
            BY <2>3, <3>1, <3>2, EndTurnTypes DEF StopTurn, TypeOK
    <2>4. ASSUME NEW t \in Turns, ClientStep(t) PROVE TypeOK'
        BY <2>3, <2>4, SendTurnTypes, ApplyTypes DEF ClientStep
    <2>5. CASE UNCHANGED vars
        BY <2>5 DEF vars, providerVars, clientVars, driveVars, TypeOK, ProviderTypeOK
    <2>6. QED
        BY <2>1, <2>2, <2>4, <2>5 DEF Next
<1>2. QED
    BY TypeInit, <1>1, PTL DEF Spec

-----------------------------------------------------------------------------
(* Whose answer is read.  The lock of a slot keeps at most one prompt out:  *)
(* whoever takes it finds a session that owes nothing, so every line up to  *)
(* the answer is for the turn that holds it.                                *)

Holding == {"opening", "prompting", "answering"}

Quiet(session) == session.prompts = <<>> /\ session.lines = <<>>

\* A turn's prompt is out: until it is answered nothing else is, and the answer
\* is the last line.
InDialogue(session, t) ==
    /\ session.prompts = <<>> \/ session.prompts = <<[id |-> session.next_id - 1, turn |-> t]>>
    /\ \A n \in 1..Len(session.lines) :
          /\ session.lines[n].turn = t /\ session.lines[n].id = session.next_id - 1
          /\ session.lines[n].kind \in {"result", "error"} =>
                n = Len(session.lines) /\ session.prompts = <<>>

SlotRight(slot, place) ==
    IF place = "answering" THEN InDialogue(slot.session, slot.holder) ELSE Quiet(slot.session)

HolderPlace(slot) == IF slot.holder = Nobody THEN "none" ELSE provider[slot.holder]

LockInv ==
    /\ \A c \in Turns : slots[c].holder # Nobody =>
          conversation[slots[c].holder] = c /\ provider[slots[c].holder] \in Holding
    /\ \A t \in Turns : provider[t] \in Holding => Slot(t).holder = t
    /\ \A c \in Turns : SlotRight(slots[c], HolderPlace(slots[c]))

\* A provider starts when its drive does, and a drive when its turn is sent.
Started ==
    /\ \A t \in Turns : t > turns => drive[t] = "none"
    /\ \A t \in Turns : drive[t] \in {"none", "called"} => provider[t] = "none"

Owned ==
    /\ \A t \in Turns : \A n \in 1..Len(events[t]) : events[t][n].of = t
    /\ \A t \in Turns : \A n \in 1..Len(stream[t]) : stream[t][n].of = t

AnswerInv == TypeOK /\ LockInv /\ Started /\ Owned

\* A turn moves on with its slot: whether it takes, keeps or releases it, the
\* other slots and the other turns are not concerned.
LEMMA LockMoves ==
    ASSUME ProviderTypeOK, LockInv, NEW t \in Turns, NEW place \in Places, NEW slot \in SlotType,
           SetSlot(t, slot), Goto(t, place), conversation' = conversation,
           Slot(t).holder \in {Nobody, t},
           \/ slot.holder = t /\ place \in Holding
           \/ slot.holder = Nobody /\ place \notin Holding,
           SlotRight(slot, place)
    PROVE  LockInv'
<1>1. /\ conversation \in [Turns -> Turns] /\ conversation[t] \in Turns
      /\ provider \in [Turns -> Places] /\ slots \in [Turns -> SlotType] /\ Nobody \notin Turns
    BY ProviderAssumption DEF ProviderTypeOK, SlotType, Nobody
<1>2. /\ slots'[conversation[t]] = slot /\ provider'[t] = place
      /\ \A c \in Turns : c # conversation[t] => slots'[c] = slots[c]
      /\ \A u \in Turns : u # t => provider'[u] = provider[u]
    BY <1>1 DEF SetSlot, Goto
<1>3. \A c \in Turns : c # conversation[t] => slots[c].holder # t
    BY <1>1 DEF LockInv
<1>4. \A u \in Turns : u # t /\ provider[u] \in Holding => conversation[u] # conversation[t]
    BY <1>1 DEF LockInv, Slot
<1>5. ASSUME NEW c \in Turns, slots'[c].holder # Nobody
      PROVE  conversation'[slots'[c].holder] = c /\ provider'[slots'[c].holder] \in Holding
    <2>1. CASE c = conversation[t]
        BY <1>1, <1>2, <1>5, <2>1
    <2>2. CASE c # conversation[t]
        <3>1. slots[c].holder \in Turns
            BY <1>1, <1>2, <1>5, <2>2 DEF SlotType
        <3>2. QED
            BY <1>2, <1>3, <1>5, <2>2, <3>1 DEF LockInv
    <2>3. QED
        BY <2>1, <2>2
<1>6. ASSUME NEW u \in Turns, provider'[u] \in Holding
      PROVE  slots'[conversation'[u]].holder = u
    <2>1. CASE u = t
        BY <1>1, <1>2, <1>6, <2>1
    <2>2. CASE u # t
        BY <1>1, <1>2, <1>4, <1>6, <2>2 DEF LockInv, Slot
    <2>3. QED
        BY <2>1, <2>2
<1>7. ASSUME NEW c \in Turns
      PROVE  SlotRight(slots'[c], HolderPlace(slots[c])')
    <2>1. CASE c = conversation[t]
        <3>1. CASE slot.holder = t
            BY <1>1, <1>2, <2>1, <3>1 DEF HolderPlace
        <3>2. CASE slot.holder = Nobody
            <4>1. place \notin Holding /\ place # "answering"
                BY <1>1, <3>2 DEF Holding
            <4>2. HolderPlace(slots[c])' = "none"
                BY <1>2, <2>1, <3>2 DEF HolderPlace
            <4>3. QED
                BY <1>2, <2>1, <4>1, <4>2 DEF SlotRight
        <3>3. QED
            BY <3>1, <3>2
    <2>2. CASE c # conversation[t]
        <3>1. SlotRight(slots[c], HolderPlace(slots[c])) /\ slots'[c] = slots[c]
            BY <1>2, <2>2 DEF LockInv
        <3>2. HolderPlace(slots[c])' = HolderPlace(slots[c])
            <4>1. CASE slots[c].holder = Nobody
                BY <3>1, <4>1 DEF HolderPlace
            <4>2. CASE slots[c].holder # Nobody
                <5>1. slots[c].holder \in Turns
                    BY <1>1, <4>2 DEF SlotType
                <5>2. QED
                    BY <1>2, <1>3, <2>2, <3>1, <4>2, <5>1 DEF HolderPlace
            <4>3. QED
                BY <4>1, <4>2
        <3>3. QED
            BY <3>1, <3>2
    <2>3. QED
        BY <2>1, <2>2
<1>8. QED
    BY <1>5, <1>6, <1>7 DEF LockInv, Slot

\* The lock is nobody else's while a turn is at its session.
LEMMA HolderIsTurn ==
    ASSUME ProviderTypeOK, LockInv, NEW t \in Turns, provider[t] \in Holding
    PROVE  /\ Slot(t).holder = t /\ t # Nobody
           /\ SlotRight(Slot(t), provider[t])
<1>1. Slot(t).holder = t /\ t # Nobody /\ conversation[t] \in Turns
    BY ProviderAssumption DEF LockInv, Nobody, ProviderTypeOK
<1>2. QED
    BY <1>1 DEF LockInv, HolderPlace, Slot

LEMMA EmitOwned ==
    ASSUME ProviderTypeOK, NEW t \in Turns, NEW kind, NEW index, Emit(t, kind, index, t),
           \A u \in Turns : \A n \in 1..Len(events[u]) : events[u][n].of = u
    PROVE  \A u \in Turns : \A n \in 1..Len(events'[u]) : events'[u][n].of = u
<1>1. events \in [Turns -> Seq(ProviderEvents)] /\ events[t] \in Seq(ProviderEvents)
    BY DEF ProviderTypeOK
<1>2. events'[t] = Append(events[t], ProviderEvent(kind, index, t))
    BY <1>1 DEF Emit
<1>3. ProviderEvent(kind, index, t).of = t
    BY DEF ProviderEvent
<1>4. \A n \in 1..Len(events'[t]) : events'[t][n].of = t
    BY <1>1, <1>2, <1>3
<1>5. \A u \in Turns : u # t => events'[u] = events[u]
    BY <1>1 DEF Emit
<1>6. QED
    BY <1>4, <1>5

LEMMA TailOfOne ==
    ASSUME NEW S, NEW s \in Seq(S), Len(s) = 1
    PROVE  Tail(s) = <<>>
<1>1. Tail(s) \in Seq(S) /\ Len(Tail(s)) = 0
    OBVIOUS
<1>2. \A seq \in Seq(S) : Len(seq) = 0 => seq = <<>>
    OBVIOUS
<1>3. QED
    BY <1>1, <1>2

\* A line that a turn reads is its own, and an answer is the last of them.
LEMMA LineOwned ==
    ASSUME ProviderTypeOK, LockInv, NEW t \in Turns, ReadLine(t)
    PROVE  LET line == Head(Slot(t).session.lines)
               rest == [Slot(t) EXCEPT !.session.lines = Tail(@)]
           IN  /\ line.turn = t /\ line.id = Slot(t).session.next_id - 1
               /\ rest.holder = t /\ InDialogue(rest.session, t)
               /\ line.kind \in {"result", "error"} => Quiet(rest.session)
<1> DEFINE session == Slot(t).session
           line == Head(session.lines)
           rest == [Slot(t) EXCEPT !.session.lines = Tail(@)]
<1>1. provider[t] = "answering" /\ session.lines # <<>>
    BY DEF ReadLine
<1>2. Slot(t).holder = t /\ InDialogue(session, t)
    BY <1>1, HolderIsTurn DEF Holding, SlotRight
<1>3. session.lines \in Seq(Lines) /\ session \in Sessions /\ Slot(t) \in SlotType
    BY SlotTyped
<1>4. line = session.lines[1] /\ 1 \in 1..Len(session.lines)
    BY <1>1, <1>3
<1>5. /\ line.turn = t /\ line.id = session.next_id - 1
      /\ line.kind \in {"result", "error"} => 1 = Len(session.lines) /\ session.prompts = <<>>
    BY <1>2, <1>4 DEF InDialogue
<1>6. /\ rest.holder = t /\ rest.session.lines = Tail(session.lines)
      /\ rest.session.prompts = session.prompts /\ rest.session.next_id = session.next_id
    BY <1>2, <1>3 DEF SlotType, Sessions
<1>7. /\ Len(Tail(session.lines)) = Len(session.lines) - 1
      /\ \A n \in 1..Len(Tail(session.lines)) : Tail(session.lines)[n] = session.lines[n + 1]
      /\ Tail(session.lines) \in Seq(Lines)
    BY <1>1, <1>3
<1>8. InDialogue(rest.session, t)
    <2>1. ASSUME NEW n \in 1..Len(Tail(session.lines))
          PROVE  /\ Tail(session.lines)[n].turn = t /\ Tail(session.lines)[n].id = session.next_id - 1
                 /\ Tail(session.lines)[n].kind \in {"result", "error"} =>
                       n = Len(Tail(session.lines)) /\ session.prompts = <<>>
        <3>1. n + 1 \in 1..Len(session.lines)
            BY <1>3, <1>7
        <3>2. QED
            BY <1>2, <1>3, <1>7, <3>1 DEF InDialogue
    <2>2. QED
        BY <1>2, <1>6, <2>1 DEF InDialogue
<1>9. line.kind \in {"result", "error"} => Quiet(rest.session)
    <2>1. Len(session.lines) = 1 => Tail(session.lines) = <<>>
        BY <1>3, TailOfOne
    <2>2. QED
        BY <1>5, <1>6, <2>1 DEF Quiet
<1>10. QED
    BY <1>5, <1>6, <1>8, <1>9

LEMMA ReadLineLock ==
    ASSUME ProviderTypeOK, LockInv, NEW t \in Turns, ReadLine(t)
    PROVE  LockInv'
<1> DEFINE line == Head(Slot(t).session.lines)
           rest == [Slot(t) EXCEPT !.session.lines = Tail(@)]
<1>1. provider[t] = "answering" /\ conversation' = conversation /\ Slot(t).session.lines # <<>>
    BY DEF ReadLine, PromptFails
<1>2. Slot(t).holder = t
    BY <1>1, HolderIsTurn DEF Holding
<1>3. rest \in SlotType /\ Release(rest) \in SlotType /\ Dropped(Slot(t)) \in SlotType
    BY <1>1, SlotValues
<1>4. rest.holder = t /\ InDialogue(rest.session, t) /\ (line.kind \in {"result", "error"} => Quiet(rest.session))
    BY LineOwned
<1>5. CASE SetSlot(t, rest) /\ provider' = provider
    <2>1. Goto(t, "answering") /\ "answering" \in Places
        BY <1>1, <1>5 DEF Goto, ProviderTypeOK, Places
    <2>2. SlotRight(rest, "answering")
        BY <1>4 DEF SlotRight
    <2>3. QED
        BY <1>1, <1>2, <1>3, <1>4, <1>5, <2>1, <2>2, LockMoves DEF Holding
<1>6. CASE SetSlot(t, Release(rest)) /\ Goto(t, "ended") /\ line.kind = "result"
    <2>1. Release(rest).holder = Nobody /\ Release(rest).session = rest.session
        BY <1>3 DEF Release, SlotType
    <2>2. SlotRight(Release(rest), "ended")
        BY <1>4, <1>6, <2>1 DEF SlotRight
    <2>3. QED
        BY <1>1, <1>2, <1>3, <1>6, <2>1, <2>2, LockMoves DEF Holding, Places
<1>7. CASE SetSlot(t, Dropped(Slot(t))) /\ Goto(t, "ended")
    <2>1. Dropped(Slot(t)).holder = Nobody /\ Dropped(Slot(t)).session = NoSession
        BY SlotTyped DEF Dropped, Release, SlotType
    <2>2. SlotRight(Dropped(Slot(t)), "ended")
        BY <2>1 DEF SlotRight, Quiet, NoSession
    <2>3. QED
        BY <1>1, <1>2, <1>3, <1>7, <2>1, <2>2, LockMoves DEF Holding, Places
<1>8. QED
    BY <1>5, <1>6, <1>7 DEF ReadLine, PromptFails

\* Every step of a turn with its agent.
LEMMA AcpLock ==
    ASSUME ProviderTypeOK, LockInv, NEW t \in Turns, AcpStep(t)
    PROVE  LockInv'
<1>1. conversation' = conversation
    BY DEF AcpStep, LockSlot, OpenSession, OpenFails, Prompt, PipeBreaks, ReadLine, PromptFails
<1>2. Slot(t) \in SlotType /\ conversation[t] \in Turns /\ t # Nobody
    BY SlotTyped, ProviderAssumption DEF Nobody
<1>3. CASE LockSlot(t)
    <2> DEFINE slot == [Slot(t) EXCEPT !.holder = t]
    <2>1. Quiet(Slot(t).session)
        <3>1. SlotRight(Slot(t), "none")
            BY <1>2, <1>3 DEF LockSlot, LockInv, HolderPlace, Slot
        <3>2. QED
            BY <3>1 DEF SlotRight
    <2>2. slot.holder = t /\ slot.session = Slot(t).session /\ slot \in SlotType
        BY <1>2, SlotValues DEF SlotType
    <2>3. PICK place \in {"opening", "prompting"} : Goto(t, place)
        BY <1>3 DEF LockSlot
    <2>4. SlotRight(slot, place)
        BY <2>1, <2>2, <2>3 DEF SlotRight
    <2>5. QED
        BY <1>1, <1>3, <2>2, <2>3, <2>4, LockMoves DEF LockSlot, Holding, Places
<1>4. CASE OpenSession(t)
    <2> DEFINE slot == [Slot(t) EXCEPT !.session = NewSession]
    <2>1. Slot(t).holder = t
        BY <1>4, HolderIsTurn DEF OpenSession, Holding
    <2>2. slot.holder = t /\ slot.session = NewSession /\ slot \in SlotType
        BY <1>2, <2>1, SlotValues DEF SlotType
    <2>3. SlotRight(slot, "prompting")
        BY <2>2 DEF SlotRight, Quiet, NewSession, NoSession
    <2>4. QED
        BY <1>1, <1>4, <2>1, <2>2, <2>3, LockMoves DEF OpenSession, Holding, Places
<1>5. CASE OpenFails(t)
    <2>1. Slot(t).holder = t /\ Quiet(Slot(t).session)
        BY <1>5, HolderIsTurn DEF OpenFails, Holding, SlotRight
    <2>2. Release(Slot(t)).holder = Nobody /\ Release(Slot(t)).session = Slot(t).session
        BY <1>2 DEF Release, SlotType
    <2>3. SlotRight(Release(Slot(t)), "ended")
        BY <2>1, <2>2 DEF SlotRight
    <2>4. QED
        BY <1>1, <1>5, <2>1, <2>2, <2>3, SlotValues, LockMoves DEF OpenFails, Holding, Places
<1>6. CASE Prompt(t)
    <2> DEFINE session == WithPrompt(Slot(t).session, t)
    <2>1. Slot(t).holder = t /\ Quiet(Slot(t).session)
        BY <1>6, HolderIsTurn DEF Prompt, Holding, SlotRight
    <2>2. Prompted(Slot(t), t).holder = t /\ Prompted(Slot(t), t).session = session
        BY <1>2, <2>1 DEF Prompted, SlotType
    <2>3. /\ session.prompts = <<[id |-> Slot(t).session.next_id, turn |-> t]>>
          /\ session.lines = <<>> /\ session.next_id = Slot(t).session.next_id + 1
        BY <2>1, SlotTyped DEF WithPrompt, Quiet, Sessions
    <2>4. Slot(t).session.next_id = session.next_id - 1
        BY <2>3, SlotTyped
    <2>5. SlotRight(Prompted(Slot(t), t), "answering")
        BY <2>2, <2>3, <2>4 DEF SlotRight, InDialogue
    <2>6. QED
        BY <1>1, <1>6, <2>1, <2>2, <2>5, SlotValues, LockMoves DEF Prompt, Holding, Places
<1>7. CASE PipeBreaks(t)
    <2>1. Slot(t).holder = t
        BY <1>7, HolderIsTurn DEF PipeBreaks, Holding
    <2>2. Dropped(Slot(t)).holder = Nobody /\ Dropped(Slot(t)).session = NoSession
        BY <1>2 DEF Dropped, Release, SlotType
    <2>3. SlotRight(Dropped(Slot(t)), "ended")
        BY <2>2 DEF SlotRight, Quiet, NoSession
    <2>4. QED
        BY <1>1, <1>7, <2>1, <2>2, <2>3, SlotValues, LockMoves DEF PipeBreaks, PromptFails, Holding, Places
<1>8. QED
    BY <1>3, <1>4, <1>5, <1>6, <1>7, ReadLineLock DEF AcpStep

\* What the agent prints while its prompt is out.
LEMMA AgentLock ==
    ASSUME ProviderTypeOK, LockInv, NEW c \in Turns, AgentStep(c)
    PROVE  LockInv'
<1>1. slots[c] \in SlotType /\ slots[c].session \in Sessions /\ slots \in [Turns -> SlotType]
    BY DEF ProviderTypeOK, SlotType
<1>2. UNCHANGED <<conversation, provider>>
    BY DEF AgentStep, AgentSays, AgentAnswers, AgentExits
<1>3. \A session : slots' = [slots EXCEPT ![c].session = session] =>
          /\ slots'[c].holder = slots[c].holder /\ slots'[c].session = session
          /\ \A d \in Turns : slots'[d].holder = slots[d].holder
          /\ \A d \in Turns : d # c => slots'[d] = slots[d]
    BY <1>1 DEF SlotType
<1>4. ASSUME NEW session, slots' = [slots EXCEPT ![c].session = session],
             SlotRight(slots'[c], HolderPlace(slots[c]))
      PROVE  LockInv'
    <2>1. \A d \in Turns : HolderPlace(slots[d])' = HolderPlace(slots[d])
        BY <1>2, <1>3, <1>4 DEF HolderPlace
    <2>2. \A d \in Turns : SlotRight(slots'[d], HolderPlace(slots[d])')
        BY <1>3, <1>4, <2>1 DEF LockInv
    <2>3. conversation \in [Turns -> Turns]
        BY DEF ProviderTypeOK
    <2>4. QED
        BY <1>2, <1>3, <1>4, <2>2, <2>3 DEF LockInv, Slot
<1>5. CASE AgentExits(c)
    <2>1. slots' = [slots EXCEPT ![c].session = [slots[c].session EXCEPT !.running = FALSE]]
        BY <1>1, <1>5 DEF AgentExits, SlotType
    <2>2. /\ slots'[c].session.prompts = slots[c].session.prompts
          /\ slots'[c].session.lines = slots[c].session.lines
          /\ slots'[c].session.next_id = slots[c].session.next_id
        BY <1>1, <1>3, <2>1 DEF Sessions
    <2>3. SlotRight(slots'[c], HolderPlace(slots[c]))
        BY <1>3, <2>1, <2>2 DEF LockInv, SlotRight, InDialogue, Quiet
    <2>4. QED
        BY <1>4, <2>1, <2>3
<1>6. ASSUME NEW kind \in {"text", "other", "result", "error"}, OutputLine(c, kind)
      PROVE  LockInv'
    <2> DEFINE session == slots[c].session
               next == WithLine(session, kind)
               t == slots[c].holder
               line == [kind |-> kind, id |-> session.next_id - 1, turn |-> t]
    <2>1. session.prompts # <<>> /\ slots' = [slots EXCEPT ![c].session = next]
        BY <1>6 DEF OutputLine
    <2>2. HolderPlace(slots[c]) = "answering" /\ InDialogue(session, t)
        BY <2>1 DEF LockInv, SlotRight, Quiet
    <2>3. session.prompts = <<[id |-> session.next_id - 1, turn |-> t]>>
        BY <2>1, <2>2 DEF InDialogue
    <2>4. Head(session.prompts) = [id |-> session.next_id - 1, turn |-> t] /\ Tail(session.prompts) = <<>>
        BY <2>3
    <2>5. next = [session EXCEPT !.lines = Append(@, line),
                                 !.prompts = IF kind \in {"result", "error"} THEN Tail(@) ELSE @]
        <3>1. Head(session.prompts).id = session.next_id - 1 /\ Head(session.prompts).turn = t
            BY <2>4
        <3>2. [kind |-> kind, id |-> Head(session.prompts).id, turn |-> Head(session.prompts).turn] = line
            BY <3>1
        <3>3. QED
            BY <3>2 DEF WithLine
    <2>6. /\ next.next_id = session.next_id /\ next.lines = Append(session.lines, line)
          /\ next.prompts = IF kind \in {"result", "error"} THEN <<>> ELSE session.prompts
        BY <1>1, <2>4, <2>5 DEF Sessions
    <2>7. \A n \in 1..Len(session.lines) :
              /\ session.lines[n].turn = t /\ session.lines[n].id = session.next_id - 1
              /\ session.lines[n].kind \notin {"result", "error"}
        BY <2>1, <2>2 DEF InDialogue
    <2>8. ASSUME NEW n \in 1..Len(next.lines)
          PROVE  /\ next.lines[n].turn = t /\ next.lines[n].id = session.next_id - 1
                 /\ next.lines[n].kind \in {"result", "error"} => n = Len(next.lines) /\ next.prompts = <<>>
        <3>1. session.lines \in Seq(Lines)
            BY <1>1 DEF Sessions
        <3>2. Len(next.lines) = Len(session.lines) + 1
            BY <2>6, <3>1
        <3>3. CASE n = Len(session.lines) + 1
            <4>1. next.lines[n] = line
                BY <2>6, <3>1, <3>3
            <4>2. QED
                BY <2>6, <3>2, <3>3, <4>1
        <3>4. CASE n # Len(session.lines) + 1
            <4>1. n \in 1..Len(session.lines) /\ next.lines[n] = session.lines[n]
                BY <2>6, <3>1, <3>2, <3>4
            <4>2. QED
                BY <2>7, <4>1
        <3>5. QED
            BY <3>3, <3>4
    <2>9. InDialogue(next, t)
        BY <2>3, <2>6, <2>8 DEF InDialogue
    <2> HIDE DEF next
    <2>10. slots'[c].session = next /\ slots'[c].holder = t
        BY <1>3, <2>1
    <2>11. SlotRight(slots'[c], HolderPlace(slots[c]))
        BY <2>2, <2>9, <2>10 DEF SlotRight
    <2>12. QED
        BY <1>4, <2>1, <2>11
<1>7. QED
    BY <1>5, <1>6 DEF AgentStep, AgentSays, AgentAnswers

LEMMA ProviderOwned ==
    ASSUME ProviderTypeOK, LockInv, ProviderNext,
           \A u \in Turns : \A n \in 1..Len(events[u]) : events[u][n].of = u
    PROVE  \A u \in Turns : \A n \in 1..Len(events'[u]) : events'[u][n].of = u
<1>1. PICK t \in Turns : HttpStep(t) \/ AcpStep(t) \/ AgentStep(t)
    BY DEF ProviderNext, ProviderStep, ModelStep, HttpStep, AcpStep
<1>2. ReadLine(t) => Head(Slot(t).session.lines).turn = t
    BY LineOwned
<1>3. CASE HttpStep(t)
    <2>1. events' = events \/ \E kind, index : Emit(t, kind, index, t)
        BY <1>3 DEF HttpStep, ModelSays, ModelStartsCall, ModelEndsCall, BlockStops, FlushCall, SendCall,
                    ModelEnds, StartFlush, ModelDone, ModelFails
    <2>2. QED
        BY <2>1, EmitOwned
<1>4. CASE AcpStep(t)
    <2>1. events' = events \/ \E kind, index : Emit(t, kind, index, t)
        BY <1>2, <1>4 DEF AcpStep, LockSlot, OpenSession, OpenFails, Prompt, PipeBreaks, ReadLine, PromptFails
    <2>2. QED
        BY <2>1, EmitOwned
<1>5. CASE AgentStep(t)
    BY <1>5 DEF AgentStep, AgentSays, AgentAnswers, AgentExits
<1>6. QED
    BY <1>1, <1>3, <1>4, <1>5

LEMMA ProviderLock ==
    ASSUME ProviderTypeOK, LockInv, ProviderNext
    PROVE  LockInv'
<1>1. PICK t \in Turns : HttpStep(t) \/ AcpStep(t) \/ AgentStep(t)
    BY DEF ProviderNext, ProviderStep, ModelStep, HttpStep, AcpStep
<1>2. CASE HttpStep(t)
    <2>1. /\ UNCHANGED <<conversation, slots>>
          /\ \/ provider' = provider
             \/ /\ provider[t] \in {"reading", "flushing"}
                /\ \E p \in {"flushing", "ended"} : Goto(t, p)
        <3>1. CASE ModelEnds(t)
            <4>1. UNCHANGED <<conversation, slots>> /\ provider[t] \in {"reading", "flushing"}
                BY <3>1 DEF ModelEnds, StartFlush, ModelDone, ModelFails
            <4>2. Goto(t, "flushing") \/ Goto(t, "ended")
                BY <3>1 DEF ModelEnds, StartFlush, ModelDone, ModelFails
            <4>3. QED
                BY <4>1, <4>2
        <3>2. CASE ~ModelEnds(t)
            BY <1>2, <3>2 DEF HttpStep, ModelSays, ModelStartsCall, ModelEndsCall, BlockStops, FlushCall
        <3>3. QED
            BY <3>1, <3>2
    <2>2. provider \in [Turns -> Places] /\ slots \in [Turns -> SlotType]
        BY DEF ProviderTypeOK, SlotType
    <2>3. \A u \in Turns : provider[u] # provider'[u] =>
              provider[u] \notin Holding /\ provider'[u] \notin Holding
        BY <2>1, <2>2 DEF Goto, Holding
    <2>4. \A c \in Turns : slots[c].holder = Nobody \/ slots[c].holder \in Turns
        BY <2>2 DEF SlotType
    <2>5. \A c \in Turns : HolderPlace(slots[c])' = HolderPlace(slots[c])
        BY <2>1, <2>3, <2>4 DEF HolderPlace, LockInv
    <2>6. QED
        BY <2>1, <2>3, <2>4, <2>5 DEF LockInv, Slot
<1>3. QED
    BY <1>1, <1>2, AcpLock, AgentLock

\* A provider that has not been spawned does nothing.
LEMMA NoneStays ==
    ASSUME ProviderTypeOK, ProviderNext
    PROVE  \A u \in Turns : provider[u] = "none" => provider'[u] = "none"
<1>1. PICK t \in Turns : HttpStep(t) \/ AcpStep(t) \/ AgentStep(t)
    BY DEF ProviderNext, ProviderStep, ModelStep, HttpStep, AcpStep
<1>2. provider' = provider \/ (provider[t] # "none" /\ \E place : Goto(t, place))
    <2>1. CASE HttpStep(t)
        BY <2>1 DEF HttpStep, ModelSays, ModelStartsCall, ModelEndsCall, BlockStops, FlushCall,
                    ModelEnds, StartFlush, ModelDone, ModelFails
    <2>2. CASE AcpStep(t)
        BY <2>2 DEF AcpStep, LockSlot, OpenSession, OpenFails, Prompt, PipeBreaks, ReadLine, PromptFails
    <2>3. CASE AgentStep(t)
        BY <2>3 DEF AgentStep, AgentSays, AgentAnswers, AgentExits
    <2>4. QED
        BY <1>1, <2>1, <2>2, <2>3
<1>3. QED
    BY <1>2 DEF Goto, ProviderTypeOK

\* A turn that holds nothing changes nothing of the locks, wherever it goes and
\* whichever conversation it joins.
LEMMA LockUndisturbed ==
    ASSUME ProviderTypeOK, LockInv, NEW t \in Turns, slots' = slots, provider[t] \notin Holding,
           provider'[t] \notin Holding,
           \A u \in Turns : u # t => provider'[u] = provider[u] /\ conversation'[u] = conversation[u]
    PROVE  LockInv'
<1>1. \A c \in Turns : slots[c].holder = Nobody \/ slots[c].holder \in Turns
    BY DEF ProviderTypeOK
<1>2. \A c \in Turns : slots[c].holder # Nobody => slots[c].holder # t
    BY DEF LockInv
<1>3. \A c \in Turns : HolderPlace(slots[c])' = HolderPlace(slots[c])
    BY <1>1, <1>2 DEF HolderPlace
<1>4. QED
    BY <1>1, <1>2, <1>3 DEF LockInv, Slot

LEMMA SendOwned ==
    ASSUME TypeOK, NEW t \in Turns, NEW new \in Seq(ResponseEvents), Send(t, new),
           \A n \in 1..Len(new) : new[n].of = t,
           \A u \in Turns : \A n \in 1..Len(stream[u]) : stream[u][n].of = u
    PROVE  \A u \in Turns : \A n \in 1..Len(stream'[u]) : stream'[u][n].of = u
<1>1. stream \in [Turns -> Seq(ResponseEvents)] /\ stream[t] \in Seq(ResponseEvents)
    BY DEF TypeOK
<1>2. CASE stream' = [stream EXCEPT ![t] = @ \o new]
    <2>1. stream'[t] = stream[t] \o new /\ \A u \in Turns : u # t => stream'[u] = stream[u]
        BY <1>1, <1>2
    <2>2. ASSUME NEW n \in 1..Len(stream'[t]) PROVE stream'[t][n].of = t
        <3>1. CASE n \in 1..Len(stream[t])
            BY <1>1, <2>1, <3>1
        <3>2. CASE n \notin 1..Len(stream[t])
            <4>1. n - Len(stream[t]) \in 1..Len(new) /\ stream'[t][n] = new[n - Len(stream[t])]
                BY <1>1, <2>1, <3>2
            <4>2. QED
                BY <4>1
        <3>3. QED
            BY <3>1, <3>2
    <2>3. QED
        BY <2>1, <2>2
<1>3. QED
    BY <1>2 DEF Send

LEMMA DriveAnswers ==
    ASSUME AnswerInv, NEW t \in Turns, DriveStep(t)
    PROVE  LockInv' /\ Started' /\ Owned'
<1> USE DEF AnswerInv
<1>1. CASE OpenStream(t)
    <2>1. UNCHANGED <<conversation, slots, events, turns>> /\ drive[t] = "called" /\ provider[t] = "none"
        BY <1>1 DEF OpenStream, clientVars, Started
    <2>2. /\ provider'[t] \in {"reading", "waiting"} /\ drive'[t] = "streaming"
          /\ \A u \in Turns : u # t => provider'[u] = provider[u] /\ drive'[u] = drive[u]
        BY <1>1 DEF OpenStream, Goto, TypeOK, ProviderTypeOK
    <2>3. LockInv'
        <3>1. provider[t] \notin Holding /\ provider'[t] \notin Holding
            BY <2>1, <2>2 DEF Holding
        <3>2. QED
            BY <2>1, <2>2, <3>1, LockUndisturbed DEF TypeOK
    <2>4. Started'
        BY <2>1, <2>2 DEF Started
    <2>5. PICK new \in {<<Contract!InitEvent(t)>>, <<Contract!InitEvent(t), Contract!CreateTask(t)>>} :
              Send(t, new)
        BY <1>1 DEF OpenStream
    <2>6. Contract!InitEvent(t).of = t /\ Contract!CreateTask(t).of = t
        BY DEF Contract!InitEvent, Contract!CreateTask, Contract!Event
    <2>7. \A n \in 1..Len(new) : new[n].of = t
        BY <2>6
    <2>8. new \in Seq(ResponseEvents)
        BY SentTyped
    <2>9. Owned'
        BY <2>1, <2>5, <2>7, <2>8, SendOwned DEF Owned
    <2>10. QED
        BY <2>3, <2>4, <2>9
<1>2. ASSUME NEW kinds, NextEvent(t, kinds)
      PROVE  /\ LockInv' /\ Head(events[t]).of = t
             /\ \A u \in Turns : \A n \in 1..Len(events'[u]) : events'[u][n].of = u
             /\ drive' = drive \/ drive' = [drive EXCEPT ![t] = "ended"] => Started'
    <2>1. UNCHANGED <<conversation, provider, slots, turns>> /\ drive[t] = "streaming"
        BY <1>2 DEF NextEvent, clientVars
    <2>2. LockInv'
        BY <2>1 DEF LockInv, SlotRight, HolderPlace, Slot
    <2>3. events \in [Turns -> Seq(ProviderEvents)] /\ events[t] \in Seq(ProviderEvents) /\ events[t] # <<>>
        BY <1>2 DEF TypeOK, ProviderTypeOK, NextEvent
    <2>4. Head(events[t]).of = t
        BY <2>3 DEF Owned
    <2>5. events'[t] = Tail(events[t]) /\ \A u \in Turns : u # t => events'[u] = events[u]
        BY <1>2, <2>3 DEF NextEvent
    <2>6. \A n \in 1..Len(events'[t]) : n + 1 \in 1..Len(events[t]) /\ events'[t][n] = events[t][n + 1]
        BY <2>3, <2>5
    <2>7. ASSUME NEW u \in Turns, NEW n \in 1..Len(events'[u]) PROVE events'[u][n].of = u
        <3>1. CASE u = t
            BY <2>6, <3>1 DEF Owned
        <3>2. CASE u # t
            BY <2>5, <3>2 DEF Owned
        <3>3. QED
            BY <3>1, <3>2
    <2>8. drive' = drive \/ drive' = [drive EXCEPT ![t] = "ended"] => Started'
        BY <2>1 DEF Started, TypeOK
    <2>9. QED
        BY <2>2, <2>4, <2>7, <2>8
<1>3. ASSUME NEW kinds, NEW kind \in {"add", "append", "call", "done", "error"}, NEW index \in Calls \cup {0},
             NextEvent(t, kinds), Send(t, <<Contract!Event(kind, index, Head(events[t]).of)>>)
      PROVE  Owned'
    <2>1. Head(events[t]).of = t /\ \A u \in Turns : \A n \in 1..Len(events'[u]) : events'[u][n].of = u
        BY <1>2, <1>3
    <2> DEFINE new == <<Contract!Event(kind, index, t)>>
    <2>2. Send(t, new) /\ new \in Seq(ResponseEvents)
        BY <1>3, <2>1, SentTyped
    <2>3. \A n \in 1..Len(new) : new[n].of = t
        BY DEF Contract!Event
    <2>4. \A u \in Turns : \A n \in 1..Len(stream'[u]) : stream'[u][n].of = u
        BY <2>2, <2>3, SendOwned DEF Owned
    <2>5. QED
        BY <2>1, <2>4 DEF Owned
<1>4. CASE ForwardText(t)
    <2>1. NextEvent(t, {"text"}) /\ drive' = drive
        BY <1>4 DEF ForwardText
    <2>2. PICK kind \in {"add", "append"} : Send(t, <<Contract!Event(kind, 0, Head(events[t]).of)>>)
        BY <1>4 DEF ForwardText
    <2>3. QED
        BY <1>2, <1>3, <2>1, <2>2
<1>5. CASE IgnoreEvent(t)
    <2>1. NextEvent(t, {"empty", "call"}) /\ UNCHANGED <<drive, stream>>
        BY <1>5 DEF IgnoreEvent, driveVars
    <2>2. QED
        BY <1>2, <2>1 DEF Owned
<1>6. CASE ForwardCall(t)
    <2>1. NextEvent(t, {"call"}) /\ drive' = drive
        BY <1>6 DEF ForwardCall
    <2>2. Head(events[t]).index \in Calls \cup {0}
        BY <2>1, NextEventTyped DEF ProviderEvents
    <2>3. Send(t, <<Contract!Event("call", Head(events[t]).index, Head(events[t]).of)>>)
        BY <1>6 DEF ForwardCall
    <2>4. QED
        BY <1>2, <1>3, <2>1, <2>2, <2>3
<1>7. CASE FinishStream(t)
    <2>1. NextEvent(t, {"done", "error"}) /\ drive' = [drive EXCEPT ![t] = "ended"]
        BY <1>7 DEF FinishStream
    <2>2. Head(events[t]).kind \in {"done", "error"}
        BY <2>1 DEF NextEvent
    <2>3. Send(t, <<Contract!Event(Head(events[t]).kind, 0, Head(events[t]).of)>>)
        BY <1>7 DEF FinishStream
    <2>4. QED
        BY <1>2, <1>3, <2>1, <2>2, <2>3
<1>8. QED
    BY <1>1, <1>4, <1>5, <1>6, <1>7 DEF DriveStep

LEMMA ClientAnswers ==
    ASSUME AnswerInv, NEW t \in Turns, ClientStep(t)
    PROVE  LockInv' /\ Started' /\ Owned'
<1> USE DEF AnswerInv
<1>1. ASSUME NEW kind \in {"query", "results", "resume"}, NEW b \in Backends, SendTurn(t, kind, b)
      PROVE  LockInv' /\ Started' /\ Owned'
    <2>1. /\ UNCHANGED <<provider, events, slots, stream>> /\ t = turns + 1 /\ turns' = t
          /\ drive'[t] = "called" /\ \A u \in Turns : u # t => drive'[u] = drive[u]
          /\ \A u \in Turns : u # t => conversation'[u] = conversation[u]
        BY <1>1 DEF SendTurn, TypeOK, ProviderTypeOK
    <2>2. turns \in Nat /\ t \in Nat /\ Turns \subseteq Nat
        BY ProviderAssumption DEF TypeOK
    <2>3. provider[t] = "none"
        BY <2>1, <2>2 DEF Started
    <2>4. LockInv'
        <3>1. provider[t] \notin Holding /\ provider'[t] \notin Holding
            BY <2>1, <2>3 DEF Holding
        <3>2. QED
            BY <2>1, <3>1, LockUndisturbed DEF TypeOK
    <2>5. Started'
        BY <2>1, <2>2, <2>3 DEF Started
    <2>6. Owned'
        BY <2>1 DEF Owned
    <2>7. QED
        BY <2>4, <2>5, <2>6
<1>2. ASSUME UNCHANGED <<providerVars, turns, drive>>,
             stream' = stream \/ stream' = [stream EXCEPT ![t] = <<>>]
      PROVE  LockInv' /\ Started' /\ Owned'
    <2>1. LockInv'
        BY <1>2 DEF providerVars, LockInv, SlotRight, HolderPlace, Slot
    <2>2. Started'
        BY <1>2 DEF Started, providerVars
    <2>3. \A u \in Turns : stream'[u] = stream[u] \/ stream'[u] = <<>>
        BY <1>2 DEF TypeOK
    <2>4. Owned'
        BY <1>2, <2>3 DEF Owned, providerVars
    <2>5. QED
        BY <2>1, <2>2, <2>4
<1>3. CASE ApplyEvent(t)
    BY <1>2, <1>3 DEF ApplyEvent, EndTurn, driveVars
<1>4. CASE StopTurn(t)
    BY <1>2, <1>4 DEF StopTurn, EndTurn
<1>5. QED
    BY <1>1, <1>3, <1>4 DEF ClientStep

LEMMA AnswerInit == Init => LockInv /\ Started /\ Owned
<1> SUFFICES ASSUME Init PROVE LockInv /\ Started /\ Owned
    OBVIOUS
<1>1. LockInv
    BY DEF Init, ProviderInit, LockInv, SlotRight, HolderPlace, Quiet, NoSession, Holding, Slot
<1>2. Started
    BY DEF Init, ProviderInit, Started
<1>3. Owned
    BY DEF Init, ProviderInit, Owned
<1>4. QED
    BY <1>1, <1>2, <1>3

LEMMA AnswersStep ==
    TypeOK /\ LockInv /\ Started /\ Owned /\ [Next]_vars => (LockInv /\ Started /\ Owned)'
<1> SUFFICES ASSUME AnswerInv, [Next]_vars PROVE LockInv' /\ Started' /\ Owned'
    BY DEF AnswerInv
<1> USE DEF AnswerInv
<1>1. CASE ProviderNext /\ UNCHANGED <<clientVars, driveVars>>
    <2>1. LockInv'
        BY <1>1, ProviderLock DEF TypeOK
    <2>2. Owned'
        BY <1>1, ProviderOwned DEF TypeOK, Owned, driveVars
    <2>3. \A u \in Turns : provider[u] = "none" => provider'[u] = "none"
        BY <1>1, NoneStays DEF TypeOK
    <2>4. Started'
        BY <1>1, <2>3 DEF Started, clientVars, driveVars
    <2>5. QED
        BY <2>1, <2>2, <2>4
<1>2. CASE UNCHANGED vars
    <2>1. LockInv'
        BY <1>2 DEF vars, providerVars, LockInv, SlotRight, HolderPlace, Slot
    <2>2. Started' /\ Owned'
        BY <1>2 DEF vars, providerVars, clientVars, driveVars, Started, Owned
    <2>3. QED
        BY <2>1, <2>2
<1>3. QED
    BY <1>1, <1>2, DriveAnswers, ClientAnswers DEF Next

\* What a turn's stream says answers that turn: the lock keeps one prompt at a
\* time in a session, so that text and answers that come late, for a turn that
\* was stopped, are read to their end before the next turn prompts.
THEOREM OwnPromptAnswered == Spec => []AnswersOwnPrompt
<1>1. Init => LockInv /\ Started /\ Owned
    BY AnswerInit
<1>2. Owned => AnswersOwnPrompt
    BY DEF Owned, AnswersOwnPrompt
<1>3. QED
    BY <1>1, <1>2, AnswersStep, TypeCorrect, PTL DEF Spec

-----------------------------------------------------------------------------
(* The contract of the response stream.                                     *)

\* A call that has left the accumulator does not come back to it.
SentCall(t, i) == i \in Calls /\ accum[t][i] \in {"asked", "cut"}

StreamOpens ==
    \A t \in Turns :
        /\ t > turns => drive[t] = "none" /\ outcome[t] = "unsent"
        /\ drive[t] \in {"none", "called"} => stream[t] = <<>> /\ ~started_text[t]

StreamGoesOn ==
    \A t \in Turns : drive[t] = "streaming" /\ outcome[t] = "open" =>
        Contract!IsOpen(t) /\ (started_text[t] <=> Contract!Has(t, {"add"}, 0))

\* A call that is on its way has not arrived and is not on its way twice.
OnItsWay(t, n) ==
    /\ SentCall(t, events[t][n].index)
    /\ ~Contract!Has(t, {"call"}, events[t][n].index)
    /\ \A m \in 1..Len(events[t]) :
          events[t][m].kind = "call" /\ events[t][m].index = events[t][n].index => m = n

CallsOnTheirWay ==
    \A t \in Turns :
        /\ \A n \in 1..Len(events[t]) : events[t][n].kind = "call" => OnItsWay(t, n)
        /\ \A i : Contract!Has(t, {"call"}, i) => SentCall(t, i)

StreamInv == TypeOK /\ StreamOpens /\ StreamGoesOn /\ CallsOnTheirWay

\* What an event that is sent adds to the stream.
LEMMA HasAfter ==
    ASSUME TypeOK, NEW t \in Turns, NEW event \in ResponseEvents, stream' = [stream EXCEPT ![t] = @ \o <<event>>]
    PROVE  /\ stream' = [stream EXCEPT ![t] = Append(@, event)] /\ stream'[t] # <<>>
           /\ \A u \in Turns : u # t => stream'[u] = stream[u]
           /\ \A kinds, m :
                 Contract!Has(t, kinds, m)' <=>
                     Contract!Has(t, kinds, m) \/ (event.kind \in kinds /\ event.message = m)
           /\ event.kind \notin {"done", "error"} => (Contract!Ended(t)' <=> Contract!Ended(t))
<1>1. stream \in [Turns -> Seq(ResponseEvents)] /\ stream[t] \in Seq(ResponseEvents)
    BY DEF TypeOK
<1>2. stream[t] \o <<event>> = Append(stream[t], event)
    BY <1>1
<1>3. stream' = [stream EXCEPT ![t] = Append(@, event)]
    BY <1>2
<1>4. stream'[t] = Append(stream[t], event) /\ \A u \in Turns : u # t => stream'[u] = stream[u]
    BY <1>1, <1>3
<1>5. /\ Len(stream'[t]) = Len(stream[t]) + 1 /\ stream'[t][Len(stream[t]) + 1] = event
      /\ \A n \in 1..Len(stream[t]) : stream'[t][n] = stream[t][n]
      /\ Len(stream[t]) \in Nat
    BY <1>1, <1>4
<1>6. ASSUME NEW kinds, NEW m
      PROVE  Contract!Has(t, kinds, m)' <=>
                 Contract!Has(t, kinds, m) \/ (event.kind \in kinds /\ event.message = m)
    BY <1>5 DEF Contract!Has
<1>7. event.kind \notin {"done", "error"} => (Contract!Ended(t)' <=> Contract!Ended(t))
    BY <1>5 DEF Contract!Ended
<1>8. stream'[t] # <<>>
    BY <1>1, <1>4
<1>9. QED
    BY <1>3, <1>4, <1>6, <1>7, <1>8

\* The contract depends on nothing but the streams.
LEMMA SameStream ==
    ASSUME NEW t \in Turns, stream'[t] = stream[t]
    PROVE  /\ \A kinds, m : Contract!Has(t, kinds, m)' <=> Contract!Has(t, kinds, m)
           /\ Contract!IsOpen(t)' <=> Contract!IsOpen(t)
BY DEF Contract!Has, Contract!IsOpen, Contract!Ended

LEMMA EmptyStream ==
    ASSUME NEW t \in Turns, stream'[t] = <<>>
    PROVE  \A kinds, m : ~Contract!Has(t, kinds, m)'
BY DEF Contract!Has

\* The provider of a turn leaves the streams alone, and what it sends or
\* gathers is new.
LEMMA ProviderCalls ==
    ASSUME TypeOK, CallsOnTheirWay, ProviderNext, UNCHANGED stream
    PROVE  CallsOnTheirWay'
<1>1. PICK t \in Turns : HttpStep(t) \/ AcpStep(t) \/ AgentStep(t)
    BY DEF ProviderNext, ProviderStep, ModelStep, HttpStep, AcpStep
<1>2. /\ events \in [Turns -> Seq(ProviderEvents)] /\ events[t] \in Seq(ProviderEvents)
      /\ accum \in [Turns -> [Calls -> {"none", "partial", "whole", "asked", "cut"}]]
    BY DEF TypeOK, ProviderTypeOK
<1>3. \A u \in Turns : \A kinds, m : Contract!Has(u, kinds, m)' <=> Contract!Has(u, kinds, m)
    BY SameStream
<1>4. ASSUME NEW kind \in {"text", "empty", "done", "error"}, NEW of, Emit(t, kind, 0, of), accum' = accum
      PROVE  CallsOnTheirWay'
    <2>1. /\ events'[t] = Append(events[t], ProviderEvent(kind, 0, of))
          /\ \A u \in Turns : u # t => events'[u] = events[u]
        BY <1>2, <1>4 DEF Emit
    <2>2. /\ Len(events'[t]) = Len(events[t]) + 1 /\ events'[t][Len(events[t]) + 1].kind # "call"
          /\ \A n \in 1..Len(events[t]) : events'[t][n] = events[t][n]
        BY <1>2, <2>1 DEF ProviderEvent
    <2>3. \A n \in 1..Len(events'[t]) : events'[t][n].kind = "call" =>
              n \in 1..Len(events[t]) /\ events'[t][n] = events[t][n]
        BY <1>2, <2>2
    <2>4. \A u \in Turns : \A n \in 1..Len(events'[u]) : events'[u][n].kind = "call" =>
              n \in 1..Len(events[u]) /\ events'[u][n] = events[u][n]
        BY <2>1, <2>3
    <2>5. \A u \in Turns : \A i : SentCall(u, i)' <=> SentCall(u, i)
        BY <1>4 DEF SentCall
    <2>6. QED
        BY <1>3, <2>4, <2>5 DEF CallsOnTheirWay, OnItsWay
<1>5. ASSUME NEW i \in Calls, ModelStartsCall(t, i) \/ ModelEndsCall(t, i)
      PROVE  CallsOnTheirWay'
    <2>1. events' = events /\ accum[t][i] \in {"none", "partial"}
        BY <1>5 DEF ModelStartsCall, ModelEndsCall
    <2>2. \E part \in {"partial", "whole"} : accum' = [accum EXCEPT ![t][i] = part]
        BY <1>5 DEF ModelStartsCall, ModelEndsCall
    <2>3. \A u \in Turns : \A j : SentCall(u, j) => SentCall(u, j)'
        BY <1>2, <2>1, <2>2 DEF SentCall
    <2>4. QED
        BY <1>3, <2>1, <2>3 DEF CallsOnTheirWay, OnItsWay
<1>6. ASSUME NEW i \in Calls, BlockStops(t, i) \/ FlushCall(t, i)
      PROVE  CallsOnTheirWay'
    <2>1. SendCall(t, i) /\ accum[t][i] \in {"partial", "whole"}
        BY <1>6 DEF BlockStops, FlushCall, Held
    <2>2. ~SentCall(t, i)
        BY <2>1 DEF SentCall
    <2>3. /\ events'[t] = Append(events[t], ProviderEvent("call", i, t))
          /\ \A u \in Turns : u # t => events'[u] = events[u]
        BY <1>2, <2>1 DEF Emit, SendCall
    <2>4. /\ Len(events'[t]) = Len(events[t]) + 1 /\ events'[t][Len(events[t]) + 1].index = i
          /\ \A n \in 1..Len(events[t]) : events'[t][n] = events[t][n]
        BY <1>2, <2>3 DEF ProviderEvent
    <2>5. /\ SentCall(t, i)' /\ \A u \in Turns : \A j : SentCall(u, j) => SentCall(u, j)'
        BY <1>2, <2>1 DEF SentCall, SendCall
    <2>6. ~Contract!Has(t, {"call"}, i)
        BY <2>2 DEF CallsOnTheirWay
    <2>7. \A n \in 1..Len(events[t]) : events[t][n].kind = "call" => events[t][n].index # i
        BY <2>2 DEF CallsOnTheirWay, OnItsWay
    <2>8. ASSUME NEW n \in 1..Len(events'[t]), events'[t][n].kind = "call"
          PROVE  OnItsWay(t, n)'
        <3>1. CASE n = Len(events[t]) + 1
            <4>1. events'[t][n].index = i
                BY <2>4, <3>1
            <4>2. ASSUME NEW m \in 1..Len(events'[t]),
                         events'[t][m].kind = "call", events'[t][m].index = i
                  PROVE  m = n
                <5>1. CASE m \in 1..Len(events[t])
                    BY <2>4, <2>7, <4>2, <5>1
                <5>2. CASE m \notin 1..Len(events[t])
                    BY <1>2, <2>4, <3>1, <5>2
                <5>3. QED
                    BY <5>1, <5>2
            <4>3. QED
                BY <1>3, <2>5, <2>6, <4>1, <4>2 DEF OnItsWay
        <3>2. CASE n # Len(events[t]) + 1
            <4>1. n \in 1..Len(events[t]) /\ events'[t][n] = events[t][n]
                BY <1>2, <2>4, <3>2
            <4>2. SentCall(t, events[t][n].index) /\ ~Contract!Has(t, {"call"}, events[t][n].index)
                BY <2>8, <4>1 DEF CallsOnTheirWay, OnItsWay
            <4>3. ASSUME NEW m \in 1..Len(events'[t]),
                         events'[t][m].kind = "call", events'[t][m].index = events'[t][n].index
                  PROVE  m = n
                <5>1. m # Len(events[t]) + 1
                    BY <2>4, <2>7, <2>8, <4>1, <4>3
                <5>2. m \in 1..Len(events[t]) /\ events'[t][m] = events[t][m]
                    BY <1>2, <2>4, <5>1
                <5>3. QED
                    BY <2>8, <4>1, <4>3, <5>2 DEF CallsOnTheirWay, OnItsWay
            <4>4. QED
                BY <1>3, <2>5, <4>1, <4>2, <4>3 DEF OnItsWay
        <3>3. QED
            BY <3>1, <3>2
    <2>9. \A u \in Turns : \A j : Contract!Has(u, {"call"}, j)' => SentCall(u, j)'
        BY <1>3, <2>5 DEF CallsOnTheirWay
    <2>10. \A u \in Turns : u # t => \A n \in 1..Len(events'[u]) : events'[u][n].kind = "call" => OnItsWay(u, n)'
        BY <1>3, <2>3, <2>5 DEF CallsOnTheirWay, OnItsWay
    <2>11. QED
        BY <2>8, <2>9, <2>10 DEF CallsOnTheirWay
<1>7. CASE UNCHANGED <<events, accum>>
    <2>1. \A u \in Turns : \A j : SentCall(u, j)' <=> SentCall(u, j)
        BY <1>7 DEF SentCall
    <2>2. QED
        BY <1>3, <1>7, <2>1 DEF CallsOnTheirWay, OnItsWay
<1>8. \/ UNCHANGED <<events, accum>>
      \/ \E kind \in {"text", "empty", "done", "error"} : \E of : Emit(t, kind, 0, of) /\ accum' = accum
      \/ \E i \in Calls : ModelStartsCall(t, i) \/ ModelEndsCall(t, i) \/ BlockStops(t, i) \/ FlushCall(t, i)
    <2>1. CASE HttpStep(t)
        BY <2>1 DEF HttpStep, ModelSays, ModelEnds, StartFlush, ModelDone, ModelFails
    <2>2. CASE AcpStep(t)
        BY <2>2 DEF AcpStep, LockSlot, OpenSession, OpenFails, Prompt, PipeBreaks, ReadLine, PromptFails
    <2>3. CASE AgentStep(t)
        BY <2>3 DEF AgentStep, AgentSays, AgentAnswers, AgentExits
    <2>4. QED
        BY <1>1, <2>1, <2>2, <2>3
<1>9. QED
    BY <1>4, <1>5, <1>6, <1>7, <1>8

\* Whatever a step leaves alone stays right.
LEMMA OthersCalls ==
    ASSUME CallsOnTheirWay, accum' = accum, NEW t \in Turns,
           \A u \in Turns : u # t => events'[u] = events[u] /\ stream'[u] = stream[u]
    PROVE  \A u \in Turns : u # t =>
               /\ \A n \in 1..Len(events'[u]) : events'[u][n].kind = "call" => OnItsWay(u, n)'
               /\ \A i : Contract!Has(u, {"call"}, i)' => SentCall(u, i)'
<1>1. \A u \in Turns : \A i : SentCall(u, i)' <=> SentCall(u, i)
    BY DEF SentCall
<1>2. QED
    BY <1>1, SameStream DEF CallsOnTheirWay, OnItsWay

LEMMA OpenStreamKeeps ==
    ASSUME StreamInv, NEW t \in Turns, OpenStream(t)
    PROVE  StreamOpens' /\ StreamGoesOn' /\ CallsOnTheirWay' /\ [Contract!Next]_(Contract!vars)
<1> DEFINE init == Contract!InitEvent(t)
           create == Contract!CreateTask(t)
<1> USE DEF StreamInv
<1>1. /\ UNCHANGED <<events, accum, started_text, turns, outcome>>
      /\ drive[t] = "called" /\ drive'[t] = "streaming" /\ \A u \in Turns : u # t => drive'[u] = drive[u]
    BY DEF OpenStream, clientVars, TypeOK
<1>2. stream \in [Turns -> Seq(ResponseEvents)] /\ stream[t] = <<>> /\ ~started_text[t]
    BY <1>1 DEF TypeOK, StreamOpens
<1>3. \A u \in Turns : u # t => stream'[u] = stream[u]
    BY <1>2 DEF OpenStream, Send
<1>4. outcome[t] = "open" =>
          \E opening \in {<<init>>, <<init, create>>} :
              stream' = [stream EXCEPT ![t] = opening] /\ stream'[t] = opening
    <2>1. PICK opening \in {<<init>>, <<init, create>>} : Send(t, opening)
        BY DEF OpenStream
    <2>2. <<>> \o opening = opening
        BY SentTyped
    <2>3. QED
        BY <1>2, <2>1, <2>2 DEF Send
<1>5. outcome[t] # "open" => stream' = stream
    BY DEF OpenStream, Send
<1>6. \A kinds, m : Contract!Has(t, kinds, m)' => stream'[t] # <<>> /\ (kinds \in {{"add"}, {"call"}} => FALSE)
    <2>1. init.kind = "init" /\ create.kind = "create"
        BY DEF Contract!InitEvent, Contract!CreateTask, Contract!Event
    <2>2. stream'[t] \in {<<>>, <<init>>, <<init, create>>}
        BY <1>2, <1>4, <1>5
    <2>3. QED
        BY <2>1, <2>2 DEF Contract!Has
<1>7. StreamOpens'
    BY <1>1, <1>3 DEF StreamOpens
<1>8. StreamGoesOn'
    <2>1. outcome[t] = "open" => Contract!IsOpen(t)'
        <3>1. init.kind = "init" /\ create.kind = "create"
            BY DEF Contract!InitEvent, Contract!CreateTask, Contract!Event
        <3> HIDE DEF init, create
        <3>2. \A opening \in {<<init>>, <<init, create>>} :
                  opening # <<>> /\ \A n \in 1..Len(opening) : opening[n].kind \notin {"done", "error"}
            BY <3>1
        <3>3. QED
            BY <1>4, <3>2 DEF Contract!IsOpen, Contract!Ended
    <2>2. \A u \in Turns : u # t => (Contract!IsOpen(u)' <=> Contract!IsOpen(u)) /\
              \A kinds, m : Contract!Has(u, kinds, m)' <=> Contract!Has(u, kinds, m)
        BY <1>3, SameStream
    <2>3. QED
        BY <1>1, <1>2, <1>6, <2>1, <2>2 DEF StreamGoesOn
<1>9. CallsOnTheirWay'
    <2>1. \A n \in 1..Len(events[t]) : events[t][n].kind = "call" => OnItsWay(t, n)'
        <3>1. \A i : SentCall(t, i)' <=> SentCall(t, i)
            BY <1>1 DEF SentCall
        <3>2. \A i : ~Contract!Has(t, {"call"}, i)'
            BY <1>6
        <3>3. QED
            BY <1>1, <3>1, <3>2 DEF CallsOnTheirWay, OnItsWay
    <2>2. \A i : ~Contract!Has(t, {"call"}, i)'
        BY <1>6
    <2>3. QED
        BY <1>1, <1>3, <2>1, <2>2, OthersCalls DEF CallsOnTheirWay
<1>10. [Contract!Next]_(Contract!vars)
    <2>1. CASE outcome[t] = "open"
        <3>1. t \notin DroppedStreams /\ DroppedStreams' = DroppedStreams
            BY <1>1, <2>1 DEF DroppedStreams
        <3>2. stream' = [stream EXCEPT ![t] = <<init>>] \/ stream' = [stream EXCEPT ![t] = <<init, create>>]
            BY <1>4, <2>1
        <3>3. Contract!Open(t)
            BY <1>2, <3>1, <3>2 DEF Contract!Open
        <3>4. QED
            BY <3>3 DEF Contract!Next
    <2>2. CASE outcome[t] # "open"
        BY <1>1, <1>5, <2>2 DEF Contract!vars, DroppedStreams
    <2>3. QED
        BY <2>1, <2>2
<1>11. QED
    BY <1>7, <1>8, <1>9, <1>10

\* The drive takes an event of the provider and sends nothing, or the client is gone.
LEMMA SkipKeeps ==
    ASSUME StreamInv, NEW t \in Turns, NEW kinds, NextEvent(t, kinds), UNCHANGED stream,
           drive' = drive \/ drive' = [drive EXCEPT ![t] = "ended"],
           UNCHANGED started_text \/ outcome[t] # "open",
           \A u \in Turns : u # t => started_text'[u] = started_text[u]
    PROVE  StreamOpens' /\ StreamGoesOn' /\ CallsOnTheirWay' /\ [Contract!Next]_(Contract!vars)
<1> USE DEF StreamInv
<1>1. UNCHANGED <<accum, turns, outcome>> /\ drive[t] = "streaming"
    BY DEF NextEvent, clientVars
<1>2. events \in [Turns -> Seq(ProviderEvents)] /\ events[t] \in Seq(ProviderEvents) /\ events[t] # <<>>
    BY DEF TypeOK, ProviderTypeOK, NextEvent
<1>3. events'[t] = Tail(events[t]) /\ \A u \in Turns : u # t => events'[u] = events[u]
    BY <1>2 DEF NextEvent
<1>4. /\ \A u \in Turns : \A K, m : Contract!Has(u, K, m)' <=> Contract!Has(u, K, m)
      /\ \A u \in Turns : Contract!IsOpen(u)' <=> Contract!IsOpen(u)
    BY SameStream
<1>5. drive'[t] \in {"streaming", "ended"} /\ \A u \in Turns : u # t => drive'[u] = drive[u]
    BY <1>1 DEF TypeOK
<1>6. StreamOpens'
    BY <1>1, <1>5 DEF StreamOpens
<1>7. StreamGoesOn'
    BY <1>1, <1>4, <1>5 DEF StreamGoesOn
<1>8. CallsOnTheirWay'
    <2>1. \A n \in 1..Len(events'[t]) : n + 1 \in 1..Len(events[t]) /\ events'[t][n] = events[t][n + 1]
        BY <1>2, <1>3
    <2>2. \A i : SentCall(t, i)' <=> SentCall(t, i)
        BY <1>1 DEF SentCall
    <2>3. ASSUME NEW n \in 1..Len(events'[t]), events'[t][n].kind = "call"
          PROVE  OnItsWay(t, n)'
        <3>1. OnItsWay(t, n + 1)
            BY <2>1, <2>3 DEF CallsOnTheirWay
        <3>2. \A m \in 1..Len(events'[t]) :
                  events'[t][m].kind = "call" /\ events'[t][m].index = events'[t][n].index => m = n
            <4>1. TAKE m \in 1..Len(events'[t])
            <4>2. HAVE events'[t][m].kind = "call" /\ events'[t][m].index = events'[t][n].index
            <4>3. m + 1 \in 1..Len(events[t]) /\ events[t][m + 1].kind = "call"
                  /\ events[t][m + 1].index = events[t][n + 1].index
                BY <2>1, <4>2
            <4>4. m + 1 = n + 1
                BY <3>1, <4>3 DEF OnItsWay
            <4>5. QED
                BY <4>4
        <3>3. events'[t][n] = events[t][n + 1]
            BY <2>1
        <3>4. QED
            BY <1>4, <2>2, <3>1, <3>2, <3>3 DEF OnItsWay
    <2>4. \A i : Contract!Has(t, {"call"}, i)' => SentCall(t, i)'
        BY <1>4, <2>2 DEF CallsOnTheirWay
    <2>5. QED
        BY <1>1, <1>3, <2>3, <2>4, OthersCalls DEF CallsOnTheirWay
<1>9. QED
    BY <1>1, <1>6, <1>7, <1>8 DEF Contract!vars, DroppedStreams

\* The drive takes an event of the provider and sends what it makes of it.
LEMMA ForwardKeeps ==
    ASSUME StreamInv, NEW t \in Turns, NEW kinds, NextEvent(t, kinds), outcome[t] = "open",
           NEW event \in ResponseEvents, Send(t, <<event>>),
           drive' = drive \/ drive' = [drive EXCEPT ![t] = "ended"],
           drive'[t] = "streaming" =>
               event.kind \notin {"done", "error"} /\
               (started_text'[t] <=> started_text[t] \/ (event.kind = "add" /\ event.message = 0)),
           \A u \in Turns : u # t => started_text'[u] = started_text[u],
           event.kind = "call" => Head(events[t]).kind = "call" /\ Head(events[t]).index = event.message
    PROVE  /\ StreamOpens' /\ StreamGoesOn' /\ CallsOnTheirWay' /\ Contract!IsOpen(t)
           /\ stream' = [stream EXCEPT ![t] = Append(@, event)] /\ DroppedStreams' = DroppedStreams
           /\ started_text[t] <=> Contract!Has(t, {"add"}, 0)
           /\ event.kind = "call" => ~Contract!Has(t, {"call"}, event.message)
<1> USE DEF StreamInv
<1>1. UNCHANGED <<accum, turns, outcome>> /\ drive[t] = "streaming"
    BY DEF NextEvent, clientVars
<1>2. events \in [Turns -> Seq(ProviderEvents)] /\ events[t] \in Seq(ProviderEvents) /\ events[t] # <<>>
    BY DEF TypeOK, ProviderTypeOK, NextEvent
<1>3. events'[t] = Tail(events[t]) /\ \A u \in Turns : u # t => events'[u] = events[u]
    BY <1>2 DEF NextEvent
<1>4. /\ stream' = [stream EXCEPT ![t] = Append(@, event)] /\ stream'[t] # <<>>
      /\ \A u \in Turns : u # t => stream'[u] = stream[u]
      /\ \A K, m : Contract!Has(t, K, m)' <=> Contract!Has(t, K, m) \/ (event.kind \in K /\ event.message = m)
      /\ event.kind \notin {"done", "error"} => (Contract!Ended(t)' <=> Contract!Ended(t))
    BY HasAfter DEF Send
<1>5. drive'[t] \in {"streaming", "ended"} /\ \A u \in Turns : u # t => drive'[u] = drive[u]
    BY <1>1 DEF TypeOK
<1>6. Contract!IsOpen(t) /\ (started_text[t] <=> Contract!Has(t, {"add"}, 0))
    BY <1>1 DEF StreamGoesOn
<1>7. StreamOpens'
    BY <1>1, <1>4, <1>5 DEF StreamOpens
<1>8. StreamGoesOn'
    <2>1. \A u \in Turns : u # t => (Contract!IsOpen(u)' <=> Contract!IsOpen(u)) /\
              \A K, m : Contract!Has(u, K, m)' <=> Contract!Has(u, K, m)
        BY <1>4, SameStream
    <2>2. drive'[t] = "streaming" => Contract!IsOpen(t)' /\ (started_text'[t] <=> Contract!Has(t, {"add"}, 0)')
        BY <1>4, <1>6 DEF Contract!IsOpen
    <2>3. QED
        BY <1>1, <1>5, <2>1, <2>2 DEF StreamGoesOn
<1>9. \A n \in 1..Len(events'[t]) : n \in Nat /\ n + 1 \in 1..Len(events[t]) /\ events'[t][n] = events[t][n + 1]
    BY <1>2, <1>3
<1>10. Head(events[t]) = events[t][1] /\ 1 \in 1..Len(events[t])
    BY <1>2
<1>11. event.kind = "call" => OnItsWay(t, 1)
    BY <1>10 DEF CallsOnTheirWay
<1>12. CallsOnTheirWay'
    <2>1. \A i : SentCall(t, i)' <=> SentCall(t, i)
        BY <1>1 DEF SentCall
    <2>2. ASSUME NEW n \in 1..Len(events'[t]), events'[t][n].kind = "call"
          PROVE  OnItsWay(t, n)'
        <3>1. OnItsWay(t, n + 1)
            BY <1>9, <2>2 DEF CallsOnTheirWay
        <3>2. \A m \in 1..Len(events'[t]) :
                  events'[t][m].kind = "call" /\ events'[t][m].index = events'[t][n].index => m = n
            <4>1. TAKE m \in 1..Len(events'[t])
            <4>2. HAVE events'[t][m].kind = "call" /\ events'[t][m].index = events'[t][n].index
            <4>3. m + 1 \in 1..Len(events[t]) /\ events[t][m + 1].kind = "call"
                  /\ events[t][m + 1].index = events[t][n + 1].index
                BY <1>9, <4>2
            <4>4. m + 1 = n + 1
                BY <3>1, <4>3 DEF OnItsWay
            <4>5. QED
                BY <1>9, <4>4
        <3>3. event.kind = "call" => events[t][n + 1].index # event.message
            <4>1. n + 1 # 1 /\ n + 1 \in 1..Len(events[t]) /\ events[t][n + 1].kind = "call"
                BY <1>9, <2>2
            <4>2. QED
                BY <1>10, <1>11, <4>1 DEF OnItsWay
        <3>4. events'[t][n] = events[t][n + 1]
            BY <1>9
        <3> DEFINE i == events[t][n + 1].index
        <3>5. \A j : j = i => ~Contract!Has(t, {"call"}, j)'
            <4>1. ~Contract!Has(t, {"call"}, i)
                BY <3>1 DEF OnItsWay
            <4>2. ~(event.kind \in {"call"} /\ event.message = i)
                BY <3>3
            <4>3. QED
                BY <1>4, <4>1, <4>2
        <3>6. QED
            BY <2>1, <3>1, <3>2, <3>4, <3>5 DEF OnItsWay
    <2>3. \A i : Contract!Has(t, {"call"}, i)' => SentCall(t, i)'
        <3>1. event.kind = "call" => SentCall(t, event.message)
            BY <1>10, <1>11 DEF OnItsWay
        <3>2. QED
            BY <1>4, <2>1, <3>1 DEF CallsOnTheirWay
    <2>4. QED
        BY <1>1, <1>3, <1>4, <2>2, <2>3, OthersCalls DEF CallsOnTheirWay
<1>13. event.kind = "call" => ~Contract!Has(t, {"call"}, event.message)
    BY <1>10, <1>11 DEF OnItsWay
<1>14. QED
    BY <1>1, <1>4, <1>6, <1>7, <1>8, <1>12, <1>13 DEF DroppedStreams

LEMMA DriveKeeps ==
    ASSUME StreamInv, NEW t \in Turns, DriveStep(t)
    PROVE  StreamOpens' /\ StreamGoesOn' /\ CallsOnTheirWay' /\ [Contract!Next]_(Contract!vars)
<1> DEFINE head == Head(events[t])
<1> USE DEF StreamInv
<1>2. CASE ForwardText(t)
    <2>1. NextEvent(t, {"text"}) /\ started_text' = [started_text EXCEPT ![t] = TRUE] /\ drive' = drive
        BY <1>2 DEF ForwardText
    <2>2. head \in ProviderEvents
        BY <2>1, NextEventTyped
    <2>3. PICK kind \in {"add", "append"} :
              /\ kind = IF started_text[t] THEN "append" ELSE "add"
              /\ Send(t, <<Contract!Event(kind, 0, head.of)>>)
        BY <1>2 DEF ForwardText
    <2> DEFINE event == Contract!Event(kind, 0, head.of)
    <2>4. event \in ResponseEvents /\ event.kind = kind /\ event.message = 0
        BY <2>2 DEF ProviderEvents, Contract!Event, ResponseEvents
    <2>5. started_text'[t] /\ \A u \in Turns : u # t => started_text'[u] = started_text[u]
        BY <2>1 DEF TypeOK
    <2>6. CASE outcome[t] = "open"
        <3>1. started_text'[t] <=> started_text[t] \/ (event.kind = "add" /\ event.message = 0)
            BY <2>3, <2>4, <2>5
        <3>2. /\ StreamOpens' /\ StreamGoesOn' /\ CallsOnTheirWay' /\ Contract!IsOpen(t)
              /\ stream' = [stream EXCEPT ![t] = Append(@, event)] /\ DroppedStreams' = DroppedStreams
              /\ started_text[t] <=> Contract!Has(t, {"add"}, 0)
            BY <2>1, <2>3, <2>4, <2>5, <2>6, <3>1, ForwardKeeps
        <3>3. Contract!Send(t, kind, 0, head.of)
            BY <3>2 DEF Contract!Send
        <3>4. Contract!AddText(t, 0, head.of) \/ Contract!AppendText(t, 0, head.of)
            BY <2>3, <3>2, <3>3 DEF Contract!AddText, Contract!AppendText
        <3>5. Contract!Next
            BY <2>2, <3>4 DEF Contract!Next, ProviderEvents
        <3>6. QED
            BY <3>2, <3>5
    <2>7. CASE outcome[t] # "open"
        <3>1. UNCHANGED stream
            BY <2>3, <2>7 DEF Send
        <3>2. QED
            BY <2>1, <2>5, <2>7, <3>1, SkipKeeps
    <2>8. QED
        BY <2>6, <2>7
<1>3. CASE IgnoreEvent(t)
    <2>1. NextEvent(t, {"empty", "call"}) /\ UNCHANGED <<drive, started_text, stream>>
        BY <1>3 DEF IgnoreEvent, driveVars
    <2>2. QED
        BY <2>1, SkipKeeps
<1>4. CASE ForwardCall(t)
    <2> DEFINE event == Contract!Event("call", head.index, head.of)
    <2>1. /\ NextEvent(t, {"call"}) /\ UNCHANGED <<drive, started_text>> /\ Send(t, <<event>>)
          /\ head.index \in Calls /\ head.kind = "call"
        BY <1>4, ProviderAssumption DEF ForwardCall, NextEvent
    <2>2. head \in ProviderEvents
        BY <2>1, NextEventTyped
    <2>3. event \in ResponseEvents /\ event.kind = "call" /\ event.message = head.index
        BY <2>1, <2>2 DEF ProviderEvents, Contract!Event, ResponseEvents
    <2>4. CASE outcome[t] = "open"
        <3>1. /\ StreamOpens' /\ StreamGoesOn' /\ CallsOnTheirWay' /\ Contract!IsOpen(t)
              /\ stream' = [stream EXCEPT ![t] = Append(@, event)] /\ DroppedStreams' = DroppedStreams
              /\ ~Contract!Has(t, {"call"}, head.index)
            BY <2>1, <2>3, <2>4, ForwardKeeps
        <3>2. Contract!AddCall(t, head.index, head.of)
            BY <3>1 DEF Contract!AddCall, Contract!Send
        <3>3. Contract!Next
            BY <2>1, <2>2, <3>2 DEF Contract!Next, ProviderEvents
        <3>4. QED
            BY <3>1, <3>3
    <2>5. CASE outcome[t] # "open"
        <3>1. UNCHANGED stream
            BY <2>1, <2>5 DEF Send
        <3>2. QED
            BY <2>1, <2>5, <3>1, SkipKeeps
    <2>6. QED
        BY <2>4, <2>5
<1>5. CASE FinishStream(t)
    <2> DEFINE event == Contract!Event(head.kind, 0, head.of)
    <2>1. /\ NextEvent(t, {"done", "error"}) /\ UNCHANGED started_text /\ Send(t, <<event>>)
          /\ drive' = [drive EXCEPT ![t] = "ended"] /\ head.kind \in {"done", "error"}
        BY <1>5 DEF FinishStream, NextEvent
    <2>2. head \in ProviderEvents
        BY <2>1, NextEventTyped
    <2>3. event \in ResponseEvents /\ event.kind = head.kind
        BY <2>1, <2>2 DEF ProviderEvents, Contract!Event, ResponseEvents
    <2>4. drive'[t] # "streaming"
        BY <2>1 DEF TypeOK
    <2>5. CASE outcome[t] = "open"
        <3>1. /\ StreamOpens' /\ StreamGoesOn' /\ CallsOnTheirWay' /\ Contract!IsOpen(t)
              /\ stream' = [stream EXCEPT ![t] = Append(@, event)] /\ DroppedStreams' = DroppedStreams
            BY <2>1, <2>3, <2>4, <2>5, ForwardKeeps
        <3>2. Contract!Finish(t, head.of)
            BY <2>1, <3>1 DEF Contract!Finish, Contract!Send
        <3>3. Contract!Next
            BY <2>2, <3>2 DEF Contract!Next, ProviderEvents
        <3>4. QED
            BY <3>1, <3>3
    <2>6. CASE outcome[t] # "open"
        <3>1. UNCHANGED stream
            BY <2>1, <2>6 DEF Send
        <3>2. QED
            BY <2>1, <2>6, <3>1, SkipKeeps
    <2>7. QED
        BY <2>5, <2>6
<1>6. QED
    BY <1>2, <1>3, <1>4, <1>5, OpenStreamKeeps DEF DriveStep

\* The client drops the stream of a turn that is over for it.
LEMMA EndTurnKeeps ==
    ASSUME StreamInv, NEW t \in Turns, NEW how \in {"done", "error", "stopped"}, EndTurn(t, how),
           outcome[t] = "open", UNCHANGED <<providerVars, turns>>
    PROVE  StreamOpens' /\ StreamGoesOn' /\ CallsOnTheirWay' /\ [Contract!Next]_(Contract!vars)
<1> USE DEF StreamInv
<1>1. /\ stream'[t] = <<>> /\ \A u \in Turns : u # t => stream'[u] = stream[u]
      /\ outcome'[t] = how /\ \A u \in Turns : u # t => outcome'[u] = outcome[u]
      /\ UNCHANGED <<drive, started_text, events, accum, turns>>
    BY DEF EndTurn, TypeOK, providerVars
<1>2. StreamOpens'
    BY <1>1 DEF StreamOpens
<1>3. StreamGoesOn'
    <2>1. \A u \in Turns : u # t => (Contract!IsOpen(u)' <=> Contract!IsOpen(u)) /\
              \A K, m : Contract!Has(u, K, m)' <=> Contract!Has(u, K, m)
        BY <1>1, SameStream
    <2>2. QED
        BY <1>1, <2>1 DEF StreamGoesOn
<1>4. CallsOnTheirWay'
    <2>1. \A i : ~Contract!Has(t, {"call"}, i)'
        BY <1>1, EmptyStream
    <2>2. \A i : SentCall(t, i)' <=> SentCall(t, i)
        BY <1>1 DEF SentCall
    <2>3. \A n \in 1..Len(events[t]) : events[t][n].kind = "call" => OnItsWay(t, n)'
        BY <1>1, <2>1, <2>2 DEF CallsOnTheirWay, OnItsWay
    <2>4. QED
        BY <1>1, <2>1, <2>3, OthersCalls DEF CallsOnTheirWay
<1>5. [Contract!Next]_(Contract!vars)
    <2>1. DroppedStreams' = DroppedStreams \cup {t}
        BY <1>1 DEF DroppedStreams
    <2>2. Contract!Drop(t)
        BY <2>1 DEF Contract!Drop, EndTurn
    <2>3. QED
        BY <2>2 DEF Contract!Next
<1>6. QED
    BY <1>2, <1>3, <1>4, <1>5

\* A step that leaves the streams and their calls alone.
LEMMA OtherKeeps ==
    ASSUME StreamInv, UNCHANGED <<turns, outcome, driveVars>>, CallsOnTheirWay'
    PROVE  StreamOpens' /\ StreamGoesOn' /\ [Contract!Next]_(Contract!vars)
<1>1. StreamOpens'
    BY DEF StreamInv, StreamOpens, driveVars
<1>2. StreamGoesOn'
    <2>1. stream' = stream
        BY DEF driveVars
    <2>2. QED
        BY <2>1, SameStream DEF StreamInv, StreamGoesOn, driveVars
<1>3. UNCHANGED Contract!vars
    BY DEF Contract!vars, DroppedStreams, driveVars
<1>4. QED
    BY <1>1, <1>2, <1>3

LEMMA SameCalls ==
    ASSUME CallsOnTheirWay, UNCHANGED <<events, accum, stream>>
    PROVE  CallsOnTheirWay'
BY SameStream DEF CallsOnTheirWay, OnItsWay, SentCall

LEMMA ClientKeeps ==
    ASSUME StreamInv, NEW t \in Turns, ClientStep(t)
    PROVE  StreamOpens' /\ StreamGoesOn' /\ CallsOnTheirWay' /\ [Contract!Next]_(Contract!vars)
<1> USE DEF StreamInv
<1>1. ASSUME NEW kind \in {"query", "results", "resume"}, NEW b \in Backends, SendTurn(t, kind, b)
      PROVE  StreamOpens' /\ StreamGoesOn' /\ CallsOnTheirWay' /\ [Contract!Next]_(Contract!vars)
    <2>1. /\ UNCHANGED <<events, accum, started_text, stream>> /\ t = turns + 1 /\ turns' = t
          /\ drive'[t] = "called" /\ \A u \in Turns : u # t => drive'[u] = drive[u]
          /\ outcome'[t] = "open" /\ \A u \in Turns : u # t => outcome'[u] = outcome[u]
        BY <1>1 DEF SendTurn, TypeOK
    <2>2. turns \in Nat /\ t \in Nat /\ Turns \subseteq Nat
        BY ProviderAssumption DEF TypeOK
    <2>3. drive[t] = "none" /\ outcome[t] = "unsent"
        BY <2>1, <2>2 DEF StreamOpens
    <2>4. StreamOpens'
        BY <2>1, <2>2, <2>3 DEF StreamOpens
    <2>5. StreamGoesOn'
        BY <2>1, SameStream DEF StreamGoesOn
    <2>6. UNCHANGED Contract!vars
        BY <2>1, <2>3 DEF Contract!vars, DroppedStreams
    <2>7. QED
        BY <2>1, <2>4, <2>5, <2>6, SameCalls
<1>2. CASE ApplyEvent(t)
    <2>1. outcome[t] = "open" /\ UNCHANGED <<providerVars, turns>>
        BY <1>2 DEF ApplyEvent, Unread
    <2>2. CASE UNCHANGED <<outcome, driveVars>>
        <3>1. CallsOnTheirWay'
            BY <2>1, <2>2, SameCalls DEF providerVars, driveVars
        <3>2. QED
            BY <2>1, <2>2, <3>1, OtherKeeps
    <2>3. CASE \E how \in {"done", "error"} : EndTurn(t, how)
        BY <2>1, <2>3, EndTurnKeeps
    <2>4. QED
        BY <1>2, <2>2, <2>3 DEF ApplyEvent
<1>3. CASE StopTurn(t)
    BY <1>3, EndTurnKeeps DEF StopTurn
<1>4. QED
    BY <1>1, <1>2, <1>3 DEF ClientStep

LEMMA StreamInit == Init => Contract!Init /\ StreamOpens /\ StreamGoesOn /\ CallsOnTheirWay
<1> SUFFICES ASSUME Init PROVE Contract!Init /\ StreamOpens /\ StreamGoesOn /\ CallsOnTheirWay
    OBVIOUS
<1>1. Contract!Init
    BY DEF Init, Contract!Init, DroppedStreams
<1>2. StreamOpens /\ StreamGoesOn
    BY DEF Init, StreamOpens, StreamGoesOn
<1>3. CallsOnTheirWay
    BY DEF Init, ProviderInit, CallsOnTheirWay, Contract!Has
<1>4. QED
    BY <1>1, <1>2, <1>3

LEMMA StreamStep ==
    TypeOK /\ StreamOpens /\ StreamGoesOn /\ CallsOnTheirWay /\ [Next]_vars =>
        (StreamOpens /\ StreamGoesOn /\ CallsOnTheirWay)' /\ [Contract!Next]_(Contract!vars)
<1> SUFFICES ASSUME StreamInv, [Next]_vars
             PROVE  StreamOpens' /\ StreamGoesOn' /\ CallsOnTheirWay' /\ [Contract!Next]_(Contract!vars)
    BY DEF StreamInv
<1>1. CASE ProviderNext /\ UNCHANGED <<clientVars, driveVars>>
    <2>1. CallsOnTheirWay'
        BY <1>1, ProviderCalls DEF StreamInv, driveVars
    <2>2. QED
        BY <1>1, <2>1, OtherKeeps DEF clientVars
<1>2. CASE UNCHANGED vars
    <2>1. CallsOnTheirWay'
        BY <1>2, SameCalls DEF StreamInv, vars, providerVars, driveVars
    <2>2. QED
        BY <1>2, <2>1, OtherKeeps DEF vars, clientVars
<1>3. QED
    BY <1>1, <1>2, DriveKeeps, ClientKeeps DEF Next

\* Each response stream keeps the contract that the client relies on:
\* it opens once, every message is added once and appended to only after that,
\* it ends once, and nothing follows; whatever the backend sends and whenever
\* the client drops the stream.
THEOREM ContractImplemented == Spec => ImplementsResponseContract
BY StreamInit, StreamStep, TypeCorrect, PTL DEF Spec, ImplementsResponseContract, Contract!Spec

-----------------------------------------------------------------------------
(* Each completed call reaches the client, in order.                        *)

\* Calls start in the order of their indices, one at a time for Anthropic, and
\* leave the accumulator in that order.
AccumOrder(t) ==
    /\ \A i, j \in Calls : j < i /\ accum[t][i] # "none" => accum[t][j] # "none"
    /\ \A i, j \in Calls : SentCall(t, i) /\ j \in Held(t) => i < j
    /\ backend[t] = "anthropic" => \A i, j \in Held(t) : i = j
    /\ provider[t] \notin {"reading", "flushing", "ended"} => \A i \in Calls : accum[t][i] = "none"

AllSent(t) == backend[t] = "openai" => Held(t) = {}

\* What the provider has sent and the drive has not read.
EventsOrder(t) ==
    /\ \A m, n \in 1..Len(events[t]) :
          m < n /\ events[t][m].kind = "call" /\ events[t][n].kind = "call" =>
              events[t][m].index < events[t][n].index
    /\ \A n \in 1..Len(events[t]) :
          events[t][n].kind \in {"done", "error"} => n = Len(events[t]) /\ provider[t] = "ended"
    /\ \A n \in 1..Len(events[t]) : events[t][n].kind = "done" => AllSent(t)

\* What the drive has sent comes before what it has not read.
StreamOrder(t) ==
    /\ \A m, n \in 1..Len(stream[t]) :
          m < n /\ stream[t][m].kind = "call" /\ stream[t][n].kind = "call" =>
              stream[t][m].message < stream[t][n].message
    /\ \A m \in 1..Len(stream[t]), n \in 1..Len(events[t]) :
          stream[t][m].kind = "call" /\ events[t][n].kind = "call" =>
              stream[t][m].message < events[t][n].index
    /\ \A n \in 1..Len(stream[t]) :
          stream[t][n].kind \in {"done", "error"} =>
              n = Len(stream[t]) /\ events[t] = <<>> /\ provider[t] = "ended"
    /\ \A n \in 1..Len(stream[t]) : stream[t][n].kind = "done" => AllSent(t)

\* A call that has left the accumulator whole is on its way.
Underway(t) ==
    outcome[t] = "open" =>
        \A i \in Calls : accum[t][i] = "asked" /\ <<t, i>> \in KnownCalls =>
            \/ \E n \in 1..Len(events[t]) : events[t][n].kind = "call" /\ events[t][n].index = i
            \/ \E n \in 1..Len(stream[t]) : stream[t][n].kind = "call" /\ stream[t][n].message = i

\* How an open stream begins, and that what is appended to has been added.
StreamShape(t) ==
    stream[t] # <<>> =>
        /\ outcome[t] = "open"
        /\ ~named[t] => Len(stream[t]) >= 2
        /\ \A n \in 1..Len(stream[t]) : stream[t][n].kind = "init" <=> n = 1
        /\ \A n \in 1..Len(stream[t]) : stream[t][n].kind = "create" <=> n = 2 /\ ~named[t]
        /\ \A n \in 1..Len(stream[t]) :
              stream[t][n].kind = "append" => \E m \in 1..(n - 1) : stream[t][m].kind = "add"

\* The client holds what it has read of the open stream.
Applied(t) ==
    outcome[t] = "open" =>
        /\ t = turns /\ read <= Len(stream[t])
        /\ has_task <=> named[t] \/ read >= 2
        /\ \A n \in 1..read : stream[t][n].kind = "add" => Part("text", t, 0) \in ToSet(history)
        /\ \A n \in 1..read :
              stream[t][n].kind = "call" => Part("call", t, stream[t][n].message) \in ToSet(history)
        /\ \A n \in 1..Len(history) :
              IsCall(history[n]) /\ history[n].turn = t =>
                  \E m \in 1..read : stream[t][m].kind = "call" /\ stream[t][m].message = history[n].index

HistoryOrder ==
    /\ \A n \in 1..Len(history) : history[n].turn <= turns
    /\ \A m, n \in 1..Len(history) :
          m < n /\ IsCall(history[m]) /\ IsCall(history[n]) /\ history[m].turn = history[n].turn =>
              history[m].index < history[n].index

\* A turn that is done stays as it was when its stream ended.
Delivered(t) ==
    outcome[t] = "done" =>
        /\ provider[t] = "ended"
        /\ \A i \in Completed(t) : <<t, i>> \in KnownCalls => Part("call", t, i) \in ToSet(history)

PipeFollows(t) == AccumOrder(t) /\ EventsOrder(t) /\ StreamOrder(t) /\ Underway(t)

FollowInv ==
    /\ HistoryOrder
    /\ \A t \in Turns : PipeFollows(t) /\ StreamShape(t) /\ Applied(t) /\ Delivered(t)

TurnUnchanged(t) ==
    /\ UNCHANGED <<accum[t], events[t], provider[t], backend[t]>>
    /\ UNCHANGED <<stream[t], outcome[t], named[t]>>

LEMMA SameTurn ==
    ASSUME NEW t \in Turns, TurnUnchanged(t)
    PROVE  /\ AccumOrder(t) => AccumOrder(t)'
           /\ EventsOrder(t) => EventsOrder(t)'
           /\ StreamOrder(t) => StreamOrder(t)'
           /\ Underway(t) => Underway(t)'
           /\ StreamShape(t) => StreamShape(t)'
<1>1. Held(t)' = Held(t) /\ (AllSent(t)' <=> AllSent(t)) /\ \A i : SentCall(t, i)' <=> SentCall(t, i)
    BY DEF TurnUnchanged, Held, AllSent, SentCall
<1>2. AccumOrder(t) => AccumOrder(t)'
    BY <1>1 DEF TurnUnchanged, AccumOrder
<1>3. EventsOrder(t) => EventsOrder(t)'
    BY <1>1 DEF TurnUnchanged, EventsOrder
<1>4. StreamOrder(t) => StreamOrder(t)'
    BY <1>1 DEF TurnUnchanged, StreamOrder
<1>5. Underway(t) => Underway(t)'
    BY DEF TurnUnchanged, Underway
<1>6. StreamShape(t) => StreamShape(t)'
    BY DEF TurnUnchanged, StreamShape
<1>7. QED
    BY <1>2, <1>3, <1>4, <1>5, <1>6

\* What an event that is sent adds to those the drive has not read.
LEMMA Emitted ==
    ASSUME ProviderTypeOK, NEW t \in Turns, NEW kind, NEW index, NEW of, Emit(t, kind, index, of)
    PROVE  LET last == Len(events[t]) + 1
           IN  /\ Len(events[t]) \in Nat /\ Len(events'[t]) = last /\ last \in 1..last
               /\ \A n \in 1..last : n # last => n \in 1..Len(events[t])
               /\ events'[t][last].kind = kind /\ events'[t][last].index = index
               /\ \A n \in 1..Len(events[t]) : events'[t][n] = events[t][n]
               /\ \A u \in Turns : u # t => events'[u] = events[u]
<1>1. events \in [Turns -> Seq(ProviderEvents)] /\ events[t] \in Seq(ProviderEvents)
    BY DEF ProviderTypeOK
<1>2. /\ events'[t] = Append(events[t], ProviderEvent(kind, index, of))
      /\ \A u \in Turns : u # t => events'[u] = events[u]
    BY <1>1 DEF Emit
<1>3. ProviderEvent(kind, index, of).kind = kind /\ ProviderEvent(kind, index, of).index = index
    BY DEF ProviderEvent
<1>4. QED
    BY <1>1, <1>2, <1>3

\* A provider sends nothing after the end of its answer, and calls in order.
LEMMA EmitKeepsOrder ==
    ASSUME ProviderTypeOK, NEW t \in Turns, EventsOrder(t), StreamOrder(t),
           NEW kind, NEW index, NEW of, Emit(t, kind, index, of),
           stream'[t] = stream[t], provider[t] # "ended",
           kind = "call" =>
               /\ \A n \in 1..Len(events[t]) : events[t][n].kind = "call" => events[t][n].index < index
               /\ \A n \in 1..Len(stream[t]) : stream[t][n].kind = "call" => stream[t][n].message < index,
           kind \in {"done", "error"} => provider'[t] = "ended",
           kind = "done" => AllSent(t)'
    PROVE  EventsOrder(t)' /\ StreamOrder(t)'
<1> DEFINE last == Len(events[t]) + 1
<1>1. /\ Len(events[t]) \in Nat /\ Len(events'[t]) = last /\ last \in 1..last
      /\ \A n \in 1..last : n # last => n \in 1..Len(events[t])
      /\ events'[t][last].kind = kind /\ events'[t][last].index = index
      /\ \A n \in 1..Len(events[t]) : events'[t][n] = events[t][n]
    BY Emitted
<1> HIDE DEF last
<1>2. /\ \A n \in 1..Len(events[t]) : events[t][n].kind \notin {"done", "error"}
      /\ \A n \in 1..Len(stream[t]) : stream[t][n].kind \notin {"done", "error"}
    BY DEF EventsOrder, StreamOrder
<1>3. ASSUME NEW m \in 1..last, NEW n \in 1..last, m < n,
             events'[t][m].kind = "call", events'[t][n].kind = "call"
      PROVE  events'[t][m].index < events'[t][n].index
    <2>1. m \in 1..Len(events[t])
        BY <1>1, <1>3 DEF last
    <2>2. CASE n = last
        BY <1>1, <1>3, <2>1, <2>2
    <2>3. CASE n # last
        BY <1>1, <1>3, <2>1, <2>3 DEF EventsOrder
    <2>4. QED
        BY <2>2, <2>3
<1>4. ASSUME NEW n \in 1..last, events'[t][n].kind \in {"done", "error"}
      PROVE  n = last /\ kind = events'[t][n].kind
    BY <1>1, <1>2, <1>4
<1>5. EventsOrder(t)'
    BY <1>1, <1>3, <1>4 DEF EventsOrder
<1>6. ASSUME NEW m \in 1..Len(stream[t]), NEW n \in 1..last,
             stream[t][m].kind = "call", events'[t][n].kind = "call"
      PROVE  stream[t][m].message < events'[t][n].index
    <2>1. CASE n = last
        BY <1>1, <1>6, <2>1
    <2>2. CASE n # last
        BY <1>1, <1>6, <2>2 DEF StreamOrder
    <2>3. QED
        BY <2>1, <2>2
<1>7. StreamOrder(t)'
    BY <1>1, <1>2, <1>6 DEF StreamOrder
<1>8. QED
    BY <1>5, <1>7

LEMMA EmitKeepsUnderway ==
    ASSUME ProviderTypeOK, NEW t \in Turns, Underway(t),
           NEW kind, NEW index, NEW of, Emit(t, kind, index, of),
           UNCHANGED <<stream[t], outcome[t]>>,
           \A i \in Calls : accum'[t][i] = "asked" => accum[t][i] = "asked" \/ (kind = "call" /\ index = i)
    PROVE  Underway(t)'
<1> DEFINE last == Len(events[t]) + 1
<1>1. /\ Len(events[t]) \in Nat /\ Len(events'[t]) = last /\ last \in 1..last
      /\ events'[t][last].kind = kind /\ events'[t][last].index = index
      /\ \A n \in 1..Len(events[t]) : events'[t][n] = events[t][n]
    BY Emitted
<1>2. SUFFICES ASSUME outcome[t] = "open", NEW i \in Calls, accum'[t][i] = "asked", <<t, i>> \in KnownCalls
               PROVE  \/ \E n \in 1..Len(events'[t]) : events'[t][n].kind = "call" /\ events'[t][n].index = i
                      \/ \E n \in 1..Len(stream[t]) : stream[t][n].kind = "call" /\ stream[t][n].message = i
    BY DEF Underway
<1>3. CASE kind = "call" /\ index = i
    BY <1>1, <1>3
<1>4. CASE accum[t][i] = "asked"
    <2>1. \/ \E n \in 1..Len(events[t]) : events[t][n].kind = "call" /\ events[t][n].index = i
          \/ \E n \in 1..Len(stream[t]) : stream[t][n].kind = "call" /\ stream[t][n].message = i
        BY <1>2, <1>4 DEF Underway
    <2>2. \A n \in 1..Len(events[t]) : n \in 1..Len(events'[t])
        BY <1>1
    <2>3. QED
        BY <1>1, <2>1, <2>2
<1>5. QED
    BY <1>2, <1>3, <1>4

\* The accumulator's own steps.
LEMMA AccumSteps ==
    ASSUME ProviderTypeOK, NEW t \in Turns, AccumOrder(t), NEW i \in Calls,
           ModelStartsCall(t, i) \/ ModelEndsCall(t, i) \/ BlockStops(t, i) \/ FlushCall(t, i)
    PROVE  AccumOrder(t)'
<1>1. /\ accum \in [Turns -> [Calls -> {"none", "partial", "whole", "asked", "cut"}]]
      /\ Calls \subseteq Nat
    BY ProviderAssumption DEF ProviderTypeOK
<1>2. UNCHANGED <<provider, backend>> /\ provider[t] \in {"reading", "flushing"}
    BY DEF ModelStartsCall, ModelEndsCall, BlockStops, FlushCall
<1>3. CASE ModelStartsCall(t, i)
    <2>1. /\ accum[t][i] = "none" /\ \A j \in Calls : j < i => accum[t][j] # "none"
          /\ backend[t] = "anthropic" => Held(t) = {}
          /\ accum'[t] = [accum[t] EXCEPT ![i] = "partial"]
        BY <1>1, <1>3 DEF ModelStartsCall
    <2>2. accum'[t][i] = "partial" /\ \A j \in Calls : j # i => accum'[t][j] = accum[t][j]
        BY <1>1, <2>1
    <2>3. Held(t)' = Held(t) \cup {i} /\ \A j : SentCall(t, j)' <=> SentCall(t, j)
        BY <2>1, <2>2 DEF Held, SentCall
    <2>4. \A j \in Calls : SentCall(t, j) => j < i
        <3>1. TAKE j \in Calls
        <3>2. HAVE SentCall(t, j)
        <3>3. j # i /\ accum[t][j] # "none"
            BY <2>1, <3>2 DEF SentCall
        <3>4. ~(i < j)
            BY <2>1, <3>3 DEF AccumOrder
        <3>5. QED
            BY <1>1, <3>3, <3>4
    <2>5. \A j, k \in Calls : k < j /\ accum'[t][j] # "none" => accum'[t][k] # "none"
        BY <2>1, <2>2 DEF AccumOrder
    <2>6. \A j, k \in Calls : SentCall(t, j)' /\ k \in Held(t)' => j < k
        BY <2>3, <2>4 DEF AccumOrder
    <2>7. backend'[t] = "anthropic" => \A j, k \in Held(t)' : j = k
        BY <1>2, <2>1, <2>3
    <2>8. QED
        BY <1>2, <2>5, <2>6, <2>7 DEF AccumOrder
<1>4. CASE ModelEndsCall(t, i)
    <2>1. accum[t][i] = "partial" /\ accum'[t] = [accum[t] EXCEPT ![i] = "whole"]
        BY <1>1, <1>4 DEF ModelEndsCall
    <2>2. accum'[t][i] = "whole" /\ \A j \in Calls : j # i => accum'[t][j] = accum[t][j]
        BY <1>1, <2>1
    <2>3. Held(t)' = Held(t) /\ \A j : SentCall(t, j)' <=> SentCall(t, j)
        BY <2>1, <2>2 DEF Held, SentCall
    <2>4. \A j \in Calls : accum'[t][j] = "none" <=> accum[t][j] = "none"
        BY <2>1, <2>2
    <2>5. QED
        BY <1>2, <2>3, <2>4 DEF AccumOrder
<1>5. CASE BlockStops(t, i) \/ FlushCall(t, i)
    <2>1. i \in Held(t) /\ SendCall(t, i)
        BY <1>5 DEF BlockStops, FlushCall
    <2>2. accum[t][i] \in {"partial", "whole"} /\ accum'[t][i] \in {"asked", "cut"}
          /\ \A j \in Calls : j # i => accum'[t][j] = accum[t][j]
        BY <1>1, <2>1 DEF SendCall, Held
    <2>3. Held(t)' = Held(t) \ {i} /\ \A j \in Calls : SentCall(t, j)' <=> SentCall(t, j) \/ j = i
        BY <2>2 DEF Held, SentCall
    <2>4. \A j \in Held(t) : j # i => i < j
        <3>1. CASE BlockStops(t, i)
            BY <2>1, <3>1 DEF BlockStops, AccumOrder
        <3>2. CASE FlushCall(t, i)
            BY <1>1, <3>2 DEF FlushCall, Held
        <3>3. QED
            BY <1>5, <3>1, <3>2
    <2>5. \A j, k \in Calls : SentCall(t, j)' /\ k \in Held(t)' => j < k
        BY <2>3, <2>4 DEF AccumOrder
    <2>6. \A j \in Calls : accum'[t][j] = "none" <=> accum[t][j] = "none"
        BY <2>2
    <2>7. backend'[t] = "anthropic" => \A j, k \in Held(t)' : j = k
        BY <1>2, <2>3 DEF AccumOrder
    <2>8. QED
        BY <1>2, <2>5, <2>6, <2>7 DEF AccumOrder
<1>6. QED
    BY <1>3, <1>4, <1>5

\* What a provider's step may be to its own turn.
LEMMA ProviderMoves ==
    ASSUME ProviderTypeOK, NEW t \in Turns, AccumOrder(t), HttpStep(t) \/ AcpStep(t)
    PROVE  /\ UNCHANGED backend /\ provider[t] \notin {"none", "ended"}
           /\ \A u \in Turns : u # t =>
                  UNCHANGED <<accum[u], events[u], provider[u]>>
           /\ \/ /\ UNCHANGED <<accum, provider>>
                 /\ \E kind \in {"text", "empty"} : \E of : Emit(t, kind, 0, of)
              \/ /\ UNCHANGED accum /\ provider'[t] = "ended"
                 /\ \E kind \in {"done", "error"} : \E of :
                        Emit(t, kind, 0, of) /\ (kind = "done" => AllSent(t))
              \/ \E i \in Calls : ModelStartsCall(t, i) \/ ModelEndsCall(t, i)
              \/ \E i \in Calls : BlockStops(t, i) \/ FlushCall(t, i)
              \/ /\ UNCHANGED <<accum, events>>
                 /\ provider'[t] \in {"reading", "flushing"} => provider[t] \in {"reading", "flushing"}
                 /\ provider'[t] # "ended"
                 /\ provider'[t] \notin {"reading", "flushing"} => provider[t] \notin {"reading", "flushing"}
<1>1. /\ provider \in [Turns -> Places] /\ events \in [Turns -> Seq(ProviderEvents)]
      /\ accum \in [Turns -> [Calls -> {"none", "partial", "whole", "asked", "cut"}]]
      /\ backend \in [Turns -> Backends \cup {"none"}]
    BY DEF ProviderTypeOK
<1>2. CASE ModelSays(t)
    BY <1>1, <1>2 DEF ModelSays, Emit
<1>3. CASE ModelDone(t) \/ ModelFails(t)
    <2>1. PICK kind \in {"done", "error"} : Emit(t, kind, 0, t)
        BY <1>3 DEF ModelDone, ModelFails
    <2>2. Goto(t, "ended") /\ UNCHANGED <<backend, accum>> /\ provider[t] \in {"reading", "flushing"}
        BY <1>3 DEF ModelDone, ModelFails
    <2>3. ModelDone(t) => AllSent(t)
        BY DEF ModelDone, AllSent
    <2>4. ModelFails(t) => Emit(t, "error", 0, t)
        BY DEF ModelFails
    <2>5. \E k \in {"done", "error"} : \E of : Emit(t, k, 0, of) /\ (k = "done" => AllSent(t))
        BY <1>3, <2>1, <2>3, <2>4
    <2>6. QED
        BY <1>1, <2>1, <2>2, <2>5 DEF Goto, Emit
<1>4. ASSUME NEW i \in Calls, ModelStartsCall(t, i) \/ ModelEndsCall(t, i)
      PROVE  /\ UNCHANGED <<backend, events, provider>> /\ provider[t] = "reading"
             /\ \A u \in Turns : u # t => UNCHANGED accum[u]
    BY <1>1, <1>4 DEF ModelStartsCall, ModelEndsCall
<1>5. ASSUME NEW i \in Calls, BlockStops(t, i) \/ FlushCall(t, i)
      PROVE  /\ UNCHANGED <<backend, provider>> /\ provider[t] \in {"reading", "flushing"}
             /\ \A u \in Turns : u # t => UNCHANGED <<accum[u], events[u]>>
    BY <1>1, <1>5 DEF BlockStops, FlushCall, SendCall, Emit
<1>6. CASE StartFlush(t)
    BY <1>1, <1>6 DEF StartFlush, Goto
<1>7. CASE LockSlot(t) \/ OpenSession(t) \/ Prompt(t)
    BY <1>1, <1>7 DEF LockSlot, OpenSession, Prompt, Goto
<1>8. CASE OpenFails(t) \/ PipeBreaks(t)
    BY <1>1, <1>8 DEF OpenFails, PipeBreaks, PromptFails, Goto, Emit
<1>9. CASE ReadLine(t)
    <2>1. provider[t] = "answering" /\ UNCHANGED <<backend, accum>>
        BY <1>9 DEF ReadLine, PromptFails
    <2>2. AllSent(t)
        BY <2>1 DEF AccumOrder, AllSent, Held
    <2>3. \/ UNCHANGED provider /\ (UNCHANGED events \/ \E of : Emit(t, "text", 0, of))
          \/ Goto(t, "ended") /\ \E kind \in {"done", "error"} : \E of : Emit(t, kind, 0, of)
        BY <1>9 DEF ReadLine, PromptFails
    <2>4. QED
        BY <1>1, <2>1, <2>2, <2>3 DEF Goto, Emit
<1>10. QED
    BY <1>2, <1>3, <1>4, <1>5, <1>6, <1>7, <1>8, <1>9 DEF HttpStep, AcpStep, ModelEnds

LEMMA ProviderPipe ==
    ASSUME TypeOK, CallsOnTheirWay, NEW t \in Turns, PipeFollows(t), HttpStep(t) \/ AcpStep(t),
           UNCHANGED <<stream, outcome>>
    PROVE  PipeFollows(t)'
<1> USE DEF PipeFollows
<1>1. /\ UNCHANGED backend /\ provider[t] \notin {"none", "ended"}
      /\ \/ /\ UNCHANGED <<accum, provider>>
            /\ \E kind \in {"text", "empty"} : \E of : Emit(t, kind, 0, of)
         \/ /\ UNCHANGED accum /\ provider'[t] = "ended"
            /\ \E kind \in {"done", "error"} : \E of :
                   Emit(t, kind, 0, of) /\ (kind = "done" => AllSent(t))
         \/ \E i \in Calls : ModelStartsCall(t, i) \/ ModelEndsCall(t, i)
         \/ \E i \in Calls : BlockStops(t, i) \/ FlushCall(t, i)
         \/ /\ UNCHANGED <<accum, events>>
            /\ provider'[t] \in {"reading", "flushing"} => provider[t] \in {"reading", "flushing"}
            /\ provider'[t] # "ended"
            /\ provider'[t] \notin {"reading", "flushing"} => provider[t] \notin {"reading", "flushing"}
    BY ProviderMoves DEF TypeOK
<1>2. /\ accum \in [Turns -> [Calls -> {"none", "partial", "whole", "asked", "cut"}]]
      /\ stream[t] \in Seq(ResponseEvents) /\ events[t] \in Seq(ProviderEvents) /\ ProviderTypeOK
      /\ Calls \subseteq Nat
    BY ProviderAssumption DEF TypeOK, ProviderTypeOK
<1>3. accum' = accum => Held(t)' = Held(t) /\ (AllSent(t)' <=> AllSent(t)) /\ \A i : SentCall(t, i)' <=> SentCall(t, i)
    BY <1>1 DEF Held, AllSent, SentCall
<1>4. ASSUME UNCHANGED accum,
             provider'[t] \in {"reading", "flushing", "ended"} \/ provider[t] \notin {"reading", "flushing"}
      PROVE  AccumOrder(t)'
    BY <1>1, <1>3, <1>4 DEF AccumOrder
<1>5. ASSUME UNCHANGED accum, provider'[t] \in {provider[t], "ended"},
             NEW kind \in {"text", "empty", "done", "error"}, NEW of, Emit(t, kind, 0, of),
             kind \in {"done", "error"} => provider'[t] = "ended",
             kind = "done" => AllSent(t)
      PROVE  PipeFollows(t)'
    <2>1. EventsOrder(t)' /\ StreamOrder(t)'
        BY <1>1, <1>2, <1>3, <1>5, EmitKeepsOrder
    <2>2. Underway(t)'
        BY <1>2, <1>5, EmitKeepsUnderway
    <2>3. AccumOrder(t)'
        BY <1>1, <1>4, <1>5
    <2>4. QED
        BY <2>1, <2>2, <2>3
<1>6. ASSUME NEW i \in Calls, ModelStartsCall(t, i) \/ ModelEndsCall(t, i)
      PROVE  PipeFollows(t)'
    <2>1. UNCHANGED <<events, provider>> /\ accum[t][i] \in {"none", "partial"}
          /\ \E part \in {"partial", "whole"} : accum' = [accum EXCEPT ![t][i] = part]
        BY <1>6 DEF ModelStartsCall, ModelEndsCall
    <2>2. \A j \in Calls : accum'[t][j] = "asked" <=> accum[t][j] = "asked"
        BY <1>2, <2>1
    <2>3. provider[t] = "reading"
        BY <1>6 DEF ModelStartsCall, ModelEndsCall
    <2>4. /\ \A n \in 1..Len(events[t]) : events[t][n].kind \notin {"done", "error"}
          /\ \A n \in 1..Len(stream[t]) : stream[t][n].kind \notin {"done", "error"}
        BY <2>3 DEF EventsOrder, StreamOrder
    <2>5. EventsOrder(t)'
        BY <2>1, <2>4 DEF EventsOrder
    <2>6. StreamOrder(t)'
        BY <2>1, <2>4 DEF StreamOrder
    <2>7. Underway(t)'
        BY <2>1, <2>2 DEF Underway
    <2>8. AccumOrder(t)'
        BY <1>2, <1>6, AccumSteps
    <2>9. QED
        BY <2>5, <2>6, <2>7, <2>8
<1>7. ASSUME NEW i \in Calls, BlockStops(t, i) \/ FlushCall(t, i)
      PROVE  PipeFollows(t)'
    <2>1. UNCHANGED provider /\ i \in Held(t) /\ SendCall(t, i)
        BY <1>7 DEF BlockStops, FlushCall
    <2>2. Emit(t, "call", i, t) /\ \A j \in Calls : j # i => accum'[t][j] = accum[t][j]
        BY <1>2, <2>1 DEF SendCall
    <2>3. \A n \in 1..Len(events[t]) : events[t][n].kind = "call" => events[t][n].index < i
        <3>1. \A n \in 1..Len(events[t]) : events[t][n].kind = "call" => SentCall(t, events[t][n].index)
            BY DEF CallsOnTheirWay, OnItsWay
        <3>2. QED
            BY <2>1, <3>1 DEF AccumOrder, SentCall
    <2>4. \A n \in 1..Len(stream[t]) : stream[t][n].kind = "call" => stream[t][n].message < i
        <3>1. \A n \in 1..Len(stream[t]) : stream[t][n].kind = "call" => SentCall(t, stream[t][n].message)
            BY DEF CallsOnTheirWay, Contract!Has
        <3>2. QED
            BY <2>1, <3>1 DEF AccumOrder, SentCall
    <2>5. EventsOrder(t)' /\ StreamOrder(t)'
        BY <1>1, <1>2, <2>2, <2>3, <2>4, EmitKeepsOrder
    <2>6. Underway(t)'
        BY <1>2, <2>2, EmitKeepsUnderway
    <2>7. AccumOrder(t)'
        BY <1>2, <1>7, AccumSteps
    <2>8. QED
        BY <2>5, <2>6, <2>7
<1>8. CASE /\ UNCHANGED <<accum, events>>
           /\ provider'[t] \in {"reading", "flushing"} => provider[t] \in {"reading", "flushing"}
           /\ provider'[t] # "ended"
           /\ provider'[t] \notin {"reading", "flushing"} => provider[t] \notin {"reading", "flushing"}
    <2>1. EventsOrder(t)'
        BY <1>1, <1>3, <1>8 DEF EventsOrder
    <2>2. StreamOrder(t)'
        BY <1>1, <1>3, <1>8 DEF StreamOrder
    <2>3. Underway(t)' /\ AccumOrder(t)'
        BY <1>4, <1>8 DEF Underway
    <2>4. QED
        BY <2>1, <2>2, <2>3
<1>9. ASSUME UNCHANGED <<accum, provider>>, NEW kind \in {"text", "empty"}, NEW of, Emit(t, kind, 0, of)
      PROVE  PipeFollows(t)'
    BY <1>5, <1>9
<1>10. ASSUME UNCHANGED accum, provider'[t] = "ended", NEW kind \in {"done", "error"}, NEW of,
              Emit(t, kind, 0, of), kind = "done" => AllSent(t)
       PROVE  PipeFollows(t)'
    BY <1>5, <1>10
<1>11. QED
    BY <1>1, <1>6, <1>7, <1>8, <1>9, <1>10

\* A provider leaves the client alone, and one that has ended does no more.
LEMMA ProviderFollows ==
    ASSUME TypeOK, CallsOnTheirWay, FollowInv, ProviderNext, UNCHANGED <<clientVars, driveVars>>
    PROVE  FollowInv'
<1>1. PICK t \in Turns : HttpStep(t) \/ AcpStep(t) \/ AgentStep(t)
    BY DEF ProviderNext, ProviderStep, ModelStep, HttpStep, AcpStep
<1>2. AgentStep(t) => UNCHANGED <<backend, provider, accum, events>>
    BY DEF AgentStep, AgentSays, AgentAnswers, AgentExits
<1>3. /\ UNCHANGED backend /\ \A u \in Turns : u # t => UNCHANGED <<accum[u], events[u], provider[u]>>
      /\ provider[t] = "ended" => UNCHANGED <<accum[t], provider[t]>>
    BY <1>1, <1>2, ProviderMoves DEF TypeOK, FollowInv, PipeFollows
<1>4. ASSUME NEW u \in Turns PROVE PipeFollows(u)'
    <2>1. CASE u = t /\ (HttpStep(t) \/ AcpStep(t))
        BY <2>1, ProviderPipe DEF FollowInv, clientVars, driveVars
    <2>2. CASE u # t \/ AgentStep(t)
        <3>1. TurnUnchanged(u)
            BY <1>2, <1>3, <2>2 DEF TurnUnchanged, clientVars, driveVars
        <3>2. QED
            BY <3>1, SameTurn DEF FollowInv, PipeFollows
    <2>3. QED
        BY <1>1, <2>1, <2>2
<1>5. ASSUME NEW u \in Turns PROVE StreamShape(u)' /\ Applied(u)'
    BY DEF FollowInv, StreamShape, Applied, clientVars, driveVars
<1>6. ASSUME NEW u \in Turns PROVE Delivered(u)'
    <2>1. provider[u] = "ended" => provider'[u] = "ended" /\ Completed(u)' = Completed(u)
        BY <1>3 DEF Completed
    <2>2. QED
        BY <2>1 DEF FollowInv, Delivered, clientVars
<1>7. HistoryOrder'
    BY DEF FollowInv, HistoryOrder, clientVars
<1>8. QED
    BY <1>4, <1>5, <1>6, <1>7 DEF FollowInv

\* The drive takes the oldest event.
LEMMA TakenFollows ==
    ASSUME TypeOK, NEW t \in Turns, PipeFollows(t), NEW kinds, NextEvent(t, kinds)
    PROVE  /\ EventsOrder(t)' /\ AccumOrder(t)' /\ (AllSent(t)' <=> AllSent(t))
           /\ \A n \in 1..Len(events'[t]) :
                 n \in Nat /\ n + 1 \in 1..Len(events[t]) /\ events'[t][n] = events[t][n + 1]
           /\ \A n \in 1..Len(events[t]) :
                 n = 1 \/ (n - 1 \in 1..Len(events'[t]) /\ events'[t][n - 1] = events[t][n])
           /\ Head(events[t]) = events[t][1] /\ 1 \in 1..Len(events[t])
           /\ Len(events[t]) = 1 => events'[t] = <<>>
           /\ \A n \in 1..Len(stream[t]) : stream[t][n].kind \notin {"done", "error"}
           /\ \A u \in Turns : u # t => events'[u] = events[u]
<1> USE DEF PipeFollows
<1>1. UNCHANGED <<accum, provider, backend>> /\ events[t] # <<>>
    BY DEF NextEvent
<1>2. events \in [Turns -> Seq(ProviderEvents)] /\ events[t] \in Seq(ProviderEvents)
    BY DEF TypeOK, ProviderTypeOK
<1>3. events'[t] = Tail(events[t]) /\ \A u \in Turns : u # t => events'[u] = events[u]
    BY <1>2 DEF NextEvent
<1>4. /\ Len(events[t]) \in Nat /\ Len(events'[t]) = Len(events[t]) - 1
      /\ \A n \in 1..Len(events'[t]) :
            n \in Nat /\ n + 1 \in 1..Len(events[t]) /\ events'[t][n] = events[t][n + 1]
      /\ Head(events[t]) = events[t][1] /\ 1 \in 1..Len(events[t])
      /\ Len(events[t]) = 1 => events'[t] = <<>>
    BY <1>1, <1>2, <1>3
<1>5. \A n \in 1..Len(events[t]) :
          n = 1 \/ (n - 1 \in 1..Len(events'[t]) /\ events'[t][n - 1] = events[t][n])
    BY <1>2, <1>3, <1>4
<1>6. Held(t)' = Held(t) /\ (AllSent(t)' <=> AllSent(t)) /\ \A i : SentCall(t, i)' <=> SentCall(t, i)
    BY <1>1 DEF Held, AllSent, SentCall
<1>7. AccumOrder(t)'
    BY <1>1, <1>6 DEF AccumOrder
<1>8. EventsOrder(t)'
    <2>1. ASSUME NEW m \in 1..Len(events'[t]), NEW n \in 1..Len(events'[t]), m < n,
                 events'[t][m].kind = "call", events'[t][n].kind = "call"
          PROVE  events'[t][m].index < events'[t][n].index
        <3>1. m + 1 < n + 1
            BY <1>4, <2>1
        <3>2. QED
            BY <1>4, <2>1, <3>1 DEF EventsOrder
    <2>2. ASSUME NEW n \in 1..Len(events'[t]), events'[t][n].kind \in {"done", "error"}
          PROVE  n = Len(events'[t]) /\ provider'[t] = "ended"
        <3>1. n + 1 = Len(events[t]) /\ provider[t] = "ended"
            BY <1>4, <2>2 DEF EventsOrder
        <3>2. QED
            BY <1>1, <1>4, <3>1
    <2>3. \A n \in 1..Len(events'[t]) : events'[t][n].kind = "done" => AllSent(t)'
        BY <1>4, <1>6 DEF EventsOrder
    <2>4. QED
        BY <2>1, <2>2, <2>3 DEF EventsOrder
<1>9. \A n \in 1..Len(stream[t]) : stream[t][n].kind \notin {"done", "error"}
    BY <1>1 DEF StreamOrder
<1>10. QED
    BY <1>3, <1>4, <1>5, <1>6, <1>7, <1>8, <1>9

\* An event that is not sent: no known call, or nobody holds the stream.
LEMMA SkippedFollows ==
    ASSUME TypeOK, FollowInv, NEW t \in Turns, NEW kinds, NextEvent(t, kinds), UNCHANGED stream,
           \/ outcome[t] # "open"
           \/ Head(events[t]).kind # "call"
           \/ <<t, Head(events[t]).index>> \notin KnownCalls
    PROVE  FollowInv'
<1>1. UNCHANGED <<accum, provider, backend, clientVars>>
    BY DEF NextEvent
<1>2. /\ EventsOrder(t)' /\ AccumOrder(t)' /\ (AllSent(t)' <=> AllSent(t))
      /\ \A n \in 1..Len(events'[t]) :
            n \in Nat /\ n + 1 \in 1..Len(events[t]) /\ events'[t][n] = events[t][n + 1]
      /\ \A n \in 1..Len(events[t]) :
            n = 1 \/ (n - 1 \in 1..Len(events'[t]) /\ events'[t][n - 1] = events[t][n])
      /\ Head(events[t]) = events[t][1]
      /\ \A n \in 1..Len(stream[t]) : stream[t][n].kind \notin {"done", "error"}
      /\ \A u \in Turns : u # t => events'[u] = events[u]
    BY TakenFollows DEF FollowInv
<1>3. StreamOrder(t)'
    <2>1. StreamOrder(t) /\ stream'[t] = stream[t]
        BY DEF FollowInv, PipeFollows
    <2>2. \A m \in 1..Len(stream[t]), n \in 1..Len(events'[t]) :
              stream[t][m].kind = "call" /\ events'[t][n].kind = "call" =>
                  stream[t][m].message < events'[t][n].index
        <3>1. TAKE m \in 1..Len(stream[t]), n \in 1..Len(events'[t])
        <3>2. n + 1 \in 1..Len(events[t]) /\ events'[t][n] = events[t][n + 1]
            BY <1>2
        <3>3. QED
            BY <2>1, <3>2 DEF StreamOrder
    <2>3. \A n \in 1..Len(stream'[t]) : stream'[t][n].kind \notin {"done", "error"}
        BY <1>2, <2>1
    <2>4. QED
        BY <2>1, <2>2, <2>3 DEF StreamOrder
<1>4. Underway(t)'
    <2>1. SUFFICES ASSUME outcome[t] = "open", NEW i \in Calls, accum[t][i] = "asked", <<t, i>> \in KnownCalls
                   PROVE  \/ \E n \in 1..Len(events'[t]) : events'[t][n].kind = "call" /\ events'[t][n].index = i
                          \/ \E n \in 1..Len(stream[t]) : stream[t][n].kind = "call" /\ stream[t][n].message = i
        BY <1>1 DEF Underway, clientVars
    <2>2. \/ \E n \in 1..Len(events[t]) : events[t][n].kind = "call" /\ events[t][n].index = i
          \/ \E n \in 1..Len(stream[t]) : stream[t][n].kind = "call" /\ stream[t][n].message = i
        BY <2>1 DEF FollowInv, PipeFollows, Underway
    <2>3. ASSUME NEW n \in 1..Len(events[t]), events[t][n].kind = "call", events[t][n].index = i
          PROVE  \E m \in 1..Len(events'[t]) : events'[t][m].kind = "call" /\ events'[t][m].index = i
        <3>1. n # 1
            BY <1>2, <2>1, <2>3
        <3>2. QED
            BY <1>2, <2>3, <3>1
    <2>4. QED
        BY <2>2, <2>3
<1>5. ASSUME NEW u \in Turns PROVE PipeFollows(u)'
    <2>1. CASE u = t
        BY <1>2, <1>3, <1>4, <2>1 DEF PipeFollows
    <2>2. CASE u # t
        <3>1. TurnUnchanged(u)
            BY <1>1, <1>2, <2>2 DEF TurnUnchanged, clientVars
        <3>2. QED
            BY <3>1, SameTurn DEF FollowInv, PipeFollows
    <2>3. QED
        BY <2>1, <2>2
<1>6. ASSUME NEW u \in Turns PROVE StreamShape(u)' /\ Applied(u)' /\ Delivered(u)'
    <2>1. Completed(u)' = Completed(u)
        BY <1>1 DEF Completed
    <2>2. QED
        BY <1>1, <2>1 DEF FollowInv, StreamShape, Applied, Delivered, clientVars
<1>7. HistoryOrder'
    BY <1>1 DEF FollowInv, HistoryOrder, clientVars
<1>8. QED
    BY <1>5, <1>6, <1>7 DEF FollowInv

\* An event that is sent.
LEMMA SentFollows ==
    ASSUME StreamInv, FollowInv, NEW t \in Turns, NEW kinds, NextEvent(t, kinds), outcome[t] = "open",
           NEW event \in ResponseEvents, Send(t, <<event>>),
           event.kind \in {"add", "append", "call", "done", "error"},
           event.kind = "call" => Head(events[t]).index = event.message,
           Head(events[t]).kind = "call" <=> event.kind = "call",
           event.kind \in {"done", "error"} => Head(events[t]).kind = event.kind,
           event.kind = "append" => started_text[t]
    PROVE  FollowInv'
<1> USE DEF StreamInv
<1> DEFINE last == Len(stream[t]) + 1
<1>1. UNCHANGED <<accum, provider, backend, clientVars>> /\ drive[t] = "streaming"
    BY DEF NextEvent
<1>2. /\ EventsOrder(t)' /\ AccumOrder(t)' /\ (AllSent(t)' <=> AllSent(t))
      /\ \A n \in 1..Len(events'[t]) :
            n \in Nat /\ n + 1 \in 1..Len(events[t]) /\ events'[t][n] = events[t][n + 1]
      /\ \A n \in 1..Len(events[t]) :
            n = 1 \/ (n - 1 \in 1..Len(events'[t]) /\ events'[t][n - 1] = events[t][n])
      /\ Head(events[t]) = events[t][1] /\ 1 \in 1..Len(events[t])
      /\ Len(events[t]) = 1 => events'[t] = <<>>
      /\ \A n \in 1..Len(stream[t]) : stream[t][n].kind \notin {"done", "error"}
      /\ \A u \in Turns : u # t => events'[u] = events[u]
    BY TakenFollows DEF FollowInv
<1>3. stream' = [stream EXCEPT ![t] = Append(@, event)] /\ stream[t] \in Seq(ResponseEvents)
    BY HasAfter DEF Send, TypeOK
<1>4. /\ stream'[t] = Append(stream[t], event) /\ Len(stream[t]) \in Nat /\ Len(stream'[t]) = last
      /\ stream'[t][last] = event /\ last \in 1..last
      /\ \A n \in 1..Len(stream[t]) : stream'[t][n] = stream[t][n] /\ n \in 1..last
      /\ \A n \in 1..last : n # last => n \in 1..Len(stream[t])
      /\ \A u \in Turns : u # t => stream'[u] = stream[u]
    BY <1>3 DEF TypeOK
<1>5. stream[t] # <<>> /\ (started_text[t] => \E n \in 1..Len(stream[t]) : stream[t][n].kind = "add")
    BY <1>1 DEF StreamGoesOn, Contract!IsOpen, Contract!Has
<1> HIDE DEF last
<1>6. StreamOrder(t)'
    <2>1. ASSUME NEW m \in 1..last, NEW n \in 1..last, m < n,
                 stream'[t][m].kind = "call", stream'[t][n].kind = "call"
          PROVE  stream'[t][m].message < stream'[t][n].message
        <3>1. m # last /\ m \in 1..Len(stream[t])
            BY <1>4, <2>1 DEF last
        <3>2. CASE n = last
            BY <1>2, <1>4, <2>1, <3>1, <3>2 DEF FollowInv, PipeFollows, StreamOrder
        <3>3. CASE n # last
            BY <1>4, <2>1, <3>1, <3>3 DEF FollowInv, PipeFollows, StreamOrder
        <3>4. QED
            BY <3>2, <3>3
    <2>2. ASSUME NEW m \in 1..last, NEW n \in 1..Len(events'[t]),
                 stream'[t][m].kind = "call", events'[t][n].kind = "call"
          PROVE  stream'[t][m].message < events'[t][n].index
        <3>1. n + 1 \in 1..Len(events[t]) /\ events'[t][n] = events[t][n + 1] /\ 1 < n + 1
            BY <1>2
        <3>2. CASE m = last
            BY <1>2, <1>4, <2>2, <3>1, <3>2 DEF FollowInv, PipeFollows, EventsOrder
        <3>3. CASE m # last
            BY <1>4, <2>2, <3>1, <3>3 DEF FollowInv, PipeFollows, StreamOrder
        <3>4. QED
            BY <3>2, <3>3
    <2>3. ASSUME NEW n \in 1..last, stream'[t][n].kind \in {"done", "error"}
          PROVE  n = last /\ events'[t] = <<>> /\ provider'[t] = "ended" /\ (stream'[t][n].kind = "done" => AllSent(t)')
        <3>1. n = last
            BY <1>2, <1>4, <2>3
        <3>2. events[t][1].kind = stream'[t][n].kind
            BY <1>2, <1>4, <2>3, <3>1
        <3>3. 1 = Len(events[t]) /\ provider[t] = "ended" /\ (events[t][1].kind = "done" => AllSent(t))
            BY <1>2, <2>3, <3>2 DEF FollowInv, PipeFollows, EventsOrder
        <3>4. QED
            BY <1>1, <1>2, <3>1, <3>2, <3>3
    <2>4. QED
        BY <1>4, <2>1, <2>2, <2>3 DEF StreamOrder
<1>7. Underway(t)'
    <2>1. SUFFICES ASSUME NEW i \in Calls, accum[t][i] = "asked", <<t, i>> \in KnownCalls
                   PROVE  \/ \E n \in 1..Len(events'[t]) : events'[t][n].kind = "call" /\ events'[t][n].index = i
                          \/ \E n \in 1..Len(stream'[t]) : stream'[t][n].kind = "call" /\ stream'[t][n].message = i
        BY <1>1 DEF Underway, clientVars
    <2>2. \/ \E n \in 1..Len(events[t]) : events[t][n].kind = "call" /\ events[t][n].index = i
          \/ \E n \in 1..Len(stream[t]) : stream[t][n].kind = "call" /\ stream[t][n].message = i
        BY <2>1 DEF FollowInv, PipeFollows, Underway
    <2>3. ASSUME NEW n \in 1..Len(events[t]), events[t][n].kind = "call", events[t][n].index = i
          PROVE  \/ \E m \in 1..Len(events'[t]) : events'[t][m].kind = "call" /\ events'[t][m].index = i
                 \/ \E m \in 1..Len(stream'[t]) : stream'[t][m].kind = "call" /\ stream'[t][m].message = i
        <3>1. CASE n = 1
            BY <1>2, <1>4, <2>3, <3>1
        <3>2. CASE n # 1
            BY <1>2, <2>3, <3>2
        <3>3. QED
            BY <3>1, <3>2
    <2>4. QED
        BY <1>4, <2>2, <2>3
<1>8. StreamShape(t)'
    <2>1. /\ ~named[t] => Len(stream[t]) >= 2
          /\ \A n \in 1..Len(stream[t]) : stream[t][n].kind = "init" <=> n = 1
          /\ \A n \in 1..Len(stream[t]) : stream[t][n].kind = "create" <=> n = 2 /\ ~named[t]
          /\ \A n \in 1..Len(stream[t]) :
                stream[t][n].kind = "append" => \E m \in 1..(n - 1) : stream[t][m].kind = "add"
        BY <1>5 DEF FollowInv, StreamShape
    <2>2. last # 1 /\ (~named[t] => last # 2) /\ last - 1 = Len(stream[t])
        BY <1>3, <1>4, <1>5, <2>1 DEF last
    <2>3. \A n \in 1..last :
              stream'[t][n].kind = "append" => \E m \in 1..(n - 1) : stream'[t][m].kind = "add"
        <3>1. TAKE n \in 1..last
        <3>2. HAVE stream'[t][n].kind = "append"
        <3>3. CASE n = last
            BY <1>4, <1>5, <2>2, <3>2, <3>3
        <3>4. CASE n # last
            <4>1. PICK m \in 1..(n - 1) : stream[t][m].kind = "add"
                BY <1>4, <2>1, <3>2, <3>4
            <4>2. m \in 1..Len(stream[t])
                BY <1>4, <3>4
            <4>3. QED
                BY <1>4, <4>1, <4>2
        <3>5. QED
            BY <3>3, <3>4
    <2>4. \A n \in 1..last : stream'[t][n].kind = "init" <=> n = 1
        BY <1>4, <2>1, <2>2
    <2>5. \A n \in 1..last : stream'[t][n].kind = "create" <=> n = 2 /\ ~named[t]
        BY <1>4, <2>1, <2>2
    <2>6. ~named[t] => last >= 2
        BY <1>4, <2>1 DEF last
    <2>7. QED
        BY <1>1, <1>4, <2>3, <2>4, <2>5, <2>6 DEF StreamShape, clientVars
<1>9. Applied(t)'
    <2>1. read \in Nat /\ read <= Len(stream[t]) /\ read <= last
        BY <1>4 DEF FollowInv, Applied, TypeOK, last
    <2>2. \A n \in 1..read : n \in 1..Len(stream[t]) /\ stream'[t][n] = stream[t][n]
        BY <1>4, <2>1
    <2>3. QED
        BY <1>1, <1>4, <2>1, <2>2 DEF FollowInv, Applied, clientVars
<1>10. ASSUME NEW u \in Turns, u # t PROVE PipeFollows(u)' /\ StreamShape(u)' /\ Applied(u)'
    <2>1. TurnUnchanged(u)
        BY <1>1, <1>2, <1>4, <1>10 DEF TurnUnchanged, clientVars
    <2>2. PipeFollows(u)' /\ StreamShape(u)'
        BY <2>1, SameTurn DEF FollowInv, PipeFollows
    <2>3. Applied(u)'
        BY <1>1, <1>4, <1>10 DEF FollowInv, Applied, clientVars
    <2>4. QED
        BY <2>2, <2>3
<1>11. ASSUME NEW u \in Turns PROVE Delivered(u)'
    <2>1. Completed(u)' = Completed(u)
        BY <1>1 DEF Completed
    <2>2. QED
        BY <1>1, <2>1 DEF FollowInv, Delivered, clientVars
<1>12. HistoryOrder'
    BY <1>1 DEF FollowInv, HistoryOrder, clientVars
<1>13. QED
    BY <1>2, <1>6, <1>7, <1>8, <1>9, <1>10, <1>11, <1>12 DEF FollowInv, PipeFollows

LEMMA OpenFollows ==
    ASSUME StreamInv, Started, FollowInv, NEW t \in Turns, OpenStream(t)
    PROVE  FollowInv'
<1> USE DEF StreamInv
<1> DEFINE init == Contract!InitEvent(t)
           create == Contract!CreateTask(t)
<1>1. /\ UNCHANGED <<events, accum, backend, clientVars>> /\ provider[t] = "none"
      /\ provider'[t] \in {"reading", "waiting"} /\ drive[t] = "called"
      /\ \A u \in Turns : u # t => provider'[u] = provider[u]
    BY DEF OpenStream, Goto, Started, TypeOK, ProviderTypeOK
<1>2. stream \in [Turns -> Seq(ResponseEvents)] /\ stream[t] = <<>>
    BY <1>1 DEF TypeOK, StreamOpens
<1>3. init.kind = "init" /\ create.kind = "create"
    BY DEF Contract!InitEvent, Contract!CreateTask, Contract!Event
<1> HIDE DEF init, create
<1>4. /\ outcome[t] # "open" => stream'[t] = <<>>
      /\ outcome[t] = "open" => stream'[t] = IF named[t] THEN <<init>> ELSE <<init, create>>
      /\ \A u \in Turns : u # t => stream'[u] = stream[u]
    <2>1. PICK opening \in {<<init>>, <<init, create>>} :
              opening = (IF named[t] THEN <<init>> ELSE <<init, create>>) /\ Send(t, opening)
        BY DEF OpenStream, init, create
    <2>2. <<>> \o opening = opening
        BY SentTyped DEF init, create
    <2>3. QED
        BY <1>2, <2>1, <2>2 DEF Send
<1>5. \A n \in 1..Len(stream'[t]) : stream'[t][n].kind \in {"init", "create"}
    BY <1>3, <1>4
<1>6. \A n \in 1..Len(events[t]) : events[t][n].kind \notin {"done", "error"}
    BY <1>1 DEF FollowInv, PipeFollows, EventsOrder
<1>7. PipeFollows(t)'
    <2>1. Held(t)' = Held(t) /\ \A i : SentCall(t, i)' <=> SentCall(t, i)
        BY <1>1 DEF Held, SentCall
    <2>2. AccumOrder(t)'
        BY <1>1, <2>1 DEF FollowInv, PipeFollows, AccumOrder
    <2>3. EventsOrder(t)'
        BY <1>1, <1>6 DEF FollowInv, PipeFollows, EventsOrder
    <2>4. StreamOrder(t)'
        BY <1>5 DEF StreamOrder
    <2>5. \A i \in Calls : accum[t][i] = "none"
        BY <1>1 DEF FollowInv, PipeFollows, AccumOrder
    <2>6. Underway(t)'
        BY <1>1, <2>5 DEF Underway
    <2>7. QED
        BY <2>2, <2>3, <2>4, <2>6 DEF PipeFollows
<1>8. StreamShape(t)'
    <2>1. CASE outcome[t] # "open"
        BY <1>4, <2>1 DEF StreamShape
    <2>2. CASE outcome[t] = "open" /\ named[t]
        BY <1>1, <1>3, <1>4, <2>2 DEF StreamShape, clientVars
    <2>3. CASE outcome[t] = "open" /\ ~named[t]
        <3>1. stream'[t] = <<init, create>>
            BY <1>4, <2>3
        <3>2. Len(stream'[t]) = 2 /\ stream'[t][1].kind = "init" /\ stream'[t][2].kind = "create"
            BY <1>3, <3>1
        <3>3. \A n \in 1..2 : n = 1 \/ n = 2
            OBVIOUS
        <3>4. UNCHANGED <<named, outcome>>
            BY <1>1 DEF clientVars
        <3>5. QED
            BY <2>3, <3>2, <3>3, <3>4 DEF StreamShape
    <2>4. QED
        BY <2>1, <2>2, <2>3
<1>9. Applied(t)'
    <2>1. SUFFICES ASSUME outcome[t] = "open" PROVE Applied(t)'
        BY <1>1 DEF Applied, clientVars
    <2>2. read = 0
        BY <1>2, <2>1 DEF FollowInv, Applied, TypeOK
    <2>3. 0 <= Len(stream'[t]) /\ read' = 0 /\ 1..read' = {}
        BY <1>1, <1>4, <2>2 DEF clientVars
    <2>4. QED
        BY <1>1, <1>2, <2>1, <2>2, <2>3 DEF FollowInv, Applied, clientVars
<1>10. ASSUME NEW u \in Turns, u # t PROVE PipeFollows(u)' /\ StreamShape(u)' /\ Applied(u)'
    <2>1. TurnUnchanged(u)
        BY <1>1, <1>4, <1>10 DEF TurnUnchanged, clientVars
    <2>2. PipeFollows(u)' /\ StreamShape(u)'
        BY <2>1, SameTurn DEF FollowInv, PipeFollows
    <2>3. Applied(u)'
        BY <1>1, <1>4, <1>10 DEF FollowInv, Applied, clientVars
    <2>4. QED
        BY <2>2, <2>3
<1>11. ASSUME NEW u \in Turns PROVE Delivered(u)'
    <2>1. Completed(u)' = Completed(u) /\ (provider[u] = "ended" => provider'[u] = "ended")
        BY <1>1 DEF Completed
    <2>2. QED
        BY <1>1, <2>1 DEF FollowInv, Delivered, clientVars
<1>12. HistoryOrder'
    BY <1>1 DEF FollowInv, HistoryOrder, clientVars
<1>13. QED
    BY <1>7, <1>8, <1>9, <1>10, <1>11, <1>12 DEF FollowInv

LEMMA DriveFollows ==
    ASSUME StreamInv, Started, FollowInv, NEW t \in Turns, DriveStep(t)
    PROVE  FollowInv'
<1> DEFINE head == Head(events[t])
<1> USE DEF StreamInv
<1>1. CASE ForwardText(t)
    <2>1. NextEvent(t, {"text"}) /\ head.kind = "text"
        BY <1>1 DEF ForwardText, NextEvent
    <2>2. head \in ProviderEvents
        BY <2>1, NextEventTyped
    <2>3. PICK kind \in {"add", "append"} :
              /\ kind = IF started_text[t] THEN "append" ELSE "add"
              /\ Send(t, <<Contract!Event(kind, 0, head.of)>>)
        BY <1>1 DEF ForwardText
    <2> DEFINE event == Contract!Event(kind, 0, head.of)
    <2>4. event \in ResponseEvents /\ event.kind = kind /\ event.message = 0
        BY <2>2 DEF ProviderEvents, Contract!Event, ResponseEvents
    <2>5. CASE outcome[t] = "open"
        BY <2>1, <2>3, <2>4, <2>5, SentFollows
    <2>6. CASE outcome[t] # "open"
        BY <2>1, <2>3, <2>6, SkippedFollows DEF Send
    <2>7. QED
        BY <2>5, <2>6
<1>2. CASE IgnoreEvent(t)
    <2>1. NextEvent(t, {"empty", "call"}) /\ UNCHANGED stream
        BY <1>2 DEF IgnoreEvent, driveVars
    <2>2. head.kind # "call" \/ <<t, head.index>> \notin KnownCalls
        BY <1>2 DEF IgnoreEvent
    <2>3. QED
        BY <2>1, <2>2, SkippedFollows
<1>3. CASE ForwardCall(t)
    <2> DEFINE event == Contract!Event("call", head.index, head.of)
    <2>1. NextEvent(t, {"call"}) /\ Send(t, <<event>>) /\ head.index \in Calls /\ head.kind = "call"
        BY <1>3, ProviderAssumption DEF ForwardCall, NextEvent
    <2>2. head \in ProviderEvents
        BY <2>1, NextEventTyped
    <2>3. event \in ResponseEvents /\ event.kind = "call" /\ event.message = head.index
        BY <2>1, <2>2 DEF ProviderEvents, Contract!Event, ResponseEvents
    <2>4. CASE outcome[t] = "open"
        BY <2>1, <2>3, <2>4, SentFollows
    <2>5. CASE outcome[t] # "open"
        BY <2>1, <2>5, SkippedFollows DEF Send
    <2>6. QED
        BY <2>4, <2>5
<1>4. CASE FinishStream(t)
    <2> DEFINE event == Contract!Event(head.kind, 0, head.of)
    <2>1. NextEvent(t, {"done", "error"}) /\ Send(t, <<event>>) /\ head.kind \in {"done", "error"}
        BY <1>4 DEF FinishStream, NextEvent
    <2>2. head \in ProviderEvents
        BY <2>1, NextEventTyped
    <2>3. event \in ResponseEvents /\ event.kind = head.kind
        BY <2>1, <2>2 DEF ProviderEvents, Contract!Event, ResponseEvents
    <2>4. CASE outcome[t] = "open"
        BY <2>1, <2>3, <2>4, SentFollows
    <2>5. CASE outcome[t] # "open"
        BY <2>1, <2>5, SkippedFollows DEF Send
    <2>6. QED
        BY <2>4, <2>5
<1>5. QED
    BY <1>1, <1>2, <1>3, <1>4, OpenFollows DEF DriveStep

\* The client drops the stream of the turn that is open.
LEMMA EndFollows ==
    ASSUME TypeOK, FollowInv, NEW t \in Turns, outcome[t] = "open",
           NEW how \in {"done", "error", "stopped"}, EndTurn(t, how),
           UNCHANGED <<providerVars, turns, history, named>>,
           how = "done" => provider[t] = "ended" /\
               \A i \in Completed(t) : <<t, i>> \in KnownCalls => Part("call", t, i) \in ToSet(history)
    PROVE  FollowInv'
<1>1. /\ stream'[t] = <<>> /\ \A u \in Turns : u # t => stream'[u] = stream[u]
      /\ outcome'[t] = how /\ \A u \in Turns : u # t => outcome'[u] = outcome[u]
      /\ UNCHANGED <<events, accum, provider, backend>>
    BY DEF EndTurn, TypeOK, providerVars
<1>2. PipeFollows(t)'
    <2>1. Held(t)' = Held(t) /\ (AllSent(t)' <=> AllSent(t)) /\ \A i : SentCall(t, i)' <=> SentCall(t, i)
        BY <1>1 DEF Held, AllSent, SentCall
    <2>2. AccumOrder(t)' /\ EventsOrder(t)'
        BY <1>1, <2>1 DEF FollowInv, PipeFollows, AccumOrder, EventsOrder
    <2>3. StreamOrder(t)'
        BY <1>1 DEF StreamOrder
    <2>4. Underway(t)'
        BY <1>1 DEF Underway
    <2>5. QED
        BY <2>2, <2>3, <2>4 DEF PipeFollows
<1>3. StreamShape(t)' /\ Applied(t)'
    BY <1>1 DEF StreamShape, Applied
<1>4. ASSUME NEW u \in Turns, u # t PROVE PipeFollows(u)' /\ StreamShape(u)' /\ Applied(u)'
    <2>1. TurnUnchanged(u)
        BY <1>1, <1>4 DEF TurnUnchanged
    <2>2. PipeFollows(u)' /\ StreamShape(u)'
        BY <2>1, SameTurn DEF FollowInv, PipeFollows
    <2>3. outcome[u] # "open"
        BY <1>4 DEF FollowInv, Applied
    <2>4. Applied(u)'
        BY <1>1, <1>4, <2>3 DEF Applied
    <2>5. QED
        BY <2>2, <2>4
<1>5. ASSUME NEW u \in Turns PROVE Delivered(u)'
    <2>1. Completed(u)' = Completed(u)
        BY <1>1 DEF Completed
    <2>2. CASE u = t
        BY <1>1, <2>1, <2>2 DEF Delivered
    <2>3. CASE u # t
        BY <1>1, <2>1, <2>3 DEF FollowInv, Delivered
    <2>4. QED
        BY <2>2, <2>3
<1>6. HistoryOrder'
    BY DEF FollowInv, HistoryOrder
<1>7. QED
    BY <1>2, <1>3, <1>4, <1>5, <1>6 DEF FollowInv

LEMMA SendTurnFollows ==
    ASSUME StreamInv, Started, FollowInv, NEW t \in Turns, NEW kind \in {"query", "results", "resume"},
           NEW b \in Backends, SendTurn(t, kind, b)
    PROVE  FollowInv'
<1> USE DEF StreamInv
<1>1. /\ UNCHANGED <<events, accum, provider, stream, history, has_task>> /\ t = turns + 1 /\ turns' = t /\ read' = 0
      /\ outcome'[t] = "open" /\ \A u \in Turns : u # t => outcome'[u] = outcome[u]
      /\ named'[t] = has_task /\ \A u \in Turns : u # t => named'[u] = named[u]
      /\ \A u \in Turns : u # t => backend'[u] = backend[u]
    BY DEF SendTurn, TypeOK, ProviderTypeOK
<1>2. turns \in Nat /\ t \in Nat /\ Turns \subseteq Nat \ {0}
    BY ProviderAssumption DEF TypeOK
<1>3. provider[t] = "none" /\ stream[t] = <<>>
    BY <1>1, <1>2 DEF Started, StreamOpens
<1>4. \A u \in Turns : outcome[u] # "open"
    <2>1. TAKE u \in Turns
    <2>2. CASE turns # 0
        <3>1. outcome[turns] # "open"
            BY <2>2 DEF SendTurn, MaySend, LastOutcome
        <3>2. QED
            BY <3>1 DEF FollowInv, Applied
    <2>3. CASE turns = 0
        BY <1>2, <2>3 DEF FollowInv, Applied
    <2>4. QED
        BY <2>2, <2>3
<1>5. \A i \in Calls : accum[t][i] = "none"
    BY <1>3 DEF FollowInv, PipeFollows, AccumOrder
<1>6. Held(t)' = {} /\ \A i : ~SentCall(t, i)'
    BY <1>1, <1>5 DEF Held, SentCall
<1>7. PipeFollows(t)'
    <2>1. AccumOrder(t)'
        BY <1>1, <1>5, <1>6 DEF AccumOrder
    <2>2. EventsOrder(t)'
        BY <1>1, <1>6 DEF FollowInv, PipeFollows, EventsOrder, AllSent
    <2>3. StreamOrder(t)'
        BY <1>1, <1>3 DEF StreamOrder
    <2>4. Underway(t)'
        BY <1>1, <1>5 DEF Underway
    <2>5. QED
        BY <2>1, <2>2, <2>3, <2>4 DEF PipeFollows
<1>8. StreamShape(t)' /\ Applied(t)'
    <2>1. StreamShape(t)'
        BY <1>1, <1>3 DEF StreamShape
    <2>2. 1..read' = {} /\ Len(stream'[t]) = 0 /\ read' <= 0 /\ ~(read' >= 2)
        BY <1>1, <1>3
    <2>3. \A n \in 1..Len(history) : history[n].turn # t
        <3>1. \A n \in 1..Len(history) : history[n].turn <= turns
            BY DEF FollowInv, HistoryOrder
        <3>2. QED
            BY <1>1, <1>2, <3>1
    <2>4. Applied(t)'
        BY <1>1, <2>2, <2>3 DEF Applied
    <2>5. QED
        BY <2>1, <2>4
<1>9. ASSUME NEW u \in Turns, u # t PROVE PipeFollows(u)' /\ StreamShape(u)' /\ Applied(u)'
    <2>1. TurnUnchanged(u)
        BY <1>1, <1>9 DEF TurnUnchanged
    <2>2. PipeFollows(u)' /\ StreamShape(u)'
        BY <2>1, SameTurn DEF FollowInv, PipeFollows
    <2>3. Applied(u)'
        BY <1>1, <1>4, <1>9 DEF Applied
    <2>4. QED
        BY <2>2, <2>3
<1>10. ASSUME NEW u \in Turns PROVE Delivered(u)'
    <2>1. CASE u = t
        BY <1>1, <2>1 DEF Delivered
    <2>2. CASE u # t
        <3>1. Completed(u)' = Completed(u)
            BY <1>1, <2>2 DEF Completed
        <3>2. QED
            BY <1>1, <2>2, <3>1 DEF FollowInv, Delivered
    <2>3. QED
        BY <2>1, <2>2
<1>11. HistoryOrder'
    <2>1. \A n \in 1..Len(history) : history[n].turn <= turns'
        <3>1. TAKE n \in 1..Len(history)
        <3>2. history[n].turn \in Nat /\ history[n].turn <= turns
            <4>1. history \in Seq(HistoryParts)
                BY DEF TypeOK
            <4>2. history[n] \in HistoryParts
                BY <4>1
            <4>3. QED
                BY <1>2, <4>2 DEF FollowInv, HistoryOrder, HistoryParts
        <3>3. QED
            BY <1>1, <1>2, <3>2
    <2>2. QED
        BY <1>1, <2>1 DEF FollowInv, HistoryOrder
<1>12. QED
    BY <1>7, <1>8, <1>9, <1>10, <1>11 DEF FollowInv

\* The client takes in the next event of the open stream.
LEMMA ApplyFollows ==
    ASSUME TypeOK, FollowInv, NEW t \in Turns, ApplyEvent(t)
    PROVE  FollowInv'
<1> DEFINE next == read + 1
           event == stream[t][next]
<1>1. /\ t = turns /\ outcome[t] = "open" /\ read < Len(stream[t])
      /\ UNCHANGED <<providerVars, turns, named>>
      /\ has_task' = (has_task \/ event.kind = "create")
      /\ history' = CASE event.kind = "add" -> Append(history, Part("text", t, 0))
                      [] event.kind = "call" -> Append(history, Part("call", t, event.message))
                      [] OTHER -> history
      /\ IF event.kind \in {"done", "error"} THEN EndTurn(t, event.kind)
         ELSE read' = next /\ UNCHANGED <<outcome, driveVars>>
    BY DEF ApplyEvent, Unread
<1>2. /\ read \in Nat /\ next \in 1..Len(stream[t]) /\ stream[t] # <<>>
      /\ stream[t] \in Seq(ResponseEvents) /\ history \in Seq(HistoryParts)
      /\ Turns \subseteq Nat /\ turns \in Nat
    BY <1>1, ProviderAssumption DEF TypeOK
<1>3. /\ \A n \in 1..next : n = next \/ n \in 1..read
      /\ \A n \in 1..read : n < next
    BY <1>2
<1>4. /\ PipeFollows(t) /\ StreamShape(t) /\ Applied(t) /\ HistoryOrder
    BY DEF FollowInv
<1> HIDE DEF next, event
<1>5. CASE event.kind \in {"done", "error"}
    <2>1. EndTurn(t, event.kind) /\ history' = history
        BY <1>1, <1>5
    <2>2. next = Len(stream[t]) /\ events[t] = <<>> /\ provider[t] = "ended" /\ (event.kind = "done" => AllSent(t))
        BY <1>2, <1>4, <1>5 DEF PipeFollows, StreamOrder, event
    <2>3. ASSUME event.kind = "done", NEW i \in Completed(t), <<t, i>> \in KnownCalls
          PROVE  Part("call", t, i) \in ToSet(history)
        <3>1. i \in Calls /\ accum[t][i] = "asked"
            BY <2>2, <2>3 DEF Completed, AllSent, Held
        <3>2. Len(events[t]) = 0
            BY <2>2
        <3>3. PICK n \in 1..Len(stream[t]) : stream[t][n].kind = "call" /\ stream[t][n].message = i
            BY <1>1, <1>4, <2>3, <3>1, <3>2 DEF PipeFollows, Underway
        <3>4. n # next
            BY <2>3, <3>3 DEF event
        <3>5. n \in 1..read
            BY <1>2, <1>3, <2>2, <3>4
        <3>6. QED
            BY <1>1, <1>4, <3>3, <3>5 DEF Applied
    <2>4. QED
        BY <1>1, <1>5, <2>1, <2>2, <2>3, EndFollows
<1>6. CASE event.kind \notin {"done", "error"}
    <2>1. read' = next /\ UNCHANGED <<outcome, drive, started_text, stream, events, accum, provider, backend>>
        BY <1>1, <1>6 DEF driveVars, providerVars
    <2>2. ASSUME NEW u \in Turns PROVE PipeFollows(u)' /\ StreamShape(u)'
        <3>1. TurnUnchanged(u)
            BY <1>1, <2>1 DEF TurnUnchanged
        <3>2. QED
            BY <3>1, SameTurn DEF FollowInv, PipeFollows
    <2> DEFINE last == Len(history) + 1
               part == IF event.kind = "add" THEN Part("text", t, 0) ELSE Part("call", t, event.message)
    <2>3. event.kind \in {"add", "call"} => history' = Append(history, part)
        BY <1>1
    <2>4. event.kind \notin {"add", "call"} => history' = history
        BY <1>1
    <2>5. /\ part.turn = t /\ (part.kind = "call" <=> event.kind # "add")
          /\ event.kind = "add" => part = Part("text", t, 0)
          /\ event.kind = "call" => part = Part("call", t, event.message) /\ part.index = event.message
        BY DEF Part
    <2> HIDE DEF part
    <2>6. /\ Len(history) \in Nat /\ \A n \in 1..Len(history) : n \in 1..Len(history') /\ history'[n] = history[n]
          /\ \A n \in 1..Len(history') : n \in 1..Len(history) \/
                (n = last /\ history'[n] = part /\ event.kind \in {"add", "call"} /\ Len(history') = last)
          /\ event.kind \in {"add", "call"} => last \in 1..Len(history') /\ history'[last] = part
        <3>1. CASE event.kind \in {"add", "call"}
            <4>1. /\ Len(history) \in Nat /\ Len(history') = last /\ history'[last] = part
                  /\ \A n \in 1..Len(history) : history'[n] = history[n]
                BY <1>2, <2>3, <3>1
            <4>2. /\ \A n \in 1..last : n \in 1..Len(history) \/ n = last
                  /\ \A n \in 1..Len(history) : n \in 1..last
                  /\ last \in 1..last
                BY <4>1
            <4>3. QED
                BY <3>1, <4>1, <4>2
        <3>2. CASE event.kind \notin {"add", "call"}
            BY <1>2, <2>4, <3>2
        <3>3. QED
            BY <3>1, <3>2
    <2> HIDE DEF last
    <2>7. /\ \A p : p \in ToSet(history) => p \in ToSet(history')
          /\ event.kind \in {"add", "call"} => part \in ToSet(history')
        <3>1. DOMAIN history = 1..Len(history) /\ DOMAIN history' = 1..Len(history')
            BY <1>2, <2>3, <2>4
        <3>2. QED
            BY <2>6, <3>1 DEF ToSet
    <2>8. ASSUME NEW n \in 1..Len(history), IsCall(history[n]), history[n].turn = t, event.kind = "call"
          PROVE  history[n].index < part.index
        <3>1. PICK m \in 1..read : stream[t][m].kind = "call" /\ stream[t][m].message = history[n].index
            BY <1>1, <1>4, <2>8 DEF Applied
        <3>2. m \in 1..Len(stream[t]) /\ m < next
            BY <1>1, <1>2, <1>3
        <3>3. QED
            BY <1>2, <1>4, <2>5, <2>8, <3>1, <3>2 DEF PipeFollows, StreamOrder, event
    <2>9. HistoryOrder'
        <3>1. \A n \in 1..Len(history') : history'[n].turn <= turns
            BY <1>1, <1>2, <1>4, <2>5, <2>6 DEF HistoryOrder
        <3>2. ASSUME NEW m \in 1..Len(history'), NEW n \in 1..Len(history'), m < n,
                     IsCall(history'[m]), IsCall(history'[n]), history'[m].turn = history'[n].turn
              PROVE  history'[m].index < history'[n].index
            <4>1. m \in 1..Len(history) /\ history'[m] = history[m]
                BY <2>6, <3>2 DEF last
            <4>2. CASE n \in 1..Len(history)
                BY <1>4, <2>6, <3>2, <4>1, <4>2 DEF HistoryOrder
            <4>3. CASE n \notin 1..Len(history)
                <5>1. history'[n] = part /\ event.kind \in {"add", "call"}
                    BY <2>6, <4>3
                <5>2. event.kind = "call" /\ history[m].turn = t /\ IsCall(history[m])
                    BY <2>5, <3>2, <4>1, <5>1 DEF IsCall
                <5>3. QED
                    BY <2>8, <4>1, <5>1, <5>2
            <4>4. QED
                BY <4>2, <4>3
        <3>3. QED
            BY <1>1, <3>1, <3>2 DEF HistoryOrder
    <2>10. ASSUME NEW u \in Turns PROVE Delivered(u)'
        <3>1. Completed(u)' = Completed(u)
            BY <2>1 DEF Completed
        <3>2. QED
            BY <2>1, <2>7, <3>1 DEF FollowInv, Delivered
    <2>11. ASSUME NEW u \in Turns, u # t PROVE Applied(u)'
        BY <1>1, <2>1, <2>11 DEF FollowInv, Applied
    <2>12. Applied(t)'
        <3>1. t = turns' /\ read' <= Len(stream'[t])
            BY <1>1, <1>2, <2>1
        <3>2. has_task' <=> named'[t] \/ read' >= 2
            <4>1. has_task <=> named[t] \/ read >= 2
                BY <1>1, <1>4 DEF Applied
            <4>2. event.kind = "create" <=> next = 2 /\ ~named[t]
                BY <1>2, <1>4 DEF StreamShape, event
            <4>3. next >= 2 <=> read >= 2 \/ next = 2
                BY <1>2 DEF next
            <4>4. QED
                BY <1>1, <2>1, <4>1, <4>2, <4>3
        <3>3. ASSUME NEW n \in 1..next
              PROVE  /\ stream[t][n].kind = "add" => Part("text", t, 0) \in ToSet(history')
                     /\ stream[t][n].kind = "call" => Part("call", t, stream[t][n].message) \in ToSet(history')
            <4>1. CASE n = next
                BY <2>5, <2>7, <4>1 DEF event
            <4>2. CASE n # next
                <5>1. n \in 1..read
                    BY <1>3, <4>2
                <5>2. QED
                    BY <1>1, <1>4, <2>7, <5>1 DEF Applied
            <4>3. QED
                BY <4>1, <4>2
        <3>4. ASSUME NEW n \in 1..Len(history'), IsCall(history'[n]), history'[n].turn = t
              PROVE  \E m \in 1..next : stream[t][m].kind = "call" /\ stream[t][m].message = history'[n].index
            <4>1. CASE n \in 1..Len(history)
                <5>1. \E m \in 1..read : stream[t][m].kind = "call" /\ stream[t][m].message = history[n].index
                    BY <1>1, <1>4, <2>6, <3>4, <4>1 DEF Applied
                <5>2. \A m \in 1..read : m \in 1..next
                    BY <1>2 DEF next
                <5>3. QED
                    BY <2>6, <4>1, <5>1, <5>2
            <4>2. CASE n \notin 1..Len(history)
                <5>1. history'[n] = part /\ event.kind = "call"
                    BY <2>5, <2>6, <3>4, <4>2 DEF IsCall
                <5>2. next \in 1..next
                    BY <1>2
                <5>3. QED
                    BY <2>5, <5>1, <5>2 DEF event
            <4>3. QED
                BY <4>1, <4>2
        <3>5. QED
            BY <2>1, <3>1, <3>2, <3>3, <3>4 DEF Applied
    <2>13. QED
        BY <2>2, <2>9, <2>10, <2>11, <2>12 DEF FollowInv
<1>7. QED
    BY <1>5, <1>6

LEMMA ClientStepFollows ==
    ASSUME StreamInv, Started, FollowInv, NEW t \in Turns, ClientStep(t)
    PROVE  FollowInv'
<1>1. CASE StopTurn(t)
    BY <1>1, EndFollows DEF StreamInv, StopTurn
<1>2. QED
    BY <1>1, SendTurnFollows, ApplyFollows DEF StreamInv, ClientStep

LEMMA FollowInit == Init => FollowInv
<1> SUFFICES ASSUME Init PROVE FollowInv
    OBVIOUS
<1>1. HistoryOrder
    BY DEF Init, HistoryOrder
<1>2. ASSUME NEW t \in Turns PROVE PipeFollows(t) /\ StreamShape(t) /\ Applied(t) /\ Delivered(t)
    <2>1. accum[t] = [i \in Calls |-> "none"] /\ events[t] = <<>> /\ stream[t] = <<>> /\ outcome[t] = "unsent"
        BY DEF Init, ProviderInit
    <2>2. AccumOrder(t) /\ Underway(t)
        BY <2>1 DEF AccumOrder, Underway, SentCall, Held
    <2>3. EventsOrder(t) /\ StreamOrder(t)
        BY <2>1 DEF EventsOrder, StreamOrder
    <2>4. StreamShape(t) /\ Applied(t) /\ Delivered(t)
        BY <2>1 DEF StreamShape, Applied, Delivered
    <2>5. QED
        BY <2>2, <2>3, <2>4 DEF PipeFollows
<1>3. QED
    BY <1>1, <1>2 DEF FollowInv

LEMMA FollowsDelivers ==
    ASSUME TypeOK, FollowInv
    PROVE  ClientFollows
<1>1. CallsReachClientOnce
    <2>1. ASSUME NEW t \in Turns, NEW m \in 1..Len(history), NEW n \in 1..Len(history), m < n,
                 IsCallOf(history[m], t), IsCallOf(history[n], t)
          PROVE  history[m].index < history[n].index
        BY <2>1 DEF FollowInv, HistoryOrder, IsCallOf
    <2>2. QED
        BY <2>1 DEF FollowInv, Delivered, CallsReachClientOnce
<1>2. ASSUME NEW t \in Turns, Unread(t)
      PROVE  LET event == stream[t][read + 1]
             IN  /\ event.kind = "create" => ~has_task
                 /\ event.kind \in {"add", "append", "call"} => has_task
                 /\ event.kind = "append" => Part("text", t, 0) \in ToSet(history)
    <2> DEFINE next == read + 1
    <2>1. /\ outcome[t] = "open" /\ read \in Nat /\ next \in 1..Len(stream[t]) /\ stream[t] # <<>>
        BY <1>2 DEF Unread, TypeOK
    <2>2. /\ has_task <=> named[t] \/ read >= 2
          /\ \A n \in 1..read : stream[t][n].kind = "add" => Part("text", t, 0) \in ToSet(history)
        BY <2>1 DEF FollowInv, Applied
    <2>3. /\ stream[t][next].kind = "init" <=> next = 1
          /\ stream[t][next].kind = "create" <=> next = 2 /\ ~named[t]
          /\ stream[t][next].kind = "append" => \E m \in 1..(next - 1) : stream[t][m].kind = "add"
        BY <2>1 DEF FollowInv, StreamShape
    <2>4. next - 1 = read /\ (next # 1 /\ next # 2 => read >= 2) /\ (next = 2 => ~(read >= 2))
        BY <2>1
    <2>5. QED
        BY <2>2, <2>3, <2>4
<1>3. QED
    BY <1>1, <1>2 DEF ClientFollows, ClientCanApply

\* What the client has read is what the model has said: a turn seen done has
\* brought each completed call of a known tool, once and in the order of the
\* indices, and every event finds the task and the message it is for.
THEOREM ClientKeepsUp == Spec => []ClientFollows
<1>1. Started /\ TypeOK /\ StreamOpens /\ StreamGoesOn /\ CallsOnTheirWay /\ FollowInv /\ [Next]_vars => FollowInv'
    <2> SUFFICES ASSUME Started, StreamInv, FollowInv, [Next]_vars PROVE FollowInv'
        BY DEF StreamInv
    <2>1. CASE ProviderNext /\ UNCHANGED <<clientVars, driveVars>>
        BY <2>1, ProviderFollows DEF StreamInv
    <2>2. CASE UNCHANGED vars
        <3>1. ASSUME NEW u \in Turns PROVE TurnUnchanged(u) /\ Completed(u)' = Completed(u)
            BY <2>2 DEF vars, providerVars, clientVars, driveVars, TurnUnchanged, Completed
        <3>2. ASSUME NEW u \in Turns PROVE PipeFollows(u)' /\ StreamShape(u)'
            BY <3>1, SameTurn DEF FollowInv, PipeFollows
        <3>3. ASSUME NEW u \in Turns PROVE Applied(u)' /\ Delivered(u)'
            BY <2>2, <3>1 DEF vars, providerVars, clientVars, driveVars, FollowInv, Applied, Delivered
        <3>4. HistoryOrder'
            BY <2>2 DEF vars, clientVars, FollowInv, HistoryOrder
        <3>5. QED
            BY <3>2, <3>3, <3>4 DEF FollowInv
    <2>3. QED
        BY <2>1, <2>2, DriveFollows, ClientStepFollows DEF Next
<1>2. TypeOK /\ FollowInv => ClientFollows
    BY FollowsDelivers
<1>3. QED
    BY <1>1, <1>2, FollowInit, StreamInit, StreamStep, AnswerInit, AnswersStep, TypeCorrect, PTL DEF Spec
=============================================================================
