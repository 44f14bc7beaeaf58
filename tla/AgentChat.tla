------------------------------ MODULE AgentChat ------------------------------
(***************************************************************************)
(* One message of an agent to the assistant (aiChatService.ts and          *)
(* POST /api/agent/ai/chat).  The model may call tools, all of them reads  *)
(* of the agent's own data; after at most three such rounds the answer is  *)
(* streamed.  The model is any: it calls what it likes, and any request to *)
(* it may fail.                                                            *)
(***************************************************************************)
EXTENDS Naturals

CONSTANTS
    Contact, Property, Transaction, Task, Action,
    Of,         \* transaction -> its property
    Call,       \* tool calls of one message of the model
    MaxMoves    \* bound on changes of the data meanwhile

Rounds == 3

VARIABLES
    mine,       \* contacts of the agent's account, and what is assigned to the agent
    open,       \* tasks to be done and actions to be decided
    step,       \* "idle", "ask", "asking", "tools", "stream", "sent" or "failed"
    round,      \* requests with tools that were answered
    calls,      \* call -> the tool it names, or Custom, of the last message of the model
    answered,   \* calls of it with a result in the conversation
    entities,   \* items collected for the cards
    chunks,     \* whether any text was sent
    seen,       \* history: the agent's own when a tool read it
    moves

vars == <<mine, open, step, round, calls, answered, entities, chunks, seen, moves>>

Owned == Contact \cup Transaction \cup Task \cup Action
Closable == Task \cup Action
Item == Owned \cup Property
NoCalls == [c \in {} |-> "unknown"]

\* A call that is not of a function.  The tools offered are all functions.
Custom == "custom"

Init ==
    /\ mine \in SUBSET Owned
    /\ open = Closable
    /\ step = "idle" /\ round = 0
    /\ calls = NoCalls /\ answered = {}
    /\ entities = {} /\ seen = {} /\ chunks = FALSE
    /\ moves = 0

\* Meanwhile the data changes: something is made over to another agent, or back,
Move(i) ==
    /\ moves < MaxMoves
    /\ mine' = IF i \in mine THEN mine \ {i} ELSE mine \cup {i}
    /\ moves' = moves + 1
    /\ UNCHANGED <<open, step, round, calls, answered, entities, chunks, seen>>

\* or a task or an action is dealt with.
Close(i) ==
    /\ i \in open /\ moves < MaxMoves
    /\ open' = open \ {i}
    /\ moves' = moves + 1
    /\ UNCHANGED <<mine, step, round, calls, answered, entities, chunks, seen>>

-----------------------------------------------------------------------------
\* What the tools find: the agent is never named by the model.

\* Contacts of the account of the agent's first membership.
ListContacts == Contact \cap mine

\* Properties of the transactions assigned to the agent.
ListProperties == {Of[t] : t \in Transaction \cap mine}

\* Open tasks assigned to the agent.
ListTasks == Task \cap mine \cap open

\* The agent's actions that are pending or have failed.
ListActions == Action \cap mine \cap open

\* The transaction, when it is assigned to the agent.
SummarizeTransaction == Transaction \cap mine

\* executeTool; a name it does not know finds nothing.  (The limit of a list is an
\* argument the model chooses, at most 20; one below zero takes the last ones, however
\* many: any part of what matches.)
Results == [list_contacts |-> ListContacts, list_properties |-> ListProperties,
            list_tasks |-> ListTasks, list_action_queue_items |-> ListActions,
            summarize_transaction |-> SummarizeTransaction, unknown |-> {}]

\* The calls the loop executes; the others it passes over.
Functions == {c \in DOMAIN calls : calls[c] # Custom}

Own == mine \cup {Of[t] : t \in Transaction \cap mine}

\* POST /chat with messages of users and assistants; others are refused.
Open ==
    /\ step = "idle"
    /\ step' = "ask"
    /\ UNCHANGED <<mine, open, round, calls, answered, entities, chunks, seen, moves>>

-----------------------------------------------------------------------------

\* chatWithTools sends the conversation, with the tools.
Ask ==
    /\ step = "ask"
    /\ step' = "asking"
    /\ UNCHANGED <<mine, open, round, calls, answered, entities, chunks, seen, moves>>

\* The model answers with calls of tools.
AnswerWithCalls(asked) ==
    /\ step = "asking" /\ DOMAIN asked # {}
    /\ step' = "tools" /\ round' = round + 1
    /\ calls' = asked /\ answered' = {}
    /\ UNCHANGED <<mine, open, entities, chunks, seen, moves>>

\* It answers with text: that is the answer, if no tool was called; else another
\* request is to stream it.
AnswerWithText(text) ==
    /\ step = "asking"
    /\ IF round = 0
       THEN step' = "sent" /\ chunks' = text
       ELSE step' = "stream" /\ UNCHANGED chunks
    /\ calls' = NoCalls /\ answered' = {}
    /\ UNCHANGED <<mine, open, round, entities, seen, moves>>

\* executeTool: what the tool finds among the agent's own.
Execute(c, found) ==
    /\ step = "tools" /\ c \in Functions \ answered
    /\ found \subseteq Results[calls[c]]
    /\ entities' = entities \cup found
    /\ seen' = seen \cup Own
    /\ answered' = answered \cup {c}
    /\ UNCHANGED <<mine, open, step, round, calls, chunks, moves>>

\* Mutant: a tool that fails ends the round, and its call has no result.
ExecuteFails_Ends(c) ==
    /\ step = "tools" /\ c \in Functions \ answered
    /\ step' = "ask"
    /\ UNCHANGED <<mine, open, round, calls, answered, entities, chunks, seen, moves>>

\* A query of a tool fails: the result says so.
ExecuteFails(c) ==
    /\ step = "tools" /\ c \in Functions \ answered
    /\ answered' = answered \cup {c}
    /\ UNCHANGED <<mine, open, step, round, calls, entities, chunks, seen, moves>>

\* Every call of a function has its result: the next round, or after three the answer.
NextRound ==
    /\ step = "tools" /\ answered = Functions
    /\ step' = IF round < Rounds THEN "ask" ELSE "stream"
    /\ UNCHANGED <<mine, open, round, calls, answered, entities, chunks, seen, moves>>

\* The final answer, without tools: text arrives, and the stream ends.
Stream ==
    /\ step = "stream" /\ ~chunks
    /\ chunks' = TRUE
    /\ UNCHANGED <<mine, open, step, round, calls, answered, entities, seen, moves>>

\* The cards follow the text; done.
Finish ==
    /\ step = "stream"
    /\ step' = "sent"
    /\ UNCHANGED <<mine, open, round, calls, answered, entities, chunks, seen, moves>>

\* A request to the model fails, also in the midst of the stream: an error is sent,
\* and no cards.
ModelFails ==
    /\ step \in {"asking", "stream"}
    /\ step' = "failed" /\ entities' = {}
    /\ UNCHANGED <<mine, open, round, calls, answered, chunks, seen, moves>>

Next ==
    \/ \E i \in Owned : Move(i)
    \/ \E i \in Closable : Close(i)
    \/ Open \/ Ask \/ NextRound \/ Stream \/ Finish \/ ModelFails
    \/ \E text \in BOOLEAN : AnswerWithText(text)
    \/ \E called \in SUBSET Call : \E asked \in [called -> DOMAIN Results \cup {Custom}] : AnswerWithCalls(asked)
    \/ \E c \in Call : ExecuteFails(c) \/ \E found \in SUBSET Item : Execute(c, found)

\* The steps of the handler, and the model, which answers or times out.
Work ==
    \/ Ask \/ NextRound \/ Finish \/ ModelFails
    \/ \E c \in Call : ExecuteFails(c)

Spec == Init /\ [][Next]_vars
FairSpec == Spec /\ WF_vars(Work)

-----------------------------------------------------------------------------

TypeOK ==
    /\ mine \subseteq Owned /\ open \subseteq Closable
    /\ step \in {"idle", "ask", "asking", "tools", "stream", "sent", "failed"}
    /\ round \in 0..Rounds
    /\ DOMAIN calls \subseteq Call /\ answered \subseteq Call
    /\ entities \subseteq Item /\ chunks \in BOOLEAN

\* Whatever tools the model calls and however they fail, whenever it is asked again
\* the conversation holds a result for each of its calls of functions, as its interface
\* demands for every call (a custom one would be left without); and every card is of
\* something that was the agent's own when a tool read it.
CallsAreAnswered ==
    /\ step \in {"ask", "asking", "stream"} => answered = Functions
    /\ entities \subseteq seen

\* A model that calls tools again and again cannot keep a message from being answered.
EveryChatEnds == (step = "ask") ~> (step \in {"sent", "failed"})

-----------------------------------------------------------------------------

\* The inductive invariant: there is a round left while the model is asked with tools.
IInv ==
    /\ TypeOK /\ CallsAreAnswered
    /\ calls \in [DOMAIN calls -> DOMAIN Results \cup {Custom}]
    /\ step = "idle" => answered = Functions
    /\ step \in {"idle", "ask", "asking"} => round < Rounds

\* What the constants have to be.
Bounds == Of \in [Transaction -> Property]

=============================================================================
