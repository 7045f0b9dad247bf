-------------------------- MODULE ChatConversation --------------------------
(***************************************************************************)
(* The conversations of one logged-in user: the chat handlers of           *)
(* ChatServer and AIHelper::chat().                                        *)
(*                                                                         *)
(* chatInformation[userId] maps a conversation id to an AIHelper.  A       *)
(* handler finds or makes the helper under mutexForChatInformation and     *)
(* then calls chat() without any lock, so the user's other requests, on    *)
(* other event loops, work on the same helper at the same time.            *)
(*                                                                         *)
(* A message is abstracted to who wrote it and to the question (turn) it   *)
(* belongs to.  One step is one operation on the helper or one call of the *)
(* model; overlapping push_back() calls on one vector can do worse than    *)
(* the interleavings explored here.                                        *)
(***************************************************************************)
EXTENDS Naturals, FiniteSets, Sequences, SequencesExt

CONSTANTS
    Loops,      \* the event loops
    Ids,        \* conversation ids (bound)
    MaxChats    \* bound: questions asked

ASSUME ConstantsAssumption == IsFiniteSet(Loops) /\ Ids # {} /\ MaxChats \in Nat

(* The strategies "1", "2", "3" answer directly, "4" may call tools; any   *)
(* other name is unknown to the factory.                                   *)
Models == {"plain", "mcp", "unknown"}

VARIABLES
    helpers,     \* the ids that have an AIHelper
    listed,      \* sessionsIdsMap[userId]
    messages,    \* AIHelper::messages
    strategy,    \* AIHelper::strategy
    published,   \* the rows given to MQManager::publish(), in order
    pc,          \* where each loop is in chat()
    chat,        \* the id, the question and the model each loop is serving
    asked,       \* questions asked so far
    overlapped,  \* history: conversations two loops were in at once
    failed,      \* history: conversations in which a call of a model failed
    answered     \* history: questions answered with 200

helperVars == <<messages, strategy, published>>
vars == <<helpers, listed, helperVars, pc, chat, asked, overlapped, failed, answered>>

Turns    == 1..MaxChats
User(t)   == [by |-> "user", turn |-> t]
Ai(t)     == [by |-> "ai", turn |-> t]
Prompt(t) == [by |-> "prompt", turn |-> t]
Message   == [by : {"user", "ai", "prompt"}, turn : Turns]

PC == {"idle", "strategy", "branch", "ask", "curl", "firstPrompt", "firstCurl",
       "firstPop", "decide", "secondPrompt", "secondCurl", "secondPop",
       "addUser", "addAnswer"}

NoChat == [id |-> CHOOSE i \in Ids : TRUE, turn |-> 0, model |-> "plain"]

Init ==
    /\ helpers = {}
    /\ listed = {}
    /\ messages = [i \in Ids |-> <<>>]
    /\ strategy = [i \in Ids |-> "plain"]
    /\ published = [i \in Ids |-> <<>>]
    /\ pc = [l \in Loops |-> "idle"]
    /\ chat = [l \in Loops |-> NoChat]
    /\ asked = 0
    /\ overlapped = {}
    /\ failed = {}
    /\ answered = {}

Goto(l, where) == pc' = [pc EXCEPT ![l] = where]
In(i) == {l \in Loops : pc[l] # "idle" /\ chat[l].id = i}

(***************************************************************************)
(* The handlers up to the call of chat()                                   *)
(***************************************************************************)
Enter(l, i, m) ==
    /\ pc[l] = "idle"
    /\ asked < MaxChats
    /\ asked' = asked + 1
    /\ chat' = [chat EXCEPT ![l] = [id |-> i, turn |-> asked + 1, model |-> m]]
    /\ Goto(l, "strategy")
    /\ helpers' = helpers \cup {i}
    /\ overlapped' = IF In(i) = {} THEN overlapped ELSE overlapped \cup {i}
    /\ UNCHANGED <<helperVars, failed, answered>>

(* ChatSendHandler: any id is served; an unknown one gets a helper but is  *)
(* not entered in sessionsIdsMap.                                          *)
Send(l, i, m) ==
    /\ Enter(l, i, m)
    /\ UNCHANGED listed

(* ChatCreateAndSendHandler: a generated id, which is listed unless a      *)
(* helper has it already (ids of the generator may collide).               *)
CreateAndSend(l, i, m) ==
    /\ Enter(l, i, m)
    /\ listed' = IF i \in helpers THEN listed ELSE listed \cup {i}

(* ChatHistoryHandler: makes the helper if there is none, copies messages. *)
History(l, i) ==
    /\ pc[l] = "idle"
    /\ helpers' = helpers \cup {i}
    /\ UNCHANGED <<listed, helperVars, pc, chat, asked, overlapped, failed, answered>>

(* The role that buildRequest() tells the model, and the history the user, *)
(* for the k-th message: even indices are questions (TLA+ counts from 1).  *)
Role(k) == IF k % 2 = 1 THEN "user" ELSE "ai"

(***************************************************************************)
(* AIHelper::chat()                                                        *)
(***************************************************************************)
(* The exception reaches the handler, which answers 400. *)
UnknownModel(l) ==
    /\ pc[l] = "strategy"
    /\ chat[l].model = "unknown"
    /\ Goto(l, "idle")
    /\ UNCHANGED <<helpers, listed, helperVars, chat, asked, overlapped, failed, answered>>

Throw(l) ==
    /\ Goto(l, "idle")
    /\ failed' = failed \cup {chat[l].id}
    /\ UNCHANGED <<helpers, listed, helperVars, chat, asked, overlapped, answered>>

(* Only the helper changes. *)
Step(l, where) ==
    /\ Goto(l, where)
    /\ UNCHANGED <<helpers, listed, chat, asked, overlapped, failed, answered>>

(* Mutant of SetStrategy: a helper keeps the strategy it was given first. *)
SetStrategyOnce(l) ==
    /\ pc[l] = "strategy"
    /\ chat[l].model # "unknown"
    /\ strategy' = [strategy EXCEPT ![chat[l].id] = IF messages[chat[l].id] = <<>>
                                                    THEN chat[l].model ELSE @]
    /\ Step(l, "branch")
    /\ UNCHANGED <<messages, published>>

SetStrategy(l) ==
    /\ pc[l] = "strategy"
    /\ chat[l].model # "unknown"
    /\ strategy' = [strategy EXCEPT ![chat[l].id] = chat[l].model]
    /\ Step(l, "branch")
    /\ UNCHANGED <<messages, published>>

(* Line 50 reads the strategy back from the shared helper. *)
Branch(l) ==
    /\ pc[l] = "branch"
    /\ Step(l, IF strategy[chat[l].id] = "mcp" THEN "firstPrompt" ELSE "ask")
    /\ UNCHANGED helperVars

(* addMessage(): into memory and to the message queue. *)
AddMessage(l, m) ==
    /\ messages' = [messages EXCEPT ![chat[l].id] = Append(@, m)]
    /\ published' = [published EXCEPT ![chat[l].id] = Append(@, m)]
    /\ UNCHANGED strategy

(* Without tools: the question is added before the model is called. *)
Ask(l) ==
    /\ pc[l] = "ask"
    /\ AddMessage(l, User(chat[l].turn))
    /\ Step(l, "curl")

(* executeCurl() and parseResponse(): an answer, or an exception. *)
Called(l, here, next) ==
    /\ pc[l] = here
    /\ Step(l, next)
    /\ UNCHANGED helperVars

Curl(l)       == Called(l, "curl", "addAnswer")
FirstCurl(l)  == Called(l, "firstCurl", "firstPop")
SecondCurl(l) == Called(l, "secondCurl", "secondPop")

CurlFails(l) == pc[l] \in {"curl", "firstCurl", "secondCurl"} /\ Throw(l)

(* With tools: a prompt of the server's is put in memory for the call. *)
PushPrompt(l, here, next) ==
    /\ pc[l] = here
    /\ messages' = [messages EXCEPT ![chat[l].id] = Append(@, Prompt(chat[l].turn))]
    /\ UNCHANGED <<strategy, published>>
    /\ Step(l, next)

(* Mutant of FirstPrompt: the prompt is not put in memory. *)
FirstPromptForgotten(l) == Called(l, "firstPrompt", "firstCurl")

FirstPrompt(l)  == PushPrompt(l, "firstPrompt", "firstCurl")
SecondPrompt(l) == PushPrompt(l, "secondPrompt", "secondCurl")

(* pop_back(): the last message, whoever added it. *)
PopPrompt(l, here, next) ==
    /\ pc[l] = here
    /\ messages' = [messages EXCEPT ![chat[l].id] = Front(@)]
    /\ UNCHANGED <<strategy, published>>
    /\ Step(l, next)

FirstPop(l)  == PopPrompt(l, "firstPop", "decide")

(* Mutant of SecondPop: the second prompt stays. *)
SecondPopForgotten(l) == Called(l, "secondPop", "addUser")

SecondPop(l) == PopPrompt(l, "secondPop", "addUser")

(* No tool call, or a tool that throws: the model's text or the error is   *)
(* the answer.                                                             *)
NoTool(l) == Called(l, "decide", "addUser")

(* The tool ran: its result goes to the model in a second prompt. *)
UseTool(l) == Called(l, "decide", "secondPrompt")

(* Mutant of AddUser: the question is kept in memory but not published. *)
AddUserToMemory(l) ==
    /\ pc[l] = "addUser"
    /\ messages' = [messages EXCEPT ![chat[l].id] = Append(@, User(chat[l].turn))]
    /\ UNCHANGED <<strategy, published>>
    /\ Step(l, "addAnswer")

AddUser(l) ==
    /\ pc[l] = "addUser"
    /\ AddMessage(l, User(chat[l].turn))
    /\ Step(l, "addAnswer")

(* The answer is added, even an empty one, and returned to the client, or  *)
(* an error note in place of an empty one (AIHelper.cpp:67-69).            *)
AddAnswer(l) ==
    /\ pc[l] = "addAnswer"
    /\ AddMessage(l, Ai(chat[l].turn))
    /\ answered' = answered \cup {chat[l].turn}
    /\ Goto(l, "idle")
    /\ UNCHANGED <<helpers, listed, chat, asked, overlapped, failed>>

(* The bound: no more questions are asked. *)
Finished ==
    /\ asked = MaxChats
    /\ \A l \in Loops : pc[l] = "idle"
    /\ UNCHANGED vars

Next ==
    \/ \E l \in Loops :
        \/ \E i \in Ids, m \in Models : Send(l, i, m) \/ CreateAndSend(l, i, m)
        \/ \E i \in Ids : History(l, i)
        \/ UnknownModel(l)
        \/ SetStrategy(l)
        \/ Branch(l)
        \/ Ask(l)
        \/ Curl(l)
        \/ FirstCurl(l)
        \/ SecondCurl(l)
        \/ CurlFails(l)
        \/ FirstPrompt(l)
        \/ SecondPrompt(l)
        \/ FirstPop(l)
        \/ SecondPop(l)
        \/ NoTool(l)
        \/ UseTool(l)
        \/ AddUser(l)
        \/ AddAnswer(l)
    \/ Finished

Spec == Init /\ [][Next]_vars

(***************************************************************************)
(* Properties                                                              *)
(***************************************************************************)
(* Every variable has its type; in particular pop_back() never meets an    *)
(* empty vector, whoever else pushes and pops.                             *)
TypeOK ==
    /\ helpers \subseteq Ids
    /\ listed \subseteq helpers
    /\ messages \in [Ids -> Seq(Message)]
    /\ strategy \in [Ids -> Models]
    /\ published \in [Ids -> Seq(Message)]
    /\ pc \in [Loops -> PC]
    /\ chat \in [Loops -> [id : Ids, turn : 0..MaxChats, model : Models]]
    /\ asked \in 0..MaxChats
    /\ overlapped \subseteq Ids
    /\ failed \subseteq Ids
    /\ answered \subseteq Turns
    /\ \A l \in Loops : pc[l] \in {"firstPop", "secondPop"} => messages[chat[l].id] # <<>>

(* Does every message have the role of who wrote it? *)
Alternates(s) == \A k \in 1..Len(s) : s[k].by = Role(k)

(* Through both branches of chat(), with and without a tool call, the      *)
(* prompts pushed are popped again and a question is followed by its       *)
(* answer: the labels that history and buildRequest() derive from the      *)
(* index are right as long as no call failed and no two calls overlapped.  *)
QuietConversationAlternates ==
    \A i \in Ids \ (overlapped \cup failed) : In(i) = {} => Alternates(messages[i])

(* Each question of a conversation goes to the model that its own request  *)
(* names, with tools or without, whatever models earlier questions named   *)
(* or failed to name, as long as no two calls overlapped.                  *)
QuietChatCallsItsModel ==
    \A l \in Loops : chat[l].id \notin overlapped =>
        /\ pc[l] = "curl" => chat[l].model = "plain" /\ strategy[chat[l].id] = "plain"
        /\ pc[l] \in {"firstCurl", "secondCurl"} =>
                chat[l].model = "mcp" /\ strategy[chat[l].id] = "mcp"

RowsOf(i, m) == {k \in 1..Len(published[i]) : published[i][k] = m}

(* Overlaps and failures included, an answered question has exactly one    *)
(* row for the question and, later, one for the answer, and no prompt of   *)
(* the server's is ever published (AIHelper.cpp:24-27).                    *)
AnsweredIsPublished ==
    /\ \A i \in Ids : \A k \in 1..Len(published[i]) : published[i][k].by # "prompt"
    /\ \A t \in answered : \E i \in Ids : \E q, a \in 1..Len(published[i]) :
        /\ RowsOf(i, User(t)) = {q}
        /\ RowsOf(i, Ai(t)) = {a}
        /\ q < a

(* "Even indices are the user's messages, odd ones the model's"            *)
(* (AIHelper.h:69), whenever no request is being served.                   *)
HistoryAlternates ==
    \A i \in Ids \ overlapped : In(i) = {} => Alternates(messages[i])

(* "Each conversation can choose a different model" (AIHelper.cpp:46): the *)
(* model that is called is the one the request names.                      *)
ChosenModelIsCalled ==
    \A l \in Loops :
        pc[l] \in {"curl", "firstCurl", "secondCurl"} => strategy[chat[l].id] = chat[l].model

=============================================================================
