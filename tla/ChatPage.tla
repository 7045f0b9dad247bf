------------------------------- MODULE ChatPage -------------------------------
(***************************************************************************)
(* The chat page, AI.html, at work: one user, the page's variables, its    *)
(* asynchronous functions, and the chat handlers that answer them.         *)
(*                                                                         *)
(* The browser runs a function until it awaits an answer; in between other *)
(* functions run and change what it goes on to use.  So a function is an   *)
(* action up to its await, a call under way, and an action for what        *)
(* follows.  Answers come in any order.  The model's text is left out: a   *)
(* text is the question of one submission, its answer (which may be empty),*)
(* or an error note in place of the answer.                                *)
(***************************************************************************)
EXTENDS Naturals, Sequences, Functions

CONSTANTS
    Ids,        \* ids of conversations
    Old,        \* those that exist when the page is loaded
    Nil,        \* null
    Temp,       \* "temp", the id of a conversation that has none yet
    MaxActions  \* bound: what the user does

ASSUME ConstantsAssumption ==
    /\ Old \subseteq Ids
    /\ Nil \notin Ids /\ Temp \notin Ids /\ Nil # Temp
    /\ Old \cap 1..MaxActions = {}
    /\ MaxActions \in Nat

VARIABLES
    current,     \* currentSessionId
    temp,        \* tempSession
    sessions,    \* sessions, from ids to their messages
    chat,        \* chatContainer: the lines shown
    calls,       \* the calls of fetch() under way
    history,     \* the server's conversations, from ids to texts
    actions,     \* what the user has done so far
    overlapped,  \* history: did the user act while a call was under way?
    failed,      \* history: did a call fail?
    strayed,     \* history: did the user leave a conversation while it waited?
    again        \* history: was a new chat that shows a question asked another?

pageVars == <<current, temp, sessions, chat>>
userVars == <<actions, overlapped, strayed, again>>
vars == <<pageVars, calls, history, userVars, failed>>

Questions   == Old \cup 1..MaxActions
Texts       == [what : {"question", "answer", "empty", "error"}, of : Questions]
Lines       == [role : {"user", "assistant"}, text : Texts]
Text(what, n) == [what |-> what, of |-> n]
Question(n) == Text("question", n)
Mine(text)   == [role |-> "user", text |-> text]
Theirs(text) == [role |-> "assistant", text |-> text]
Error(n)    == Theirs(Text("error", n))

(* GetMessages() and is_user, the parity of the index. *)
Labelled(texts) == [i \in 1..Len(texts) |-> IF i % 2 = 1 THEN Mine(texts[i]) ELSE Theirs(texts[i])]

Call == [n : 0..MaxActions, op : {"load", "history", "send", "create", "sync"},
         id : Ids \cup {Nil}, phase : {"sent", "asked", "done", "failed"},
         ids : SUBSET Ids, texts : Seq(Texts), told : {"nothing", "answer", "empty", "error"},
         alone : BOOLEAN]

Fetch(n, op, id) ==
    [n |-> n, op |-> op, id |-> id, phase |-> "sent", ids |-> {}, texts |-> <<>>,
     told |-> "nothing", alone |-> calls = {}]

(* The answer that a submission's call brings back, data.Information. *)
Told(c) == Theirs(Text(c.told, c.n))

(* The last line of the page's script calls loadSessions(). *)
Init ==
    /\ current = Nil
    /\ temp = FALSE
    /\ sessions = <<>>
    /\ chat = <<>>
    /\ calls = {[n |-> 0, op |-> "load", id |-> Nil, phase |-> "sent", ids |-> {},
                 texts |-> <<>>, told |-> "nothing", alone |-> TRUE]}
    /\ history = [id \in Old |-> <<Question(id), Text("answer", id)>>]
    /\ actions = 0
    /\ overlapped = FALSE
    /\ failed = FALSE
    /\ strayed = FALSE
    /\ again = FALSE

Open == current \in DOMAIN sessions
Push(id, line) == sessions' = [sessions EXCEPT ![id] = Append(@, line)]
Waiting(ops) == \E c \in calls : c.op \in ops

(***************************************************************************)
(* The user                                                                *)
(***************************************************************************)
Act ==
    /\ actions < MaxActions
    /\ actions' = actions + 1
    /\ overlapped' = (overlapped \/ calls # {})
    /\ UNCHANGED <<history, failed>>
Leave ==
    /\ strayed' = (strayed \/ Waiting({"history", "send", "create", "sync"}))
    /\ UNCHANGED again
Stay == UNCHANGED <<strayed, again>>
Call1(op, id) == calls' = calls \cup {Fetch(actions + 1, op, id)}

(* Mutant of SwitchSession: clearMessages() is missing. *)
SwitchWithoutClear(id) ==
    /\ Act /\ Leave
    /\ id \in DOMAIN sessions
    /\ current' = id /\ temp' = FALSE
    /\ IF sessions[id] = <<>> THEN chat' = chat /\ Call1("history", id)
       ELSE chat' = chat \o sessions[id] /\ UNCHANGED calls
    /\ UNCHANGED sessions

(* switchSession(): messages already here are shown, others are asked for. *)
SwitchSession(id) ==
    /\ Act /\ Leave
    /\ id \in DOMAIN sessions
    /\ current' = id /\ temp' = FALSE
    /\ chat' = sessions[id]
    /\ IF sessions[id] = <<>> THEN Call1("history", id) ELSE UNCHANGED calls
    /\ UNCHANGED sessions

NewChat ==
    /\ Act /\ Leave
    /\ current' = Temp /\ temp' = TRUE
    /\ chat' = <<>>
    /\ UNCHANGED <<sessions, calls>>

Show(n) == chat' = Append(chat, Mine(Question(n)))

(* Nothing keeps the user from asking again before the chat has an id:     *)
(* while the first creation waits, or after it failed.                     *)
SubmitNew ==
    /\ Act /\ temp
    /\ again' = (again \/ chat # <<>>)
    /\ Show(actions + 1)
    /\ Call1("create", Nil)
    /\ UNCHANGED <<current, temp, sessions, strayed>>

(* Mutant of Submit: the question is only shown. *)
SubmitUnkept ==
    /\ Act /\ ~temp /\ Open
    /\ Show(actions + 1)
    /\ Call1("send", current)
    /\ UNCHANGED <<current, temp, sessions>> /\ Stay

Submit ==
    /\ Act /\ ~temp /\ Open
    /\ Show(actions + 1)
    /\ Push(current, Mine(Question(actions + 1)))
    /\ Call1("send", current)
    /\ UNCHANGED <<current, temp>> /\ Stay

(* No conversation has been chosen: sessions[null] is undefined, and the   *)
(* exception is outside the try block.                                     *)
SubmitNowhere ==
    /\ Act /\ ~temp /\ ~Open
    /\ Show(actions + 1)
    /\ UNCHANGED <<current, temp, sessions, calls>> /\ Stay

Sync ==
    /\ Act /\ current # Nil /\ ~temp
    /\ Call1("sync", current)
    /\ UNCHANGED pageVars /\ Stay

(***************************************************************************)
(* The server                                                              *)
(***************************************************************************)
Advance(c, d) == calls' = (calls \ {c}) \cup {d}
ServerStep == UNCHANGED <<pageVars, userVars>>

(* ChatSessionsHandler, ChatHistoryHandler *)
List(c) ==
    /\ c.op = "load" /\ c.phase = "sent"
    /\ Advance(c, [c EXCEPT !.phase = "done", !.ids = DOMAIN history])
    /\ UNCHANGED <<history, failed>> /\ ServerStep

SendHistory(c) ==
    /\ c.op \in {"history", "sync"} /\ c.phase = "sent"
    /\ Advance(c, [c EXCEPT !.phase = "done", !.texts = history[c.id]])
    /\ UNCHANGED <<history, failed>> /\ ServerStep

(* ChatSendHandler and ChatCreateAndSendHandler, up to the model's call, *)
Ask(c) ==
    /\ c.op = "send" /\ c.phase = "sent"
    /\ history' = [history EXCEPT ![c.id] = Append(@, Question(c.n))]
    /\ Advance(c, [c EXCEPT !.phase = "asked"])
    /\ UNCHANGED failed /\ ServerStep

AskNew(c, id) ==
    /\ c.op = "create" /\ c.phase = "sent"
    /\ id \in Ids \ DOMAIN history
    /\ history' = [i \in DOMAIN history \cup {id} |->
                     IF i = id THEN <<Question(c.n)>> ELSE history[i]]
    /\ Advance(c, [c EXCEPT !.phase = "asked", !.id = id])
    /\ UNCHANGED failed /\ ServerStep

(* and after it.  A response without an answer in it is kept as an empty   *)
(* text; what the page is told, as a success, is a note that it could not  *)
(* be read (AIHelper.cpp:65-72), or with tools the empty text itself.      *)
AnswerCall(c, kept, told) ==
    /\ c.phase = "asked"
    /\ told = kept \/ (kept = "empty" /\ told = "error")
    /\ history' = [history EXCEPT ![c.id] = Append(@, Text(kept, c.n))]
    /\ Advance(c, [c EXCEPT !.phase = "done", !.told = told])
    /\ UNCHANGED failed /\ ServerStep

(* The model fails, the login has ended, or the server cannot be reached. *)
(* A connection lost while the server works on is left out.               *)
Fail(c) ==
    /\ c.phase \in {"sent", "asked"}
    /\ Advance(c, [c EXCEPT !.phase = "failed"])
    /\ failed' = TRUE
    /\ UNCHANGED history /\ ServerStep

(***************************************************************************)
(* The page goes on                                                        *)
(***************************************************************************)
Resume(c, op, phase) ==
    /\ c.op = op /\ c.phase = phase
    /\ calls' = calls \ {c}
    /\ UNCHANGED <<history, userVars, failed>>

(* A conversation listed starts without messages, even if it has some. *)
Loaded(c) ==
    /\ Resume(c, "load", "done")
    /\ sessions' = [id \in DOMAIN sessions \cup c.ids |->
                      IF id \in c.ids THEN <<>> ELSE sessions[id]]
    /\ UNCHANGED <<current, temp, chat>>

NotLoaded(c) ==
    /\ Resume(c, "load", "failed") \/ Resume(c, "sync", "failed")
    /\ UNCHANGED pageVars

(* The rest of switchSession(): whatever is shown by now. *)
Switched(c) ==
    /\ Resume(c, "history", "done")
    /\ sessions' = [sessions EXCEPT ![c.id] = Labelled(c.texts)]
    /\ chat' = chat \o Labelled(c.texts)
    /\ UNCHANGED <<current, temp>>

NotSwitched(c) ==
    /\ Resume(c, "history", "failed")
    /\ chat' = chat \o sessions[c.id]
    /\ UNCHANGED <<current, temp, sessions>>

(* Mutant of Created: tempSession is not reset. *)
CreatedKeepsTemp(c) ==
    /\ Resume(c, "create", "done")
    /\ sessions' = [id \in DOMAIN sessions \cup {c.id} |->
                      IF id = c.id THEN <<Mine(Question(c.n)), Told(c)>>
                      ELSE sessions[id]]
    /\ current' = c.id
    /\ chat' = Append(chat, Told(c))
    /\ UNCHANGED temp

Created(c) ==
    /\ Resume(c, "create", "done")
    /\ sessions' = [id \in DOMAIN sessions \cup {c.id} |->
                      IF id = c.id THEN <<Mine(Question(c.n)), Told(c)>>
                      ELSE sessions[id]]
    /\ current' = c.id /\ temp' = FALSE
    /\ chat' = Append(chat, Told(c))

(* The server may have made a conversation that the page does not know. *)
NotCreated(c) ==
    /\ Resume(c, "create", "failed")
    /\ chat' = Append(chat, Error(c.n))
    /\ UNCHANGED <<current, temp, sessions>>

(* The answer is shown, and kept for the conversation chosen by now; for   *)
(* one that has no id yet that fails, after the answer was shown.          *)
Sent(c) ==
    /\ Resume(c, "send", "done")
    /\ IF Open
       THEN /\ chat' = Append(chat, Told(c))
            /\ Push(current, Told(c))
       ELSE /\ chat' = chat \o <<Told(c), Error(c.n)>>
            /\ UNCHANGED sessions
    /\ UNCHANGED <<current, temp>>

NotSent(c) ==
    /\ Resume(c, "send", "failed")
    /\ chat' = Append(chat, Error(c.n))
    /\ UNCHANGED <<current, temp, sessions>>

(* Mutant of Synced: clearMessages() is missing. *)
SyncedWithoutClear(c) ==
    /\ Resume(c, "sync", "done")
    /\ IF Open THEN /\ sessions' = [sessions EXCEPT ![current] = Labelled(c.texts)]
                    /\ chat' = chat \o Labelled(c.texts)
               ELSE UNCHANGED <<sessions, chat>>
    /\ UNCHANGED <<current, temp>>

Synced(c) ==
    /\ Resume(c, "sync", "done")
    /\ IF Open THEN /\ sessions' = [sessions EXCEPT ![current] = Labelled(c.texts)]
                    /\ chat' = Labelled(c.texts)
               ELSE UNCHANGED <<sessions, chat>>
    /\ UNCHANGED <<current, temp>>

(***************************************************************************)
(* Specification                                                           *)
(***************************************************************************)
Quiet == calls = {} /\ actions = MaxActions /\ UNCHANGED vars

Next ==
    \/ \E id \in Ids : SwitchSession(id)
    \/ NewChat \/ SubmitNew \/ Submit \/ SubmitNowhere \/ Sync
    \/ \E c \in calls :
        \/ List(c) \/ SendHistory(c) \/ Ask(c) \/ Fail(c)
        \/ \E kept \in {"answer", "empty"}, told \in {"answer", "empty", "error"} :
              AnswerCall(c, kept, told)
        \/ \E id \in Ids : AskNew(c, id)
        \/ Loaded(c) \/ NotLoaded(c)
        \/ Switched(c) \/ NotSwitched(c)
        \/ Created(c) \/ NotCreated(c)
        \/ Sent(c) \/ NotSent(c)
        \/ Synced(c)
    \/ Quiet

Spec == Init /\ [][Next]_vars

(***************************************************************************)
(* Properties                                                              *)
(***************************************************************************)
(* Every variable has its type; the flag and the id agree on whether the   *)
(* conversation is a new one, and the page knows the one that is chosen:   *)
(* sessions[currentSessionId] is undefined only before the first choice.   *)
TypeOK ==
    /\ current \in DOMAIN sessions \cup {Nil, Temp}
    /\ temp = (current = Temp)
    /\ DOMAIN sessions \subseteq DOMAIN history /\ DOMAIN history \subseteq Ids
    /\ Range(sessions) \subseteq Seq(Lines)
    /\ Range(history) \subseteq Seq(Texts)
    /\ chat \in Seq(Lines)
    /\ calls \subseteq Call
    /\ actions \in 0..MaxActions
    /\ overlapped \in BOOLEAN /\ failed \in BOOLEAN
    /\ strayed \in BOOLEAN /\ again \in BOOLEAN

Elsewhere(text) == \E id \in DOMAIN history \ {current} : text \in Range(history[id])
NothingForeign  == Open => \A line \in Range(chat) : ~Elsewhere(line.text)

(* However submissions, synchronisations and their answers overlap, no     *)
(* text of another conversation is shown in the one that is open, unless   *)
(* the user has left a conversation that still waited, or has asked        *)
(* another question in a new chat whose first had not become a             *)
(* conversation, because its creation still waited or had failed.          *)
ShownBelongs == ~strayed /\ ~again => NothingForeign

(* The page's lines are the texts of a history, in order and with the same *)
(* roles; only an empty answer may be shown as an error note.              *)
ReadsAs(lines, texts) ==
    /\ Len(lines) = Len(texts)
    /\ \A i \in 1..Len(texts) :
          \/ lines[i] = Labelled(texts)[i]
          \/ /\ texts[i].what = "empty" /\ lines[i] = Error(texts[i].of)
             /\ Labelled(texts)[i].role = "assistant"

(* To a user who waits for every answer, page and server agree: what is    *)
(* shown is what the page keeps and reads as the server's history, across  *)
(* new conversations, switches, synchronisations and answers that could    *)
(* not be read.                                                            *)
PatientPageAgrees ==
    (~overlapped /\ ~failed /\ calls = {}) =>
        /\ Open => chat = sessions[current] /\ ReadsAs(chat, history[current])
        /\ \A id \in DOMAIN sessions : sessions[id] = <<>> \/ ReadsAs(sessions[id], history[id])

(* Whatever the page shows by then, a synchronisation that runs alone, no  *)
(* call being under way when it begins and the user doing nothing until it *)
(* is over, makes it agree with the server exactly.  (A handler that works *)
(* on for a call whose connection was lost is left out, see Fail.)         *)
SyncHeals ==
    [][\A c \in calls \ calls' :
        (c.op = "sync" /\ c.phase = "done" /\ c.alone /\ c.n = actions)
            => chat' = Labelled(history[current]) /\ sessions'[current] = chat']_vars

(* "Shown in the conversation it belongs to": not true of a page that      *)
(* reads currentSessionId again after its await (AI.html:397-398).         *)
AlwaysItsOwn == NothingForeign

(* Not true either of a user who never leaves a conversation that waits:   *)
(* after a creation that failed, or while one waits, a second question in  *)
(* the new chat makes a conversation that shows the first one's texts      *)
(* (AI.html:357-386).                                                      *)
StayingIsEnough == ~strayed => NothingForeign

(* A question shown as asked was sent: not before a conversation is        *)
(* chosen (AI.html:388).                                                   *)
ShownIsSent ==
    \A line \in Range(chat) : line.role = "user" =>
        \/ \E id \in DOMAIN history : line.text \in Range(history[id])
        \/ \E c \in calls : c.n = line.text.of
        \/ failed
===============================================================================
