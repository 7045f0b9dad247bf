---------------------------- MODULE ChatPageProofs ----------------------------
(***************************************************************************)
(* Theorems about ChatPage: what the page shows belongs to the             *)
(* conversation it is shown in, page and server agree for a user who       *)
(* waits, and a synchronisation that is left alone makes them agree again. *)
(***************************************************************************)
EXTENDS ChatPage, TLAPS

(***************************************************************************)
(* Types                                                                   *)
(***************************************************************************)
(* A call was made by an action of the user; what it goes on to use exists *)
(* on the page and on the server.                                          *)
WellMade(c) ==
    /\ c.n <= actions
    /\ c.ids \subseteq DOMAIN history
    /\ c.op \in {"history", "send", "sync"} => c.id \in DOMAIN sessions
    /\ c.op \in {"send", "create"} => c.n \in 1..MaxActions
    /\ c.phase = "asked" => c.op \in {"send", "create"}
    /\ c.op \in {"send", "create"} /\ c.phase = "done" => c.told # "nothing"
    /\ c.op = "create" =>
          /\ c.id \in DOMAIN history \cup {Nil}
          /\ c.phase = "sent" => c.id = Nil
          /\ c.phase \in {"asked", "done"} => c.id \in DOMAIN history

Typed ==
    /\ current \in DOMAIN sessions \cup {Nil, Temp}
    /\ temp \in BOOLEAN /\ (temp <=> current = Temp)
    /\ sessions \in [DOMAIN sessions -> Seq(Lines)]
    /\ history \in [DOMAIN history -> Seq(Texts)]
    /\ DOMAIN sessions \subseteq DOMAIN history /\ DOMAIN history \subseteq Ids
    /\ chat \in Seq(Lines)
    /\ calls \subseteq Call
    /\ actions \in 0..MaxActions
    /\ overlapped \in BOOLEAN /\ failed \in BOOLEAN /\ strayed \in BOOLEAN /\ again \in BOOLEAN
    /\ \A c \in calls : WellMade(c)

(* The labels that the page derives from the index change no text. *)
LEMMA LabelledTyped ==
    ASSUME NEW texts \in Seq(Texts)
    PROVE  /\ Labelled(texts) \in Seq(Lines)
           /\ Len(Labelled(texts)) = Len(texts)
           /\ \A i \in 1..Len(texts) : Labelled(texts)[i].text = texts[i]
  <1>1. \A i \in 1..Len(texts) : Mine(texts[i]) \in Lines /\ Theirs(texts[i]) \in Lines
    BY DEF Mine, Theirs, Lines
  <1>2. Labelled(texts) \in [1..Len(texts) -> Lines]
    BY <1>1 DEF Labelled
  <1> QED BY <1>2 DEF Labelled, Mine, Theirs

(* What a submission shows is of that submission. *)
LEMMA LinesTyped ==
    ASSUME NEW n \in Questions
    PROVE  /\ Question(n) \in Texts /\ Mine(Question(n)) \in Lines /\ Error(n) \in Lines
           /\ Question(n).of = n /\ Mine(Question(n)).text.of = n /\ Error(n).text.of = n
  BY DEF Question, Text, Mine, Theirs, Error, Texts, Lines

(* So is what the server keeps as its answer, *)
LEMMA KeptTyped ==
    ASSUME NEW n \in Questions, NEW kept \in {"answer", "empty"}
    PROVE  Text(kept, n) \in Texts /\ Text(kept, n).of = n
  BY DEF Text, Texts

(* and what it tells the page. *)
LEMMA ToldTyped ==
    ASSUME NEW c \in Call, c.n \in Questions, c.told # "nothing"
    PROVE  Told(c) \in Lines /\ Told(c).text.of = c.n
  <1>1. c.told \in {"answer", "empty", "error"}
    BY DEF Call
  <1> QED BY <1>1 DEF Told, Text, Texts, Theirs, Lines

(***************************************************************************)
(* The steps of the server, by what becomes of a call                      *)
(***************************************************************************)
(* Call c becomes d. *)
Serves(c, d) ==
    /\ calls' = (calls \ {c}) \cup {d}
    /\ d.n = c.n /\ d.op = c.op /\ d.alone = c.alone
    /\ UNCHANGED <<pageVars, userVars>>
    /\ \/ /\ c.op = "load" /\ c.phase = "sent"
          /\ d.phase = "done" /\ d.ids = DOMAIN history /\ d.id = c.id /\ d.texts = c.texts
          /\ UNCHANGED <<history, failed>>
       \/ /\ c.op \in {"history", "sync"} /\ c.phase = "sent"
          /\ d.phase = "done" /\ d.texts = history[c.id] /\ d.id = c.id /\ d.ids = c.ids
          /\ UNCHANGED <<history, failed>>
       \/ /\ c.op = "send" /\ c.phase = "sent"
          /\ d.phase = "asked" /\ d.id = c.id /\ d.ids = c.ids /\ d.texts = c.texts
          /\ history' = [history EXCEPT ![c.id] = Append(history[c.id], Question(c.n))]
          /\ UNCHANGED failed
       \/ /\ c.op = "create" /\ c.phase = "sent"
          /\ d.phase = "asked" /\ d.id \in Ids \ DOMAIN history /\ d.ids = c.ids /\ d.texts = c.texts
          /\ history' = [i \in DOMAIN history \cup {d.id} |->
                           IF i = d.id THEN <<Question(c.n)>> ELSE history[i]]
          /\ UNCHANGED failed
       \/ /\ c.phase = "asked"
          /\ d.phase = "done" /\ d.id = c.id /\ d.ids = c.ids /\ d.texts = c.texts
          /\ \E kept \in {"answer", "empty"} :
                /\ history' = [history EXCEPT ![c.id] = Append(history[c.id], Text(kept, c.n))]
                /\ d.told = kept \/ (kept = "empty" /\ d.told = "error")
          /\ UNCHANGED failed
       \/ /\ c.phase \in {"sent", "asked"}
          /\ d.phase = "failed" /\ d.id = c.id /\ d.ids = c.ids /\ d.texts = c.texts
          /\ failed' = TRUE /\ UNCHANGED history

ServerActs(c) ==
    \/ List(c) \/ SendHistory(c) \/ Ask(c) \/ Fail(c)
    \/ \E kept \in {"answer", "empty"}, told \in {"answer", "empty", "error"} : AnswerCall(c, kept, told)
    \/ \E id \in Ids : AskNew(c, id)

(* Whatever the server does with a call is one of the six things Serves()  *)
(* lists.                                                                  *)
LEMMA ServerServes ==
    ASSUME Typed, NEW c \in calls, ServerActs(c)
    PROVE  \E d \in Call : Serves(c, d)
  <1>0. c \in Call /\ DOMAIN history \in SUBSET Ids /\ WellMade(c)
    BY DEF Typed
  <1>1. CASE List(c)
    <2> DEFINE d == [c EXCEPT !.phase = "done", !.ids = DOMAIN history]
    <2>1. /\ d \in Call /\ d.n = c.n /\ d.op = c.op /\ d.alone = c.alone
          /\ d.phase = "done" /\ d.ids = DOMAIN history /\ d.id = c.id /\ d.texts = c.texts
      BY <1>0 DEF Call
    <2>2. calls' = (calls \ {c}) \cup {d}
      BY <1>1 DEF List, Advance
    <2> HIDE DEF d
    <2> QED BY <1>1, <2>1, <2>2 DEF List, ServerStep, Serves
  <1>2. CASE SendHistory(c)
    <2> DEFINE d == [c EXCEPT !.phase = "done", !.texts = history[c.id]]
    <2>0. history[c.id] \in Seq(Texts)
      BY <1>0, <1>2 DEF SendHistory, WellMade, Typed
    <2>1. /\ d \in Call /\ d.n = c.n /\ d.op = c.op /\ d.alone = c.alone
          /\ d.phase = "done" /\ d.texts = history[c.id] /\ d.id = c.id /\ d.ids = c.ids
      BY <1>0, <2>0 DEF Call
    <2>2. calls' = (calls \ {c}) \cup {d}
      BY <1>2 DEF SendHistory, Advance
    <2> HIDE DEF d
    <2> QED BY <1>2, <2>1, <2>2 DEF SendHistory, ServerStep, Serves
  <1>3. CASE Ask(c)
    <2> DEFINE d == [c EXCEPT !.phase = "asked"]
    <2>1. /\ d \in Call /\ d.n = c.n /\ d.op = c.op /\ d.alone = c.alone
          /\ d.phase = "asked" /\ d.texts = c.texts /\ d.id = c.id /\ d.ids = c.ids
      BY <1>0 DEF Call
    <2>2. calls' = (calls \ {c}) \cup {d}
      BY <1>3 DEF Ask, Advance
    <2> HIDE DEF d
    <2> QED BY <1>3, <2>1, <2>2 DEF Ask, ServerStep, Serves
  <1>4. CASE \E id \in Ids : AskNew(c, id)
    <2> PICK id \in Ids : AskNew(c, id)
      BY <1>4
    <2> DEFINE d == [c EXCEPT !.phase = "asked", !.id = id]
    <2>1. /\ d \in Call /\ d.n = c.n /\ d.op = c.op /\ d.alone = c.alone
          /\ d.phase = "asked" /\ d.texts = c.texts /\ d.id = id /\ d.ids = c.ids
      BY <1>0 DEF Call
    <2>2. calls' = (calls \ {c}) \cup {d}
      BY DEF AskNew, Advance
    <2> HIDE DEF d
    <2> QED BY <2>1, <2>2 DEF AskNew, ServerStep, Serves
  <1>5. CASE \E kept \in {"answer", "empty"}, told \in {"answer", "empty", "error"} : AnswerCall(c, kept, told)
    <2> PICK kept \in {"answer", "empty"}, told \in {"answer", "empty", "error"} : AnswerCall(c, kept, told)
      BY <1>5
    <2> DEFINE d == [c EXCEPT !.phase = "done", !.told = told]
    <2>1. /\ d \in Call /\ d.n = c.n /\ d.op = c.op /\ d.alone = c.alone
          /\ d.phase = "done" /\ d.texts = c.texts /\ d.id = c.id /\ d.ids = c.ids /\ d.told = told
      BY <1>0 DEF Call
    <2>2. calls' = (calls \ {c}) \cup {d}
      BY DEF AnswerCall, Advance
    <2> HIDE DEF d
    <2>3. /\ history' = [history EXCEPT ![c.id] = Append(history[c.id], Text(kept, c.n))]
          /\ d.told = kept \/ (kept = "empty" /\ d.told = "error")
          /\ c.phase = "asked" /\ UNCHANGED <<failed, pageVars, userVars>>
      BY <2>1 DEF AnswerCall, ServerStep
    <2> QED BY <2>1, <2>2, <2>3 DEF Serves
  <1>6. CASE Fail(c)
    <2> DEFINE d == [c EXCEPT !.phase = "failed"]
    <2>1. /\ d \in Call /\ d.n = c.n /\ d.op = c.op /\ d.alone = c.alone
          /\ d.phase = "failed" /\ d.texts = c.texts /\ d.id = c.id /\ d.ids = c.ids
      BY <1>0 DEF Call
    <2>2. calls' = (calls \ {c}) \cup {d}
      BY <1>6 DEF Fail, Advance
    <2> HIDE DEF d
    <2> QED BY <1>6, <2>1, <2>2 DEF Fail, ServerStep, Serves
  <1> QED BY <1>1, <1>2, <1>3, <1>4, <1>5, <1>6 DEF ServerActs

(***************************************************************************)
(* The steps of the user and of the page                                   *)
(***************************************************************************)
UserActs ==
    \/ \E id \in Ids : SwitchSession(id)
    \/ NewChat \/ SubmitNew \/ Submit \/ SubmitNowhere \/ Sync

PageGoesOn(c) ==
    \/ Loaded(c) \/ NotLoaded(c)
    \/ Switched(c) \/ NotSwitched(c)
    \/ Created(c) \/ NotCreated(c)
    \/ Sent(c) \/ NotSent(c)
    \/ Synced(c)

(* A step is the user's, the server's or the page's, or changes nothing. *)
LEMMA StepsOfThePage ==
    ASSUME [Next]_vars
    PROVE  UserActs \/ (\E c \in calls : ServerActs(c) \/ PageGoesOn(c)) \/ UNCHANGED vars
  BY DEF Next, Quiet, UserActs, ServerActs, PageGoesOn

(* An action of the user begins one call, with the next number. *)
LEMMA NewCall ==
    ASSUME Typed, Act, NEW op \in {"history", "send", "create", "sync"}, NEW id \in Ids \cup {Nil},
           Call1(op, id)
    PROVE  \E e \in Call :
              /\ calls' = calls \cup {e}
              /\ e.n = actions + 1 /\ e.op = op /\ e.id = id /\ e.phase = "sent"
              /\ e.ids = {} /\ e.texts = <<>> /\ (e.alone <=> calls = {})
  <1> DEFINE b == calls = {}
  <1>0. b \in BOOLEAN /\ (b <=> calls = {})
    OBVIOUS
  <1> HIDE DEF b
  <1> DEFINE e == [n |-> actions + 1, op |-> op, id |-> id, phase |-> "sent", ids |-> {},
                   texts |-> <<>>, told |-> "nothing", alone |-> b]
  <1>1. actions + 1 \in 0..MaxActions
    BY ConstantsAssumption DEF Typed, Act
  <1>2. e \in Call
    BY <1>0, <1>1 DEF Call
  <1>3. calls' = calls \cup {e}
    BY DEF Call1, Fetch, b
  <1> QED BY <1>0, <1>2, <1>3

(* A call stays well made while conversations are only added. *)
LEMMA SameWellMade ==
    ASSUME Typed, DOMAIN sessions \subseteq DOMAIN sessions', DOMAIN history \subseteq DOMAIN history',
           actions' \in Nat, actions <= actions'
    PROVE  \A c \in calls : WellMade(c)'
  BY DEF Typed, WellMade, Call

(* Every variable keeps its type, and every call is about conversations    *)
(* that page and server still have when it is answered.                    *)
THEOREM TypesKept == Spec => []Typed
  <1>1. Init => Typed
    <2> SUFFICES ASSUME Init
                 PROVE  Typed
      OBVIOUS
    <2>1. sessions \in [{} -> Seq(Lines)] /\ DOMAIN sessions = {}
      BY DEF Init
    <2>2. \A id \in Old : <<Question(id), Text("answer", id)>> \in Seq(Texts)
      <3>1. \A id \in Old : Question(id) \in Texts /\ Text("answer", id) \in Texts
        BY DEF Questions, Question, Text, Texts
      <3> QED BY <3>1
    <2>3. history \in [Old -> Seq(Texts)] /\ DOMAIN history = Old
      BY <2>2 DEF Init
    <2> DEFINE c == [n |-> 0, op |-> "load", id |-> Nil, phase |-> "sent", ids |-> {},
                     texts |-> <<>>, told |-> "nothing", alone |-> TRUE]
    <2>4. c \in Call
      BY ConstantsAssumption DEF Call
    <2>5. WellMade(c)
      BY ConstantsAssumption DEF WellMade, Init
    <2>6. calls = {c}
      BY DEF Init
    <2> HIDE DEF c
    <2>7. temp \in BOOLEAN /\ (temp <=> current = Temp) /\ current = Nil
      BY ConstantsAssumption DEF Init
    <2>8. actions \in 0..MaxActions /\ chat \in Seq(Lines)
      BY ConstantsAssumption DEF Init
    <2> QED BY <2>1, <2>3, <2>4, <2>5, <2>6, <2>7, <2>8, ConstantsAssumption DEF Init, Typed
  <1>2. Typed /\ [Next]_vars => Typed'
    <2> SUFFICES ASSUME Typed, [Next]_vars
                 PROVE  Typed'
      OBVIOUS
    <2>0. MaxActions \in Nat /\ actions \in Nat /\ Nil \notin Ids /\ Temp \notin Ids /\ Nil # Temp
      BY ConstantsAssumption DEF Typed
    <2>1. CASE UserActs
      <3>1. Act
        BY <2>1 DEF UserActs, SwitchSession, NewChat, SubmitNew, Submit, SubmitNowhere, Sync
      <3>2. /\ actions' = actions + 1 /\ actions + 1 \in 1..MaxActions /\ actions + 1 \in Questions
            /\ history' = history /\ failed' = failed /\ overlapped' \in BOOLEAN
        BY <2>0, <3>1 DEF Act, Typed, Questions
      <3>3. \A c \in calls : DOMAIN sessions \subseteq DOMAIN sessions' => WellMade(c)'
        BY <2>0, <3>2, SameWellMade
      <3>4. ASSUME NEW op \in {"history", "send", "create", "sync"}, NEW id \in Ids \cup {Nil},
                   Call1(op, id), DOMAIN sessions \subseteq DOMAIN sessions',
                   IF op = "create" THEN id = Nil ELSE id \in DOMAIN sessions
            PROVE  calls' \subseteq Call /\ \A c \in calls' : WellMade(c)'
        <4>0. Call1(op, id)
          BY <3>4
        <4>1. PICK e \in Call :
              /\ calls' = calls \cup {e}
              /\ e.n = actions + 1 /\ e.op = op /\ e.id = id /\ e.phase = "sent"
              /\ e.ids = {} /\ e.texts = <<>> /\ (e.alone <=> calls = {})
          BY <3>1, <4>0, NewCall
        <4>2. WellMade(e)'
          BY <2>0, <3>2, <3>4, <4>1 DEF WellMade
        <4> QED BY <3>3, <3>4, <4>1, <4>2 DEF Typed
      <3>5. CASE \E id \in Ids : SwitchSession(id)
        <4> PICK id \in Ids : SwitchSession(id)
          BY <3>5
        <4>1. /\ id \in DOMAIN sessions /\ current' = id /\ temp' = FALSE /\ sessions' = sessions
              /\ chat' = sessions[id] /\ strayed' \in BOOLEAN /\ again' \in BOOLEAN
          BY DEF SwitchSession, Leave, Typed
        <4>2. calls' \subseteq Call /\ \A c \in calls' : WellMade(c)'
          <5>1. CASE Call1("history", id)
            <6> DEFINE op == "history"
            <6>1. op \in {"history", "send", "create", "sync"} /\ Call1(op, id) /\ op # "create"
              BY <5>1
            <6> HIDE DEF op
            <6> QED BY <3>4, <4>1, <6>1
          <5>2. CASE UNCHANGED calls
            BY <3>3, <4>1, <5>2 DEF Typed
          <5> QED BY <5>1, <5>2 DEF SwitchSession
        <4>3. chat' \in Seq(Lines) /\ temp' \in BOOLEAN /\ (temp' <=> current' = Temp)
          BY <2>0, <4>1 DEF Typed
        <4> QED BY <3>2, <4>1, <4>2, <4>3 DEF Typed
      <3>6. CASE NewChat
        <4>1. calls' = calls /\ sessions' = sessions
          BY <3>6 DEF NewChat
        <4> QED BY <3>2, <3>3, <3>6, <4>1 DEF NewChat, Leave, Typed
      <3>7. chat' = Append(chat, Mine(Question(actions + 1))) => chat' \in Seq(Lines)
        BY <3>2, LinesTyped DEF Typed
      <3>8. CASE SubmitNew
        <4>1. /\ UNCHANGED <<current, temp, sessions>> /\ strayed' \in BOOLEAN /\ again' \in BOOLEAN
              /\ chat' = Append(chat, Mine(Question(actions + 1)))
          BY <3>8 DEF SubmitNew, Show, Typed
        <4>2. calls' \subseteq Call /\ \A c \in calls' : WellMade(c)'
          <5> DEFINE op == "create"
          <5>1. op \in {"history", "send", "create", "sync"} /\ Call1(op, Nil) /\ op = "create"
            BY <3>8 DEF SubmitNew
          <5> HIDE DEF op
          <5> QED BY <3>4, <4>1, <5>1
        <4> QED BY <3>2, <3>7, <4>1, <4>2 DEF Typed
      <3>9. CASE Submit
        <4>1. /\ UNCHANGED <<current, temp, strayed, again>> /\ current \in DOMAIN sessions
              /\ chat' = Append(chat, Mine(Question(actions + 1)))
              /\ sessions' = [sessions EXCEPT ![current] = Append(@, Mine(Question(actions + 1)))]
          BY <3>9 DEF Submit, Stay, Show, Push, Open
        <4>2. sessions' \in [DOMAIN sessions -> Seq(Lines)] /\ DOMAIN sessions' = DOMAIN sessions
          BY <3>2, <4>1, LinesTyped DEF Typed
        <4>3. calls' \subseteq Call /\ \A c \in calls' : WellMade(c)'
          <5> DEFINE op == "send"
          <5>1. op \in {"history", "send", "create", "sync"} /\ Call1(op, current) /\ op # "create"
            BY <3>9 DEF Submit
          <5> HIDE DEF op
          <5>2. current \in Ids
            BY <4>1 DEF Typed
          <5> QED BY <3>4, <4>1, <4>2, <5>1, <5>2
        <4> QED BY <3>2, <3>7, <4>1, <4>2, <4>3 DEF Typed
      <3>10. CASE SubmitNowhere
        <4>1. calls' = calls /\ sessions' = sessions
          BY <3>10 DEF SubmitNowhere
        <4> QED BY <3>2, <3>3, <3>7, <3>10, <4>1 DEF SubmitNowhere, Stay, Show, Typed
      <3>11. CASE Sync
        <4>1. UNCHANGED <<pageVars, strayed, again>> /\ current \in DOMAIN sessions
          BY <3>11 DEF Sync, Stay, Typed
        <4>2. calls' \subseteq Call /\ \A c \in calls' : WellMade(c)'
          <5> DEFINE op == "sync"
          <5>1. op \in {"history", "send", "create", "sync"} /\ Call1(op, current) /\ op # "create"
            BY <3>11 DEF Sync
          <5> HIDE DEF op
          <5>2. current \in Ids
            BY <4>1 DEF Typed
          <5> QED BY <3>4, <4>1, <5>1, <5>2 DEF pageVars
        <4> QED BY <3>2, <4>1, <4>2 DEF Typed, pageVars
      <3> QED BY <2>1, <3>5, <3>6, <3>8, <3>9, <3>10, <3>11 DEF UserActs
    <2>2. ASSUME NEW c \in calls, ServerActs(c)
          PROVE  Typed'
      <3>1. PICK d \in Call : Serves(c, d)
        BY <2>2, ServerServes
      <3>2. c \in Call /\ WellMade(c)
        BY DEF Typed
      <3>3. /\ UNCHANGED <<current, temp, sessions, chat, actions, overlapped, strayed, again>>
            /\ failed' \in BOOLEAN /\ calls' = (calls \ {c}) \cup {d}
        BY <3>1 DEF Serves, pageVars, userVars, Typed
      <3>4. /\ history' \in [DOMAIN history' -> Seq(Texts)] /\ DOMAIN history' \subseteq Ids
            /\ DOMAIN history \subseteq DOMAIN history'
        <4>1. c.op \in {"send", "create"} =>
                 /\ Question(c.n) \in Texts /\ \A kept \in {"answer", "empty"} : Text(kept, c.n) \in Texts
                 /\ <<Question(c.n)>> \in Seq(Texts)
                 /\ c.n \in 1..MaxActions
          BY <3>2, LinesTyped, KeptTyped DEF WellMade, Questions
        <4>2. c.op = "send" \/ c.phase = "asked" => c.id \in DOMAIN history
          BY <3>2 DEF WellMade, Typed
        <4>3. c.phase = "asked" => c.op \in {"send", "create"}
          BY <3>2 DEF WellMade
        <4>4. CASE UNCHANGED history
          BY <4>4 DEF Typed
        <4>5. CASE /\ c.op = "send" /\ c.phase = "sent"
                   /\ history' = [history EXCEPT ![c.id] = Append(history[c.id], Question(c.n))]
          BY <4>1, <4>2, <4>5 DEF Typed
        <4>6. ASSUME c.phase = "asked", NEW kept \in {"answer", "empty"},
                     history' = [history EXCEPT ![c.id] = Append(history[c.id], Text(kept, c.n))]
              PROVE  /\ history' \in [DOMAIN history' -> Seq(Texts)] /\ DOMAIN history' \subseteq Ids
                     /\ DOMAIN history \subseteq DOMAIN history'
          <5>1. /\ Text(kept, c.n) \in Texts /\ c.id \in DOMAIN history
            BY <4>1, <4>2, <4>3, <4>6
          <5> QED BY <4>6, <5>1 DEF Typed
        <4>7. CASE /\ c.op = "create" /\ d.id \in Ids \ DOMAIN history
                   /\ history' = [i \in DOMAIN history \cup {d.id} |->
                                    IF i = d.id THEN <<Question(c.n)>> ELSE history[i]]
          BY <4>1, <4>7 DEF Typed
        <4> QED BY <3>1, <4>4, <4>5, <4>6, <4>7 DEF Serves
      <3>5. \A e \in calls : WellMade(e)'
        BY <2>0, <3>3, <3>4, SameWellMade
      <3>6. WellMade(d)'
        <4>1. c.op = "create" /\ c.phase = "sent" /\ d.phase = "asked" => d.id \in DOMAIN history'
          BY <3>1 DEF Serves
        <4>2. d.op \in {"send", "create"} /\ d.phase = "done" => d.told # "nothing"
          BY <3>1 DEF Serves
        <4> QED BY <3>1, <3>2, <3>3, <3>4, <4>1, <4>2 DEF Serves, WellMade
      <3> QED BY <3>3, <3>4, <3>5, <3>6 DEF Typed
    <2>3. ASSUME NEW c \in calls, PageGoesOn(c)
          PROVE  Typed'
      <3>1. /\ calls' = calls \ {c} /\ UNCHANGED <<history, actions, overlapped, strayed, again, failed>>
            /\ c \in Call /\ WellMade(c)
        BY <2>3 DEF PageGoesOn, Loaded, NotLoaded, Switched, NotSwitched, Created, NotCreated,
                    Sent, NotSent, Synced, Resume, userVars, Typed
      <3>2. \A e \in calls : DOMAIN sessions \subseteq DOMAIN sessions' => WellMade(e)'
        BY <2>0, <3>1, SameWellMade
      <3>3. c.texts \in Seq(Texts) /\ Labelled(c.texts) \in Seq(Lines)
        BY <3>1, LabelledTyped DEF Call
      <3>4. c.op \in {"send", "create"} =>
               /\ Mine(Question(c.n)) \in Lines /\ Error(c.n) \in Lines
               /\ c.phase = "done" => Told(c) \in Lines
        BY <3>1, LinesTyped, ToldTyped DEF WellMade, Questions
      <3>5. \A id \in DOMAIN sessions : sessions[id] \in Seq(Lines)
        BY DEF Typed
      <3>6. CASE Loaded(c)
        <4>1. /\ sessions' \in [DOMAIN sessions' -> Seq(Lines)]
              /\ DOMAIN sessions' = DOMAIN sessions \cup c.ids
          BY <3>5, <3>6 DEF Loaded
        <4> QED BY <3>1, <3>2, <3>6, <4>1 DEF Loaded, WellMade, Typed
      <3>7. CASE NotLoaded(c)
        BY <3>1, <3>2, <3>7 DEF NotLoaded, pageVars, Typed
      <3>8. CASE Switched(c)
        <4>1. sessions' \in [DOMAIN sessions -> Seq(Lines)] /\ DOMAIN sessions' = DOMAIN sessions
          BY <3>3, <3>5, <3>8 DEF Switched
        <4>2. chat' \in Seq(Lines)
          BY <3>3, <3>8 DEF Switched, Typed
        <4> QED BY <3>1, <3>2, <3>8, <4>1, <4>2 DEF Switched, Typed
      <3>9. CASE NotSwitched(c)
        <4>1. chat' \in Seq(Lines)
          BY <3>1, <3>5, <3>9 DEF NotSwitched, Resume, WellMade, Typed
        <4> QED BY <3>1, <3>2, <3>9, <4>1 DEF NotSwitched, Typed
      <3>10. CASE Created(c)
        <4>0. /\ c.op = "create" /\ c.phase = "done" /\ c.id \in DOMAIN history /\ current' = c.id /\ temp' = FALSE
              /\ chat' = Append(chat, Told(c))
          BY <3>1, <3>10 DEF Created, Resume, WellMade
        <4>1. <<Mine(Question(c.n)), Told(c)>> \in Seq(Lines)
          BY <3>4, <4>0
        <4>2. /\ sessions' \in [DOMAIN sessions' -> Seq(Lines)]
              /\ DOMAIN sessions' = DOMAIN sessions \cup {c.id}
          BY <3>5, <3>10, <4>1 DEF Created
        <4>3. chat' \in Seq(Lines)
          BY <3>4, <4>0 DEF Typed
        <4>4. temp' \in BOOLEAN /\ (temp' <=> current' = Temp)
          BY <2>0, <4>0 DEF Typed
        <4> QED BY <3>1, <3>2, <4>0, <4>2, <4>3, <4>4 DEF Typed
      <3>11. CASE NotCreated(c) \/ NotSent(c)
        <4>1. c.op \in {"create", "send"} /\ chat' = Append(chat, Error(c.n))
              /\ UNCHANGED <<current, temp, sessions>>
          BY <3>11 DEF NotCreated, NotSent, Resume
        <4>2. chat' \in Seq(Lines)
          BY <3>4, <4>1 DEF Typed
        <4> QED BY <3>1, <3>2, <4>1, <4>2 DEF Typed
      <3>12. CASE Sent(c)
        <4>0. c.op = "send" /\ c.phase = "done" /\ UNCHANGED <<current, temp>>
          BY <3>12 DEF Sent, Resume
        <4>1. chat' \in Seq(Lines)
          <5>1. Append(chat, Told(c)) \in Seq(Lines)
            BY <3>4, <4>0 DEF Typed
          <5>2. chat \o <<Told(c), Error(c.n)>> \in Seq(Lines)
            BY <3>4, <4>0 DEF Typed
          <5> QED BY <3>12, <5>1, <5>2 DEF Sent
        <4>2. sessions' \in [DOMAIN sessions -> Seq(Lines)] /\ DOMAIN sessions' = DOMAIN sessions
          <5>1. CASE sessions' = [sessions EXCEPT ![current] = Append(@, Told(c))]
                     /\ current \in DOMAIN sessions
            BY <3>4, <3>5, <4>0, <5>1 DEF Typed
          <5>2. CASE sessions' = sessions
            BY <5>2 DEF Typed
          <5> QED BY <3>12, <5>1, <5>2 DEF Sent, Push, Open
        <4> QED BY <3>1, <3>2, <4>0, <4>1, <4>2 DEF Typed
      <3>13. CASE Synced(c)
        <4>1. sessions' \in [DOMAIN sessions -> Seq(Lines)] /\ DOMAIN sessions' = DOMAIN sessions
          BY <3>3, <3>5, <3>13 DEF Synced, Open, Typed
        <4>2. chat' \in Seq(Lines)
          BY <3>3, <3>13 DEF Synced, Typed
        <4> QED BY <3>1, <3>2, <3>13, <4>1, <4>2 DEF Synced, Typed
      <3> QED BY <2>3, <3>6, <3>7, <3>8, <3>9, <3>10, <3>11, <3>12, <3>13 DEF PageGoesOn
    <2>4. CASE UNCHANGED vars
      BY <2>4 DEF vars, pageVars, userVars, Typed, WellMade
    <2> QED BY <2>1, <2>2, <2>3, <2>4, StepsOfThePage
  <1> QED BY <1>1, <1>2, PTL DEF Spec

(* TypeOK: every variable has its type; the flag and the id agree on       *)
(* whether the conversation is a new one, and the page knows the one that  *)
(* is chosen, whatever a list of conversations that comes late replaces.   *)
THEOREM TypeCorrect == Spec => []TypeOK
  <1>1. Typed => TypeOK
    <2> SUFFICES ASSUME Typed
                 PROVE  TypeOK
      OBVIOUS
    <2>1. Range(sessions) \subseteq Seq(Lines)
      BY DEF Typed, Range
    <2>2. Range(history) \subseteq Seq(Texts)
      BY DEF Typed, Range
    <2>3. temp = (current = Temp)
      BY Zenon DEF Typed
    <2> QED BY <2>1, <2>2, <2>3 DEF Typed, TypeOK
  <1> QED BY <1>1, TypesKept, PTL
(***************************************************************************)
(* Whose texts are where                                                   *)
(***************************************************************************)
LineOf(lines, n) == \E i \in 1..Len(lines) : lines[i].text.of = n
TextOf(texts, n) == \E i \in 1..Len(texts) : texts[i].of = n

(* A text of submission n is in the server's history of conversation id,   *)
(* in what the page keeps of it, or shown.                                 *)
Kept(id, n) == id \in DOMAIN history /\ TextOf(history[id], n)
Held(id, n) == id \in DOMAIN sessions /\ LineOf(sessions[id], n)
Shown(n)    == LineOf(chat, n)

Asks(c) == c.op \in {"send", "create"}

(* A submission is in one conversation, the one that its call is for, and  *)
(* calls have numbers of their own.                                        *)
HomesInv ==
    /\ \A i, j \in Ids, n \in Questions : Kept(i, n) /\ Kept(j, n) => i = j
    /\ \A c \in calls, j \in Ids : Asks(c) /\ Kept(j, c.n) => j = c.id
    /\ \A c, d \in calls : c.n = d.n => c = d
    /\ \A j \in Ids, n \in Questions : Kept(j, n) => n \in Old \cup 1..actions

(* Submission n has been made, and is and will be in no conversation       *)
(* except id.                                                              *)
Own(n, id) ==
    /\ n \in Old \cup 1..actions
    /\ \A j \in Ids : Kept(j, n) => j = id
    /\ \A c \in calls : Asks(c) /\ c.n = n => c.id = id

(* Until the user strays or asks again in a new chat: what the page keeps  *)
(* of a conversation and what it shows are the conversation's own, calls   *)
(* under way are for the one that is chosen, and all that a new one shows  *)
(* while it is made is what it is made with.                               *)
StayInv ==
    ~strayed /\ ~again =>
        /\ \A id \in Ids, n \in Questions : Held(id, n) => Own(n, id)
        /\ \A id \in DOMAIN sessions, n \in Questions : current = id /\ Shown(n) => Own(n, id)
        /\ \A c \in calls :
            /\ c.op \in {"history", "sync", "send"} => c.id = current
            /\ c.op \in {"history", "sync"} => \A n \in Questions : TextOf(c.texts, n) => Own(n, c.id)
            /\ c.op = "create" =>
                  /\ current = Temp /\ chat # <<>>
                  /\ \A n \in Questions : Shown(n) => n = c.n
                  /\ \A d \in calls : d.op = "create" => d = c

(* A line more shows no other submission than its own. *)
LEMMA LinesOfAppend ==
    ASSUME NEW s \in Seq(Lines), NEW x \in Lines, NEW n
    PROVE  LineOf(Append(s, x), n) => LineOf(s, n) \/ x.text.of = n
  <1>1. /\ Len(Append(s, x)) = Len(s) + 1 /\ Len(s) \in Nat
        /\ \A i \in 1..Len(s) : Append(s, x)[i] = s[i]
        /\ Append(s, x)[Len(s) + 1] = x
    OBVIOUS
  <1>2. \A i \in 1..(Len(s) + 1) : i \in 1..Len(s) \/ i = Len(s) + 1
    BY <1>1
  <1> QED BY <1>1, <1>2 DEF LineOf

(* A line more is at least one. *)
LEMMA AppendNotEmpty ==
    ASSUME NEW s \in Seq(Lines), NEW x \in Lines
    PROVE  Append(s, x) # <<>>
  <1> DEFINE v == Append(s, x)
  <1>1. v \in Seq(Lines) /\ Len(v) = Len(s) + 1 /\ Len(s) \in Nat
    OBVIOUS
  <1> HIDE DEF v
  <1>2. v # <<>>
    BY <1>1
  <1> QED BY <1>2 DEF v

(* Lines put together show what either part shows. *)
LEMMA LinesOfConcat ==
    ASSUME NEW s \in Seq(Lines), NEW r \in Seq(Lines), NEW n
    PROVE  LineOf(s \o r, n) => LineOf(s, n) \/ LineOf(r, n)
  <1>1. /\ Len(s \o r) = Len(s) + Len(r) /\ Len(s) \in Nat /\ Len(r) \in Nat
        /\ \A i \in 1..Len(s) : (s \o r)[i] = s[i]
        /\ \A i \in 1..(Len(s) + Len(r)) : i > Len(s) => (s \o r)[i] = r[i - Len(s)]
    OBVIOUS
  <1>2. \A i \in 1..(Len(s) + Len(r)) : i \in 1..Len(s) \/ (i > Len(s) /\ i - Len(s) \in 1..Len(r))
    BY <1>1
  <1> QED BY <1>1, <1>2 DEF LineOf

(* A text more in a history is of no other submission than its own. *)
LEMMA TextsOfAppend ==
    ASSUME NEW s \in Seq(Texts), NEW x \in Texts, NEW n
    PROVE  TextOf(Append(s, x), n) => TextOf(s, n) \/ x.of = n
  <1>1. /\ Len(Append(s, x)) = Len(s) + 1 /\ Len(s) \in Nat
        /\ \A i \in 1..Len(s) : Append(s, x)[i] = s[i]
        /\ Append(s, x)[Len(s) + 1] = x
    OBVIOUS
  <1>2. \A i \in 1..(Len(s) + 1) : i \in 1..Len(s) \/ i = Len(s) + 1
    BY <1>1
  <1> QED BY <1>1, <1>2 DEF TextOf

(* Labelled texts are of the submissions of the texts. *)
LEMMA LabelledLines ==
    ASSUME NEW texts \in Seq(Texts), NEW n
    PROVE  LineOf(Labelled(texts), n) <=> TextOf(texts, n)
  BY LabelledTyped DEF LineOf, TextOf

(* What the server adds is of the call's own submission, in the call's     *)
(* own conversation.                                                       *)
LEMMA KeptByServing ==
    ASSUME Typed, NEW c \in calls, NEW d \in Call, Serves(c, d)
    PROVE  /\ \A j \in Ids, n \in Questions :
                Kept(j, n)' => Kept(j, n) \/ (Asks(c) /\ n = c.n /\ j = d.id)
           /\ Asks(c) => c.n \in Questions /\ c.n \in 1..actions
           /\ d.id = c.id \/ (Asks(c) /\ c.id = Nil)
  <1>0. c \in Call /\ WellMade(c) /\ actions \in Nat
        /\ history \in [DOMAIN history -> Seq(Texts)]
    BY DEF Typed
  <1>1. Asks(c) => /\ c.n \in Questions /\ c.n \in 1..actions
                   /\ Question(c.n) \in Texts /\ Question(c.n).of = c.n
                   /\ \A kept \in {"answer", "empty"} :
                         Text(kept, c.n) \in Texts /\ Text(kept, c.n).of = c.n
    BY <1>0, LinesTyped, KeptTyped DEF Asks, WellMade, Questions
  <1>2. d.id = c.id \/ (Asks(c) /\ c.id = Nil)
    BY <1>0 DEF Serves, WellMade, Asks
  <1>3. ASSUME NEW j \in Ids, NEW n \in Questions, Kept(j, n)'
        PROVE  Kept(j, n) \/ (Asks(c) /\ n = c.n /\ j = d.id)
    <2>1. CASE UNCHANGED history
      BY <1>3, <2>1 DEF Kept, TextOf
    <2>2. ASSUME NEW x \in Texts, x.of = c.n, Asks(c), c.id = d.id,
                 history' = [history EXCEPT ![c.id] = Append(history[c.id], x)]
          PROVE  Kept(j, n) \/ (Asks(c) /\ n = c.n /\ j = d.id)
      <3>1. CASE j = c.id /\ j \in DOMAIN history
        <4>1. history'[j] = Append(history[j], x)
          BY <2>2, <3>1
        <4>2. TextOf(Append(history[j], x), n)
          BY <1>3, <4>1 DEF Kept, TextOf
        <4>3. TextOf(history[j], n) \/ x.of = n
          BY <1>0, <3>1, <4>2, TextsOfAppend
        <4> QED BY <2>2, <3>1, <4>3 DEF Kept
      <3>2. CASE ~(j = c.id /\ j \in DOMAIN history)
        <4>1. j \in DOMAIN history => history'[j] = history[j]
          BY <2>2, <3>2
        <4>2. DOMAIN history' = DOMAIN history
          BY <2>2
        <4> QED BY <1>3, <4>1, <4>2 DEF Kept, TextOf
      <3> QED BY <3>1, <3>2
    <2>3. CASE /\ c.op = "create"
               /\ history' = [i \in DOMAIN history \cup {d.id} |->
                                IF i = d.id THEN <<Question(c.n)>> ELSE history[i]]
      <3>1. CASE j = d.id
        <4> DEFINE q == Question(c.n)
        <4>1. history'[j] = <<q>>
          BY <2>3, <3>1
        <4>2. q.of = c.n
          BY <1>1, <2>3 DEF Asks
        <4> HIDE DEF q
        <4>3. \E i \in 1..Len(<<q>>) : <<q>>[i].of = n
          BY <1>3, <4>1 DEF Kept, TextOf
        <4> QED BY <2>3, <3>1, <4>2, <4>3 DEF Asks
      <3>2. CASE j # d.id
        <4>1. j \in DOMAIN history /\ history'[j] = history[j]
          BY <1>3, <2>3, <3>2 DEF Kept
        <4> QED BY <1>3, <4>1 DEF Kept, TextOf
      <3> QED BY <3>1, <3>2
    <2>4. c.phase = "asked" => Asks(c)
      BY <1>0 DEF WellMade, Asks
    <2>5. CASE /\ c.op = "send" /\ d.id = c.id
               /\ history' = [history EXCEPT ![c.id] = Append(history[c.id], Question(c.n))]
      BY <1>1, <2>2, <2>5 DEF Asks
    <2>6. ASSUME c.phase = "asked", d.id = c.id, NEW kept \in {"answer", "empty"},
                 history' = [history EXCEPT ![c.id] = Append(history[c.id], Text(kept, c.n))]
          PROVE  Kept(j, n) \/ (Asks(c) /\ n = c.n /\ j = d.id)
      BY <1>1, <2>2, <2>4, <2>6
    <2> QED
      <3>1. \/ UNCHANGED history
            \/ /\ c.op = "create"
               /\ history' = [i \in DOMAIN history \cup {d.id} |->
                                IF i = d.id THEN <<Question(c.n)>> ELSE history[i]]
            \/ /\ c.op = "send" /\ d.id = c.id
               /\ history' = [history EXCEPT ![c.id] = Append(history[c.id], Question(c.n))]
            \/ /\ c.phase = "asked" /\ d.id = c.id
               /\ \E kept \in {"answer", "empty"} :
                     history' = [history EXCEPT ![c.id] = Append(history[c.id], Text(kept, c.n))]
        BY DEF Serves
      <3> QED BY <2>1, <2>3, <2>5, <2>6, <3>1
  <1> QED BY <1>1, <1>2, <1>3

(* What a step of the user does to calls and histories. *)
UserCalls(a) ==
    /\ a = actions + 1 /\ actions' = a /\ a \in 1..MaxActions
    /\ UNCHANGED <<history, failed>>
    /\ \/ calls' = calls
       \/ \E e \in Call : calls' = calls \cup {e} /\ e.n = a

(* An action of the user is counted and begins at most one call, numbered  *)
(* by it; histories are the server's.                                      *)
LEMMA UserCallsOnce ==
    ASSUME Typed, UserActs
    PROVE  UserCalls(actions + 1)
  <1>0. MaxActions \in Nat /\ actions \in Nat
    BY ConstantsAssumption DEF Typed
  <1>1. Act
    BY DEF UserActs, SwitchSession, NewChat, SubmitNew, Submit, SubmitNowhere, Sync
  <1>2. ASSUME NEW op \in {"history", "send", "create", "sync"}, NEW id \in Ids \cup {Nil},
               Call1(op, id)
        PROVE  \E e \in Call : calls' = calls \cup {e} /\ e.n = actions + 1
    <2>1. Call1(op, id)
      BY <1>2
    <2>2. PICK e \in Call :
              /\ calls' = calls \cup {e}
              /\ e.n = actions + 1 /\ e.op = op /\ e.id = id /\ e.phase = "sent"
              /\ e.ids = {} /\ e.texts = <<>> /\ (e.alone <=> calls = {})
      BY <1>1, <2>1, NewCall
    <2> QED BY <2>2
  <1>3. UNCHANGED calls \/ \E op \in {"history", "send", "create", "sync"}, id \in Ids \cup {Nil} : Call1(op, id)
    BY DEF UserActs, SwitchSession, NewChat, SubmitNew, Submit, SubmitNowhere, Sync, Open, Typed
  <1> QED BY <1>0, <1>1, <1>2, <1>3 DEF Act, UserCalls

(* A submission has one conversation, from its call to the server's        *)
(* history.                                                                *)
LEMMA HomesAreKept == Spec => []HomesInv
  <1>1. Init => HomesInv
    <2> SUFFICES ASSUME Init
                 PROVE  HomesInv
      OBVIOUS
    <2>1. ASSUME NEW j \in Ids, NEW n \in Questions, Kept(j, n)
          PROVE  j \in Old /\ n = j
      BY <2>1 DEF Init, Kept, TextOf, Question, Text
    <2>2. \A c \in calls : ~Asks(c) /\ \A d \in calls : c = d
      BY DEF Init, Asks
    <2> QED BY <2>1, <2>2 DEF HomesInv
  <1>2. Typed /\ HomesInv /\ [Next]_vars => HomesInv'
    <2> SUFFICES ASSUME Typed, HomesInv, [Next]_vars
                 PROVE  HomesInv'
      OBVIOUS
    <2>0. /\ Nil \notin Ids /\ MaxActions \in Nat /\ actions \in Nat
          /\ \A c \in calls : c \in Call /\ c.n <= actions /\ c.n \in Nat
      BY ConstantsAssumption DEF Typed, WellMade, Call
    <2>1. CASE UserActs
      <3> DEFINE a == actions + 1
      <3>1. UserCalls(a)
        BY <2>1, UserCallsOnce
      <3>2. a \notin Old \cup 1..actions /\ a \in Questions /\ \A c \in calls : c.n # a
        BY <2>0, <3>1, ConstantsAssumption DEF UserCalls, Questions
      <3>3. \A j, n : Kept(j, n)' <=> Kept(j, n)
        BY <3>1 DEF UserCalls, Kept, TextOf
      <3>4. \A j \in Ids : ~Kept(j, a)
        BY <3>2 DEF HomesInv
      <3>5. 1..actions \subseteq 1..actions'
        BY <2>0, <3>1 DEF UserCalls
      <3>6. \A c \in calls' : c \in calls \/ (c.n = a /\ \A d \in calls' : d.n = a => d = c)
        BY <3>1, <3>2 DEF UserCalls
      <3> HIDE DEF a
      <3>7. \A c \in calls', j \in Ids : Asks(c) /\ Kept(j, c.n)' => j = c.id
        BY <3>3, <3>4, <3>6 DEF HomesInv
      <3>8. \A c, d \in calls' : c.n = d.n => c = d
        BY <3>2, <3>6 DEF HomesInv
      <3>9. \A j \in Ids, n \in Questions : Kept(j, n)' => n \in Old \cup 1..actions'
        BY <3>3, <3>5 DEF HomesInv
      <3> QED BY <3>3, <3>7, <3>8, <3>9 DEF HomesInv
    <2>2. ASSUME NEW c \in calls, ServerActs(c)
          PROVE  HomesInv'
      <3>1. PICK d \in Call : Serves(c, d)
        BY <2>2, ServerServes
      <3>2. /\ \A j \in Ids, n \in Questions :
                Kept(j, n)' => Kept(j, n) \/ (Asks(c) /\ n = c.n /\ j = d.id)
            /\ Asks(c) => c.n \in Questions /\ c.n \in 1..actions
            /\ d.id = c.id \/ (Asks(c) /\ c.id = Nil)
        BY <3>1, KeptByServing
      <3>3. calls' = (calls \ {c}) \cup {d} /\ d.n = c.n /\ d.op = c.op /\ actions' = actions
        BY <3>1 DEF Serves, userVars
      <3>4. Asks(c) => \A j \in Ids : Kept(j, c.n) => j = d.id
        BY <2>0, <3>2 DEF HomesInv
      <3>5. \A i, j \in Ids, n \in Questions : Kept(i, n)' /\ Kept(j, n)' => i = j
        BY <3>2, <3>4 DEF HomesInv
      <3>6. ASSUME NEW e \in calls', NEW j \in Ids, Asks(e), Kept(j, e.n)'
            PROVE  j = e.id
        <4>1. e.n \in Questions
          BY <2>0, <3>2, <3>3, <3>6 DEF Typed, WellMade, Asks, Questions
        <4>2. CASE e = d
          BY <3>2, <3>3, <3>4, <3>6, <4>1, <4>2 DEF Asks
        <4>3. CASE e # d
          <5>1. e \in calls /\ e # c /\ e.n # c.n
            BY <3>3, <4>3 DEF HomesInv
          <5> QED BY <3>2, <3>6, <4>1, <5>1 DEF HomesInv
        <4> QED BY <4>2, <4>3
      <3>7. \A e, f \in calls' : e.n = f.n => e = f
        BY <3>3 DEF HomesInv
      <3>8. \A j \in Ids, n \in Questions : Kept(j, n)' => n \in Old \cup 1..actions'
        BY <3>2, <3>3 DEF HomesInv
      <3> QED BY <3>5, <3>6, <3>7, <3>8 DEF HomesInv
    <2>3. ASSUME NEW c \in calls, PageGoesOn(c)
          PROVE  HomesInv'
      <3>1. calls' = calls \ {c} /\ UNCHANGED <<history, actions>>
        BY <2>3 DEF PageGoesOn, Loaded, NotLoaded, Switched, NotSwitched, Created, NotCreated,
                    Sent, NotSent, Synced, Resume, userVars
      <3>2. \A j, n : Kept(j, n)' <=> Kept(j, n)
        BY <3>1 DEF Kept, TextOf
      <3> QED BY <3>1, <3>2 DEF HomesInv
    <2>4. CASE UNCHANGED vars
      BY <2>4 DEF vars, userVars, HomesInv, Kept, TextOf
    <2> QED BY <2>1, <2>2, <2>3, <2>4, StepsOfThePage
  <1> QED BY <1>1, <1>2, TypesKept, PTL DEF Spec
(* What is in a conversation's history is its own. *)
LEMMA OwnHistory ==
    ASSUME Typed, HomesInv, NEW id \in Ids, NEW n \in Questions, Kept(id, n)
    PROVE  Own(n, id)
  BY DEF HomesInv, Own

(* The user's next action takes no submission from its conversation. *)
LEMMA OwnByUser ==
    ASSUME Typed, NEW a, UserCalls(a), NEW n, NEW id, Own(n, id)
    PROVE  Own(n, id)'
  <1>1. a \notin Old \cup 1..actions /\ 1..actions \subseteq 1..actions'
    BY ConstantsAssumption DEF UserCalls, Typed
  <1>2. \A j : Kept(j, n)' <=> Kept(j, n)
    BY DEF UserCalls, Kept, TextOf
  <1>3. \A c \in calls' : c.n = n => c \in calls
    BY <1>1 DEF UserCalls, Own
  <1> QED BY <1>1, <1>2, <1>3 DEF Own

(* A new submission is its conversation's own. *)
LEMMA OwnFromNow ==
    ASSUME Typed, HomesInv, NEW a, UserCalls(a), NEW id,
           \A c \in calls' : c.n = a => c.id = id
    PROVE  Own(a, id)'
  <1>1. a \notin Old \cup 1..actions /\ a \in 1..actions' /\ a \in Questions
    BY ConstantsAssumption DEF UserCalls, Typed, Questions
  <1>2. \A j : Kept(j, a)' <=> Kept(j, a)
    BY DEF UserCalls, Kept, TextOf
  <1> QED BY <1>1, <1>2 DEF HomesInv, Own

(* The server stores a submission where its call says. *)
LEMMA OwnByServing ==
    ASSUME Typed, NEW c \in calls, NEW d \in Call, Serves(c, d),
           NEW n \in Questions, NEW id \in Ids, Own(n, id)
    PROVE  Own(n, id)'
  <1>1. /\ \A j \in Ids : Kept(j, n)' => Kept(j, n) \/ (Asks(c) /\ n = c.n /\ j = d.id)
        /\ d.id = c.id \/ (Asks(c) /\ c.id = Nil)
    BY KeptByServing
  <1>2. Nil \notin Ids
    BY ConstantsAssumption
  <1>3. calls' = (calls \ {c}) \cup {d} /\ d.n = c.n /\ d.op = c.op /\ actions' = actions
    BY DEF Serves, userVars
  <1>4. Asks(c) /\ c.n = n => c.id = id /\ d.id = id
    BY <1>1, <1>2 DEF Own
  <1> QED BY <1>1, <1>3, <1>4 DEF Own, Asks

(* A call that is over leaves the histories as they are. *)
LEMMA OwnByPage ==
    ASSUME NEW c, calls' = calls \ {c}, UNCHANGED <<history, actions>>,
           NEW n, NEW id, Own(n, id)
    PROVE  Own(n, id)'
  BY DEF Own, Kept, TextOf

(* While the user has neither strayed nor asked again in a new chat,       *)
(* everything the page keeps, shows or waits for is of the right           *)
(* conversation.                                                           *)
LEMMA PagesBelong == Spec => []StayInv
  <1>1. Init => StayInv
    <2> SUFFICES ASSUME Init
                 PROVE  StayInv
      OBVIOUS
    <2>1. DOMAIN sessions = {} /\ Len(chat) = 0 /\ current = Nil
      BY DEF Init
    <2>2. \A c \in calls : c.op = "load"
      BY DEF Init
    <2> QED BY <2>1, <2>2, ConstantsAssumption DEF StayInv, Held, Shown, LineOf
  <1>2. Typed /\ HomesInv /\ StayInv /\ [Next]_vars => StayInv'
    <2> SUFFICES ASSUME Typed, HomesInv, StayInv, [Next]_vars, ~strayed', ~again'
                 PROVE  StayInv'
      BY DEF StayInv
    <2>0. /\ Nil \notin Ids /\ Temp \notin Ids /\ Nil # Temp /\ MaxActions \in Nat /\ actions \in Nat
          /\ DOMAIN sessions \subseteq Ids /\ chat \in Seq(Lines)
          /\ current \in DOMAIN sessions \cup {Nil, Temp}
          /\ \A id \in DOMAIN sessions : sessions[id] \in Seq(Lines)
      BY ConstantsAssumption DEF Typed
    <2>1. CASE UserActs
      <3>0. PICK a \in Nat : a = actions + 1
        BY <2>0
      <3> DEFINE line == Mine(Question(a))
      <3>1. UserCalls(a) /\ Act
        BY <2>1, <3>0, UserCallsOnce DEF UserActs, SwitchSession, NewChat, SubmitNew, Submit, SubmitNowhere, Sync
      <3>2. ~strayed /\ ~again
        <4>1. /\ strayed' = strayed \/ \E ops : strayed' = (strayed \/ Waiting(ops))
              /\ again' = again \/ again' = (again \/ chat # <<>>)
          BY <2>1 DEF UserActs, SwitchSession, NewChat, SubmitNew, Submit, SubmitNowhere, Sync, Leave, Stay
        <4>2. strayed \in BOOLEAN /\ again \in BOOLEAN
          BY DEF Typed
        <4> QED BY <4>1, <4>2
      <3>3. a \in Questions /\ a \notin Old \cup 1..actions /\ \A c \in calls : c.n # a
        BY <2>0, <3>1, ConstantsAssumption DEF UserCalls, Questions, Typed, WellMade, Call
      <3>4. \A n, id : Own(n, id) => Own(n, id)'
        BY <3>1, OwnByUser
      <3>5. line \in Lines /\ line.text.of = a
        BY <3>3, LinesTyped
      <3>6. ASSUME NEW op \in {"history", "send", "create", "sync"}, NEW id \in Ids \cup {Nil},
                   Call1(op, id)
            PROVE  \E e \in Call :
                      /\ calls' = calls \cup {e}
                      /\ e.n = a /\ e.op = op /\ e.id = id /\ e.phase = "sent"
                      /\ e.ids = {} /\ e.texts = <<>> /\ (e.alone <=> calls = {})
        <4>1. Call1(op, id)
          BY <3>6
        <4>2. PICK e \in Call :
                      /\ calls' = calls \cup {e}
                      /\ e.n = actions + 1 /\ e.op = op /\ e.id = id /\ e.phase = "sent"
                      /\ e.ids = {} /\ e.texts = <<>> /\ (e.alone <=> calls = {})
          BY <3>1, <4>1, NewCall
        <4> QED BY <3>0, <4>2
      <3>7. \A n : ~TextOf(<<>>, n)
        BY DEF TextOf
      <3> HIDE DEF line
      <3>8. ASSUME UNCHANGED sessions
            PROVE  \A id \in Ids, n \in Questions : Held(id, n)' => Own(n, id)'
        <4>1. \A id, n : Held(id, n)' <=> Held(id, n)
          BY <3>8 DEF Held, LineOf
        <4> QED BY <3>2, <3>4, <4>1 DEF StayInv
      <3>9. chat' = Append(chat, line) => \A n : Shown(n)' => Shown(n) \/ n = a
        BY <2>0, <3>5, LinesOfAppend DEF Shown, LineOf
      <3>10. CASE \E id \in Ids : SwitchSession(id)
        <4> PICK id \in Ids : SwitchSession(id)
          BY <3>10
        <4>1. /\ id \in DOMAIN sessions /\ current' = id /\ sessions' = sessions
              /\ chat' = sessions[id]
              /\ \A c \in calls : c.op \notin {"history", "send", "create", "sync"}
          BY DEF SwitchSession, Leave, Waiting
        <4>2. \A n \in Questions : Shown(n)' => Own(n, id)'
          BY <3>2, <3>4, <4>1 DEF StayInv, Held, Shown, LineOf
        <4>3. \A c \in calls' : c.op \in {"history", "send", "create", "sync"}
                  => c.op = "history" /\ c.id = id /\ c.texts = <<>>
          <5>1. CASE Call1("history", id)
            <6> DEFINE op == "history"
            <6>1. op \in {"history", "send", "create", "sync"} /\ Call1(op, id) /\ op = "history"
              BY <5>1
            <6> HIDE DEF op
            <6>2. PICK e \in Call : calls' = calls \cup {e} /\ e.op = op /\ e.id = id /\ e.texts = <<>>
              BY <3>6, <6>1
            <6> QED BY <4>1, <6>1, <6>2
          <5>2. CASE UNCHANGED calls
            BY <4>1, <5>2
          <5> QED BY <5>1, <5>2 DEF SwitchSession
        <4> QED BY <2>0, <3>7, <3>8, <4>1, <4>2, <4>3 DEF StayInv
      <3>11. CASE NewChat
        <4>1. /\ current' = Temp /\ sessions' = sessions /\ calls' = calls /\ chat' = <<>>
              /\ \A c \in calls : c.op \notin {"history", "send", "create", "sync"}
          BY <3>11 DEF NewChat, Leave, Waiting
        <4>2. \A n : ~Shown(n)'
          BY <4>1 DEF Shown, LineOf
        <4> QED BY <2>0, <3>8, <4>1, <4>2 DEF StayInv
      <3>12. CASE SubmitNew
        <4>1. /\ current = Temp /\ current' = current /\ sessions' = sessions
              /\ chat = <<>> /\ chat' = Append(chat, line)
          BY <3>0, <3>12 DEF SubmitNew, Show, Typed, line
        <4>0. \A c \in calls : c.op # "create"
          BY <3>2, <4>1 DEF StayInv
        <4>2. PICK e \in Call : calls' = calls \cup {e} /\ e.n = a /\ e.op = "create"
          <5> DEFINE op == "create"
          <5>1. op \in {"history", "send", "create", "sync"} /\ Call1(op, Nil) /\ op = "create"
            BY <3>12 DEF SubmitNew
          <5> HIDE DEF op
          <5> QED BY <3>6, <5>1
        <4>3. /\ \A n \in Questions : Shown(n)' => n = a
              /\ chat' # <<>>
          <5>1. \A n : ~Shown(n)
            BY <4>1 DEF Shown, LineOf
          <5> QED BY <2>0, <3>5, <3>9, <4>1, <5>1, AppendNotEmpty
        <4>4. \A c \in calls : c.op \in {"history", "sync"} =>
                \A n \in Questions : TextOf(c.texts, n) => Own(n, c.id)'
          BY <3>2, <3>4 DEF StayInv
        <4>5. \A c \in calls : c.op \in {"history", "sync", "send"} => c.id = current'
          BY <3>2, <4>1 DEF StayInv
        <4> QED BY <2>0, <3>8, <4>0, <4>1, <4>2, <4>3, <4>4, <4>5 DEF StayInv
      <3>13. \A c \in calls :
                /\ c.op \in {"history", "sync", "send"} => c.id = current
                /\ c.op \in {"history", "sync"} => \A n \in Questions : TextOf(c.texts, n) => Own(n, c.id)'
                /\ c.op = "create" => current = Temp
        BY <3>2, <3>4 DEF StayInv
      <3>14. CASE Submit
        <4>1. /\ current' = current /\ current \in DOMAIN sessions
              /\ chat' = Append(chat, line)
              /\ sessions' = [sessions EXCEPT ![current] = Append(sessions[current], line)]
          BY <3>0, <3>14 DEF Submit, Show, Push, Open, line
        <4>2. PICK e \in Call : calls' = calls \cup {e} /\ e.n = a /\ e.op = "send" /\ e.id = current
          <5> DEFINE op == "send"
          <5>1. op \in {"history", "send", "create", "sync"} /\ Call1(op, current) /\ op = "send"
            BY <3>14 DEF Submit
          <5>2. current \in Ids \cup {Nil}
            BY <2>0, <4>1
          <5> HIDE DEF op
          <5> QED BY <3>6, <5>1, <5>2
        <4>3. PICK cur \in Ids : cur = current
          BY <2>0, <4>1
        <4>4. Own(a, cur)'
          <5>1. \A c \in calls' : c.n = a => c.id = cur
            BY <3>3, <4>2, <4>3
          <5> QED BY <3>1, <5>1, OwnFromNow
        <4>5. \A n : Held(cur, n)' => Held(cur, n) \/ n = a
          <5>1. sessions'[cur] = Append(sessions[cur], line) /\ sessions[cur] \in Seq(Lines)
            BY <2>0, <4>1, <4>3
          <5>2. \A n : LineOf(Append(sessions[cur], line), n) => LineOf(sessions[cur], n) \/ n = a
            BY <3>5, <5>1, LinesOfAppend
          <5> QED BY <4>1, <4>3, <5>1, <5>2 DEF Held, LineOf
        <4>6. \A id \in Ids, n \in Questions : id # cur => (Held(id, n)' <=> Held(id, n))
          BY <4>1, <4>3 DEF Held, LineOf
        <4>7. \A id \in Ids, n \in Questions : Held(id, n)' => Own(n, id)'
          BY <3>2, <3>4, <4>4, <4>5, <4>6 DEF StayInv
        <4>8. \A n \in Questions : Shown(n)' => Own(n, cur)'
          BY <3>2, <3>4, <3>9, <4>1, <4>3, <4>4 DEF StayInv
        <4>9. DOMAIN sessions' = DOMAIN sessions
          BY <4>1
        <4> QED BY <2>0, <3>13, <4>1, <4>2, <4>3, <4>7, <4>8, <4>9 DEF StayInv
      <3>15. CASE SubmitNowhere
        <4>1. current = Nil /\ current' = Nil /\ UNCHANGED <<sessions, calls>>
          BY <2>0, <3>15 DEF SubmitNowhere, Open, Typed
        <4> QED BY <2>0, <3>8, <3>13, <4>1 DEF StayInv
      <3>16. CASE Sync
        <4>1. current \in DOMAIN sessions /\ UNCHANGED <<current, sessions, chat>>
          BY <3>16 DEF Sync, Typed, pageVars
        <4>2. PICK e \in Call : calls' = calls \cup {e} /\ e.op = "sync" /\ e.id = current /\ e.texts = <<>>
          <5> DEFINE op == "sync"
          <5>1. op \in {"history", "send", "create", "sync"} /\ Call1(op, current) /\ op = "sync"
            BY <3>16 DEF Sync
          <5>2. current \in Ids \cup {Nil}
            BY <2>0, <4>1
          <5> HIDE DEF op
          <5> QED BY <3>6, <5>1, <5>2
        <4>3. \A n : Shown(n)' <=> Shown(n)
          BY <4>1 DEF Shown, LineOf
        <4>4. \A id \in DOMAIN sessions, n \in Questions : current = id /\ Shown(n) => Own(n, id)'
          BY <3>2, <3>4 DEF StayInv
        <4> QED BY <2>0, <3>7, <3>8, <3>13, <4>1, <4>2, <4>3, <4>4 DEF StayInv
      <3> QED BY <2>1, <3>10, <3>11, <3>12, <3>14, <3>15, <3>16 DEF UserActs
    <2>2. ASSUME NEW c \in calls, ServerActs(c)
          PROVE  StayInv'
      <3>1. PICK d \in Call : Serves(c, d)
        BY <2>2, ServerServes
      <3>2. /\ calls' = (calls \ {c}) \cup {d} /\ d.n = c.n /\ d.op = c.op
            /\ UNCHANGED <<current, sessions, chat, strayed, again>>
        BY <3>1 DEF Serves, userVars, pageVars
      <3>3. c \in Call /\ WellMade(c)
        BY DEF Typed
      <3>4. \A n \in Questions, id \in Ids : Own(n, id) => Own(n, id)'
        BY <3>1, OwnByServing
      <3>5. /\ \A id, n : Held(id, n)' <=> Held(id, n)
            /\ \A n : Shown(n)' <=> Shown(n)
        BY <3>2 DEF Held, Shown, LineOf
      <3>6. d.id = c.id \/ d.op = "create"
        BY <3>1, <3>3 DEF Serves, WellMade
      <3>7. ASSUME d.op \in {"history", "sync"}, NEW n \in Questions, TextOf(d.texts, n)
            PROVE  Own(n, d.id)'
        <4>1. c.id \in Ids /\ c.id \in DOMAIN history /\ d.id = c.id
          BY <2>0, <3>2, <3>3, <3>6, <3>7 DEF WellMade, Typed
        <4>2. Own(n, c.id)
          <5>1. CASE d.texts = c.texts
            BY <2>2, <3>2, <3>7, <5>1 DEF StayInv
          <5>2. CASE d.texts = history[c.id]
            <6>1. Kept(c.id, n)
              BY <3>7, <4>1, <5>2 DEF Kept
            <6> QED BY <4>1, <6>1, OwnHistory
          <5> QED BY <3>1, <5>1, <5>2 DEF Serves
        <4> QED BY <3>4, <4>1, <4>2
      <3>8. \A e \in calls : e.op \in {"history", "sync"} =>
                \A n \in Questions : TextOf(e.texts, n) => Own(n, e.id)'
        <4>1. \A e \in calls : e.op \in {"history", "sync"} => e.id \in Ids
          BY <2>0 DEF Typed, WellMade
        <4> QED BY <3>2, <3>4, <4>1 DEF StayInv
      <3>9. \A e \in calls' :
              /\ e.op \in {"history", "sync", "send"} => e.id = current'
              /\ e.op \in {"history", "sync"} => \A n \in Questions : TextOf(e.texts, n) => Own(n, e.id)'
              /\ e.op = "create" =>
                    /\ current' = Temp /\ chat' # <<>>
                    /\ \A n \in Questions : Shown(n)' => n = e.n
                    /\ \A f \in calls' : f.op = "create" => f = e
        BY <3>2, <3>5, <3>6, <3>7, <3>8 DEF StayInv
      <3>11. \A id \in Ids, n \in Questions : Held(id, n)' => Own(n, id)'
        BY <3>2, <3>4, <3>5 DEF StayInv
      <3>12. \A id \in DOMAIN sessions', n \in Questions : current' = id /\ Shown(n)' => Own(n, id)'
        BY <2>0, <3>2, <3>4, <3>5 DEF StayInv
      <3> QED BY <3>9, <3>11, <3>12 DEF StayInv
    <2>3. ASSUME NEW c \in calls, PageGoesOn(c)
          PROVE  StayInv'
      <3>1. /\ calls' = calls \ {c} /\ UNCHANGED <<history, actions, overlapped, failed>>
            /\ c \in Call /\ WellMade(c) /\ ~strayed /\ ~again
        BY <2>3 DEF PageGoesOn, Loaded, NotLoaded, Switched, NotSwitched, Created, NotCreated,
                    Sent, NotSent, Synced, Resume, userVars, Typed
      <3>2. \A n, id : Own(n, id) => Own(n, id)'
        BY <3>1, OwnByPage
      <3>3. \A e \in calls' : e.op \in {"history", "sync"} =>
                \A n \in Questions : TextOf(e.texts, n) => Own(n, e.id)'
        BY <3>1, <3>2 DEF StayInv
      <3>4. \A e \in calls' :
              /\ e.op \in {"history", "sync", "send"} => e.id = current
              /\ e.op = "create" =>
                    /\ current = Temp /\ chat # <<>>
                    /\ \A n \in Questions : Shown(n) => n = e.n
                    /\ \A f \in calls' : f.op = "create" => f = e
        BY <3>1 DEF StayInv
      <3>5. \A id \in Ids, n \in Questions : Held(id, n) => Own(n, id)'
        BY <3>1, <3>2 DEF StayInv
      <3>6. \A id \in DOMAIN sessions, n \in Questions : current = id /\ Shown(n) => Own(n, id)'
        BY <3>1, <3>2 DEF StayInv
      <3>7. /\ c.texts \in Seq(Texts) /\ Labelled(c.texts) \in Seq(Lines)
            /\ \A n : LineOf(Labelled(c.texts), n) <=> TextOf(c.texts, n)
        BY <3>1, LabelledTyped, LabelledLines DEF Call
      <3>8. Asks(c) => /\ c.n \in Questions /\ Error(c.n) \in Lines /\ Error(c.n).text.of = c.n
                       /\ c.phase = "done" => Told(c) \in Lines /\ Told(c).text.of = c.n
                       /\ Mine(Question(c.n)).text.of = c.n
        BY <3>1, LinesTyped, ToldTyped DEF Asks, WellMade, Questions
      <3>9. c.op \in {"history", "sync", "send"} => c.id = current /\ current \in DOMAIN sessions /\ c.id \in Ids
        BY <2>0, <3>1 DEF StayInv, WellMade
      <3>10. c.op \in {"history", "sync"} => \A n \in Questions : TextOf(c.texts, n) => Own(n, c.id)'
        BY <3>1, <3>2 DEF StayInv
      (* The numbers of a call that asks are its own conversation's. *)
      <3>11. c.op = "send" \/ (c.op = "create" /\ c.phase = "done") => Own(c.n, c.id)'
        <4>1. \A e \in calls : e.n = c.n => e = c
          BY DEF HomesInv
        <4>2. Asks(c) => \A j \in Ids : Kept(j, c.n) => j = c.id
          BY DEF HomesInv
        <4>3. Asks(c) => c.n \in 1..actions
          BY <3>1 DEF Asks, WellMade, Call
        <4>4. Asks(c) => Own(c.n, c.id)
          BY <4>1, <4>2, <4>3 DEF Own
        <4> QED BY <3>2, <4>4 DEF Asks
      <3>12. ASSUME NEW l \in Lines, l.text.of = c.n, Asks(c), chat' = Append(chat, l)
             PROVE  \A n : Shown(n)' => Shown(n) \/ n = c.n
        BY <2>0, <3>12, LinesOfAppend DEF Shown, LineOf
      <3>13. CASE Loaded(c)
        <4>1. /\ c.op = "load" /\ UNCHANGED <<current, chat>>
              /\ \A id, n : Held(id, n)' => Held(id, n)
          <5>1. \A id \in DOMAIN sessions' :
                  sessions'[id] = <<>> \/ (id \in DOMAIN sessions /\ sessions'[id] = sessions[id])
            BY <3>13 DEF Loaded
          <5>2. \A n : ~LineOf(<<>>, n)
            BY DEF LineOf
          <5> QED BY <3>13, <5>1, <5>2 DEF Loaded, Resume, Held, LineOf
        <4>2. DOMAIN sessions' \subseteq Ids
          BY <2>0, <3>1, <3>13 DEF Loaded, WellMade, Typed
        <4>3. \A n : Shown(n)' <=> Shown(n)
          BY <4>1 DEF Shown, LineOf
        <4>4. \A id \in DOMAIN sessions', n \in Questions : current' = id /\ Shown(n)' => Own(n, id)'
          BY <2>0, <3>6, <4>1, <4>2, <4>3
        <4> QED BY <3>3, <3>4, <3>5, <4>1, <4>3, <4>4 DEF StayInv
      <3>14. CASE NotLoaded(c)
        <4>1. /\ c.op \in {"load", "sync"} /\ UNCHANGED <<current, chat, sessions>>
              /\ \A id, n : Held(id, n)' <=> Held(id, n)
              /\ \A n : Shown(n)' <=> Shown(n)
          BY <3>14 DEF NotLoaded, Resume, Held, Shown, LineOf, pageVars
        <4> QED BY <3>3, <3>4, <3>5, <3>6, <4>1 DEF StayInv
      (* The rest is for the conversation that is chosen. *)
      <3>15. ASSUME NEW cur \in Ids, cur = current', DOMAIN sessions' \subseteq Ids,
                    \A e \in calls' :
                       /\ e.op \in {"history", "sync", "send"} => e.id = cur
                       /\ e.op # "create",
                    \A n \in Questions : Shown(n)' => Own(n, cur)',
                    \A id \in Ids, n \in Questions : Held(id, n)' => Own(n, id)'
             PROVE  StayInv'
        BY <2>0, <3>3, <3>15 DEF StayInv
      <3>16. c.op \in {"history", "sync", "send"} => \A e \in calls' : e.op # "create"
        BY <2>0, <3>4, <3>9
      <3>17. CASE Switched(c)
        <4>0. PICK cur \in Ids : cur = current /\ cur = c.id
          BY <3>9, <3>17 DEF Switched, Resume
        <4>1. /\ c.op = "history" /\ current' = cur /\ DOMAIN sessions' = DOMAIN sessions
              /\ chat' = chat \o Labelled(c.texts)
              /\ sessions' = [sessions EXCEPT ![cur] = Labelled(c.texts)]
          BY <3>17, <4>0 DEF Switched, Resume
        <4>2. \A n : Shown(n)' => Shown(n) \/ TextOf(c.texts, n)
          BY <2>0, <3>7, <4>1, LinesOfConcat DEF Shown, LineOf
        <4>3. \A n : Held(cur, n)' => TextOf(c.texts, n)
          BY <3>7, <4>1 DEF Held, LineOf
        <4>4. \A id \in Ids, n \in Questions : id # cur => (Held(id, n)' <=> Held(id, n))
          BY <4>1 DEF Held, LineOf
        <4>5. \A n \in Questions : Shown(n)' => Own(n, cur)'
          BY <3>6, <3>9, <3>10, <4>0, <4>1, <4>2
        <4>6. \A id \in Ids, n \in Questions : Held(id, n)' => Own(n, id)'
          BY <3>5, <3>10, <4>0, <4>1, <4>3, <4>4
        <4> QED BY <2>0, <3>4, <3>15, <3>16, <4>0, <4>1, <4>5, <4>6
      <3>18. CASE NotSwitched(c)
        <4>0. PICK cur \in Ids : cur = current /\ cur = c.id
          BY <3>9, <3>18 DEF NotSwitched, Resume
        <4>1. /\ c.op = "history" /\ current' = cur /\ sessions' = sessions
              /\ chat' = chat \o sessions[cur] /\ cur \in DOMAIN sessions
          BY <3>9, <3>18, <4>0 DEF NotSwitched, Resume
        <4>2. \A n : Shown(n)' => Shown(n) \/ Held(cur, n)
          BY <2>0, <4>1, LinesOfConcat DEF Shown, Held, LineOf
        <4>3. \A id, n : Held(id, n)' <=> Held(id, n)
          BY <4>1 DEF Held, LineOf
        <4>4. \A n \in Questions : Shown(n)' => Own(n, cur)'
          BY <3>5, <3>6, <4>0, <4>1, <4>2
        <4>5. \A id \in Ids, n \in Questions : Held(id, n)' => Own(n, id)'
          BY <3>5, <4>3
        <4> QED BY <2>0, <3>4, <3>15, <3>16, <4>0, <4>1, <4>4, <4>5
      <3>19. CASE Created(c)
        <4>1. /\ c.op = "create" /\ c.phase = "done" /\ c.id \in Ids /\ current' = c.id
              /\ DOMAIN sessions' = DOMAIN sessions \cup {c.id}
              /\ sessions'[c.id] = <<Mine(Question(c.n)), Told(c)>>
              /\ \A id \in DOMAIN sessions \ {c.id} : sessions'[id] = sessions[id]
              /\ chat' = Append(chat, Told(c))
          BY <3>1, <3>19 DEF Created, Resume, WellMade, Typed
        <4>2. /\ current = Temp /\ \A e \in calls : e.op = "create" => e = c
              /\ \A n \in Questions : Shown(n) => n = c.n
          BY <3>1, <4>1 DEF StayInv
        <4>3. \A e \in calls' : e.op \notin {"history", "sync", "send", "create"}
          <5>1. \A e \in calls : e.op \in {"history", "sync", "send"} => e.id \in DOMAIN sessions
            BY DEF Typed, WellMade
          <5> QED BY <2>0, <3>1, <3>4, <4>2, <5>1
        <4>5. \A n \in Questions : Shown(n)' => Own(n, c.id)'
          BY <3>8, <3>11, <3>12, <4>1, <4>2 DEF Asks
        <4>6. \A n : Held(c.id, n)' => n = c.n
          <5> DEFINE q == Mine(Question(c.n))
                     r == Told(c)
          <5>1. q.text.of = c.n /\ r.text.of = c.n
            BY <3>8, <4>1 DEF Asks
          <5>2. sessions'[c.id] = <<q, r>>
            BY <4>1
          <5> HIDE DEF q, r
          <5>3. \A i \in 1..Len(<<q, r>>) : <<q, r>>[i].text.of = c.n
            BY <5>1
          <5> QED BY <5>2, <5>3 DEF Held, LineOf
        <4>7. \A id \in Ids, n \in Questions : id # c.id => (Held(id, n)' => Held(id, n))
          BY <4>1 DEF Held, LineOf
        <4>8. \A id \in Ids, n \in Questions : Held(id, n)' => Own(n, id)'
          BY <3>5, <3>11, <4>1, <4>6, <4>7
        <4> QED BY <2>0, <3>15, <4>1, <4>3, <4>5, <4>8
      (* The user is still in the new chat, whose question stays shown. *)
      <3>20. CASE NotCreated(c)
        <4>1. /\ c.op = "create" /\ current' = current /\ sessions' = sessions
          BY <3>20 DEF NotCreated, Resume
        <4>2. current = Temp /\ \A e \in calls' : e.op # "create"
          BY <3>1, <4>1 DEF StayInv
        <4>3. \A id, n : Held(id, n)' <=> Held(id, n)
          BY <4>1 DEF Held, LineOf
        <4> QED BY <2>0, <3>3, <3>4, <3>5, <4>1, <4>2, <4>3 DEF StayInv
      <3>21. CASE Sent(c)
        <4>0. PICK cur \in Ids : cur = current /\ cur = c.id /\ cur \in DOMAIN sessions /\ Asks(c)
          BY <3>9, <3>21 DEF Sent, Resume, Asks
        <4>1. /\ c.op = "send" /\ c.phase = "done" /\ current' = cur /\ DOMAIN sessions' = DOMAIN sessions
              /\ chat' = Append(chat, Told(c))
              /\ sessions' = [sessions EXCEPT ![cur] = Append(sessions[cur], Told(c))]
          BY <3>21, <4>0 DEF Sent, Resume, Open, Push
        <4>2. \A n \in Questions : Shown(n)' => Own(n, cur)'
          BY <3>6, <3>8, <3>11, <3>12, <4>0, <4>1
        <4>3. \A n : Held(cur, n)' => Held(cur, n) \/ n = c.n
          <5>1. sessions'[cur] = Append(sessions[cur], Told(c)) /\ sessions[cur] \in Seq(Lines)
            BY <2>0, <4>0, <4>1
          <5>2. \A n : LineOf(Append(sessions[cur], Told(c)), n)
                         => LineOf(sessions[cur], n) \/ n = c.n
            BY <3>8, <4>0, <4>1, <5>1, LinesOfAppend
          <5> QED BY <4>0, <4>1, <5>1, <5>2 DEF Held, LineOf
        <4>4. \A id \in Ids, n \in Questions : id # cur => (Held(id, n)' <=> Held(id, n))
          BY <4>1 DEF Held, LineOf
        <4>5. \A id \in Ids, n \in Questions : Held(id, n)' => Own(n, id)'
          BY <3>5, <3>11, <4>0, <4>1, <4>3, <4>4
        <4> QED BY <2>0, <3>4, <3>15, <3>16, <4>0, <4>1, <4>2, <4>5
      <3>22. CASE NotSent(c)
        <4>0. PICK cur \in Ids : cur = current /\ cur = c.id /\ cur \in DOMAIN sessions /\ Asks(c)
          BY <3>9, <3>22 DEF NotSent, Resume, Asks
        <4>1. /\ c.op = "send" /\ current' = cur /\ sessions' = sessions
              /\ chat' = Append(chat, Error(c.n))
          BY <3>22, <4>0 DEF NotSent, Resume
        <4>2. \A n \in Questions : Shown(n)' => Own(n, cur)'
          BY <3>6, <3>8, <3>11, <3>12, <4>0, <4>1
        <4>3. \A id, n : Held(id, n)' <=> Held(id, n)
          BY <4>1 DEF Held, LineOf
        <4>4. \A id \in Ids, n \in Questions : Held(id, n)' => Own(n, id)'
          BY <3>5, <4>3
        <4> QED BY <2>0, <3>4, <3>15, <3>16, <4>0, <4>1, <4>2, <4>4
      <3>23. CASE Synced(c)
        <4>0. PICK cur \in Ids : cur = current /\ cur = c.id /\ cur \in DOMAIN sessions
          BY <3>9, <3>23 DEF Synced, Resume
        <4>1. /\ c.op = "sync" /\ current' = cur /\ DOMAIN sessions' = DOMAIN sessions
              /\ chat' = Labelled(c.texts)
              /\ sessions' = [sessions EXCEPT ![cur] = Labelled(c.texts)]
          BY <3>23, <4>0 DEF Synced, Resume, Open
        <4>2. \A n : Shown(n)' => TextOf(c.texts, n)
          BY <3>7, <4>1 DEF Shown, LineOf
        <4>3. \A n : Held(cur, n)' => TextOf(c.texts, n)
          BY <3>7, <4>1 DEF Held, LineOf
        <4>4. \A id \in Ids, n \in Questions : id # cur => (Held(id, n)' <=> Held(id, n))
          BY <4>1 DEF Held, LineOf
        <4>5. \A n \in Questions : Shown(n)' => Own(n, cur)'
          BY <3>10, <4>0, <4>1, <4>2
        <4>6. \A id \in Ids, n \in Questions : Held(id, n)' => Own(n, id)'
          BY <3>5, <3>10, <4>0, <4>1, <4>3, <4>4
        <4> QED BY <2>0, <3>4, <3>15, <3>16, <4>0, <4>1, <4>5, <4>6
      <3> QED BY <2>3, <3>13, <3>14, <3>17, <3>18, <3>19, <3>20, <3>21, <3>22, <3>23 DEF PageGoesOn
    <2>4. CASE UNCHANGED vars
      BY <2>4 DEF vars, pageVars, userVars, StayInv, Own, Kept, Held, Shown, LineOf, TextOf
    <2> QED BY <2>1, <2>2, <2>3, <2>4, StepsOfThePage
  <1> QED BY <1>1, <1>2, TypesKept, HomesAreKept, PTL DEF Spec

(* ShownBelongs: however submissions, synchronisations and their answers   *)
(* overlap or fail, no text of another conversation is shown in the one    *)
(* that is open, unless the user has left a conversation that still waited *)
(* or has asked again in a new chat whose first question had not become a  *)
(* conversation.                                                           *)
THEOREM ShownIsItsOwn == Spec => []ShownBelongs
  <1>1. Typed /\ StayInv => ShownBelongs
    <2> SUFFICES ASSUME Typed, StayInv, ~strayed, ~again, Open,
                        NEW line \in Range(chat), NEW id \in DOMAIN history \ {current},
                        line.text \in Range(history[id])
                 PROVE  FALSE
      BY DEF ShownBelongs, NothingForeign, Elsewhere
    <2>1. PICK i \in 1..Len(chat) : chat[i] = line
      BY SMTT(30) DEF Range, Typed
    <2>2. id \in Ids /\ history[id] \in Seq(Texts) /\ chat \in Seq(Lines)
      BY DEF Typed
    <2>3. PICK j \in 1..Len(history[id]) : history[id][j] = line.text
      BY <2>2 DEF Range
    <2> DEFINE n == line.text.of
    <2>4. n \in Questions
      <3>1. line \in Lines
        BY <2>1, <2>2
      <3>2. line.text \in Texts
        BY <3>1 DEF Lines
      <3> QED BY <3>2 DEF Texts
    <2>5. Shown(n)
      BY <2>1 DEF Shown, LineOf
    <2>6. Kept(id, n)
      BY <2>3 DEF Kept, TextOf
    <2>7. PICK cur \in DOMAIN sessions : cur = current
      BY DEF Open
    <2>8. Own(n, cur)
      BY <2>4, <2>5, <2>7 DEF StayInv
    <2> QED BY <2>2, <2>6, <2>7, <2>8 DEF Own
  <1> QED BY <1>1, TypesKept, PagesBelong, PTL
(***************************************************************************)
(* A synchronisation that is left alone                                    *)
(***************************************************************************)
(* The last thing the user did was a synchronisation, when no call was     *)
(* under way: there is none else since, the page is where it was, and the  *)
(* texts that were sent are still the server's.                            *)
HealInv ==
    \A c \in calls :
        c.op = "sync" /\ c.alone /\ c.n = actions =>
            /\ \A d \in calls : d = c
            /\ c.id = current
            /\ c.phase = "done" => c.texts = history[c.id]

(***************************************************************************)
(* The patient user                                                        *)
(***************************************************************************)
(* What the call that is under way says of the page and of the server.     *)
CallAgrees(c) ==
    /\ c.phase # "failed"
    /\ c.op = "load" => DOMAIN sessions = {} /\ current = Nil
    /\ c.op \in {"history", "sync", "send"} => c.id = current
    /\ c.op = "history" => chat = <<>>
    /\ c.op \in {"history", "sync"} /\ c.phase = "done" => c.texts = history[c.id]
    /\ c.op = "send" /\ c.phase = "sent" => ReadsAs(chat, Append(history[c.id], Question(c.n)))
    /\ c.op = "create" =>
          current = Temp /\ c.id \notin DOMAIN sessions /\ chat = <<Mine(Question(c.n))>>
    /\ c.phase = "asked" => ReadsAs(chat, history[c.id])
    /\ Asks(c) /\ c.phase = "done" => ReadsAs(Append(chat, Told(c)), history[c.id])
    /\ c.phase = "asked" => Len(history[c.id]) % 2 = 1

(* One call at most is under way; what it is not about agrees.             *)
PatientInv ==
    ~overlapped /\ ~failed =>
        /\ \A c, d \in calls : c = d
        /\ \A c \in calls : CallAgrees(c)
        /\ \A id \in DOMAIN history :
              Len(history[id]) % 2 = 0 \/ \E c \in calls : c.phase = "asked" /\ c.id = id
        /\ \A id \in DOMAIN sessions :
              \/ sessions[id] = <<>> \/ ReadsAs(sessions[id], history[id])
              \/ \E c \in calls : c.op = "send" /\ c.id = id
        /\ \A id \in DOMAIN sessions : current = id =>
              /\ chat = sessions[id]
              /\ ReadsAs(chat, history[id]) \/ \E c \in calls : c.op \in {"history", "send"}
        /\ current = Temp => chat = <<>> \/ \E c \in calls : c.op = "create"

(* Labelled texts read as the texts. *)
LEMMA LabelledReads ==
    ASSUME NEW texts \in Seq(Texts)
    PROVE  ReadsAs(Labelled(texts), texts)
  BY LabelledTyped DEF ReadsAs

(* Append() adds one element at the end. *)
LEMMA AppendElements ==
    ASSUME NEW S, NEW s \in Seq(S), NEW x \in S
    PROVE  /\ \A i \in 1..Len(s) : Append(s, x)[i] = s[i]
           /\ Append(s, x)[Len(s) + 1] = x
  OBVIOUS

(* After pairs of texts the next one is shown as the user's, after a       *)
(* question as the model's, and an empty one perhaps as an error note.     *)
LEMMA ReadsAppend ==
    ASSUME NEW lines \in Seq(Lines), NEW texts \in Seq(Texts), ReadsAs(lines, texts),
           NEW x \in Lines, NEW t \in Texts,
           \/ Len(texts) % 2 = 0 /\ x = Mine(t)
           \/ Len(texts) % 2 = 1 /\ (x = Theirs(t) \/ (t.what = "empty" /\ x = Error(t.of)))
    PROVE  ReadsAs(Append(lines, x), Append(texts, t))
  <1> DEFINE u == Append(texts, t)
             v == Append(lines, x)
  <1>1. PICK n \in Nat : n = Len(texts) /\ n = Len(lines)
    BY DEF ReadsAs
  <1>2. /\ u \in Seq(Texts) /\ Len(u) = n + 1 /\ u[n + 1] = t
        /\ \A i \in 1..n : u[i] = texts[i]
    <2>1. /\ \A i \in 1..Len(texts) : u[i] = texts[i]
          /\ u[Len(texts) + 1] = t
      BY AppendElements
    <2>2. u \in Seq(Texts) /\ Len(u) = Len(texts) + 1
      OBVIOUS
    <2> QED BY <1>1, <2>1, <2>2
  <1>3. /\ Len(v) = n + 1 /\ v[n + 1] = x
        /\ \A i \in 1..n : v[i] = lines[i]
    <2>1. /\ \A i \in 1..Len(lines) : v[i] = lines[i]
          /\ v[Len(lines) + 1] = x
      BY AppendElements
    <2>2. Len(v) = Len(lines) + 1
      OBVIOUS
    <2> QED BY <1>1, <2>1, <2>2
  <1> HIDE DEF u, v
  <1>4. \A i \in 1..n : Labelled(u)[i] = Labelled(texts)[i]
    BY <1>1, <1>2 DEF Labelled
  <1>5. Labelled(u)[n + 1] = IF (n + 1) % 2 = 1 THEN Mine(t) ELSE Theirs(t)
    BY <1>2 DEF Labelled
  <1>6. /\ n % 2 = 0 => (n + 1) % 2 = 1
        /\ n % 2 = 1 => (n + 1) % 2 = 0
    OBVIOUS
  <1>7. /\ n % 2 = 0 => Labelled(u)[n + 1] = Mine(t)
        /\ n % 2 = 1 => Labelled(u)[n + 1] = Theirs(t)
    BY <1>5, <1>6
  <1>8. Theirs(t).role = "assistant"
    BY DEF Theirs
  <1>9. \/ v[n + 1] = Labelled(u)[n + 1]
        \/ /\ u[n + 1].what = "empty" /\ v[n + 1] = Error(u[n + 1].of)
           /\ Labelled(u)[n + 1].role = "assistant"
    BY <1>1, <1>2, <1>3, <1>7, <1>8
  <1>10. ASSUME NEW i \in 1..n
         PROVE  \/ v[i] = Labelled(u)[i]
                \/ /\ u[i].what = "empty" /\ v[i] = Error(u[i].of)
                   /\ Labelled(u)[i].role = "assistant"
    BY <1>1, <1>2, <1>3, <1>4 DEF ReadsAs
  <1>11. \A i \in 1..(n + 1) : i \in 1..n \/ i = n + 1
    BY <1>1
  <1>12. ReadsAs(v, u)
    BY <1>2, <1>3, <1>9, <1>10, <1>11 DEF ReadsAs
  <1> QED BY <1>12 DEF u, v

(* One text more makes an even length odd and an odd one even. *)
LEMMA LengthOfAppend ==
    ASSUME NEW s \in Seq(Texts), NEW t \in Texts
    PROVE  /\ Len(s) % 2 = 0 => Len(Append(s, t)) % 2 = 1
           /\ Len(s) % 2 = 1 => Len(Append(s, t)) % 2 = 0
  <1>1. PICK n \in Nat : n = Len(s) /\ Len(Append(s, t)) = n + 1
    OBVIOUS
  <1>2. /\ n % 2 = 0 => (n + 1) % 2 = 1
        /\ n % 2 = 1 => (n + 1) % 2 = 0
    OBVIOUS
  <1> QED BY <1>1, <1>2

(* The sequence of two elements. *)
LEMMA AppendToOne ==
    ASSUME NEW q, NEW r
    PROVE  Append(<<q>>, r) = <<q, r>>
  <1> DEFINE S == {q, r}
             u == <<q>>
             v == Append(u, r)
  <1>1. u \in Seq(S) /\ Len(u) = 1 /\ u[1] = q /\ r \in S
    OBVIOUS
  <1>3. <<q, r>> \in Seq(S) /\ Len(<<q, r>>) = 2 /\ <<q, r>>[1] = q /\ <<q, r>>[2] = r
    OBVIOUS
  <1> HIDE DEF u, S
  <1>2. v \in Seq(S) /\ Len(v) = Len(u) + 1
    BY <1>1
  <1>5. (\A i \in 1..Len(u) : v[i] = u[i]) /\ v[Len(u) + 1] = r
    BY <1>1, AppendElements
  <1>6. Len(v) = 2 /\ v[1] = q /\ v[2] = r
    BY <1>1, <1>2, <1>5
  <1> HIDE DEF v
  <1>4. v = <<q, r>>
    <2> DEFINE w == <<q, r>>
    <2>1. w \in Seq(S) /\ Len(w) = 2 /\ w[1] = q /\ w[2] = r
      BY <1>3
    <2> HIDE DEF w
    <2>2. \A i \in 1..2 : v[i] = w[i]
      BY <1>6, <2>1
    <2>3. v = w
      BY <1>2, <1>6, <2>1, <2>2
    <2> QED BY <2>3 DEF w
  <1> QED BY <1>4 DEF u, v

(* A first question is shown as the user's. *)
LEMMA ReadsOne ==
    ASSUME NEW q \in Texts
    PROVE  ReadsAs(<<Mine(q)>>, <<q>>)
  <1> DEFINE one == <<q>>
  <1>1. one \in Seq(Texts) /\ Len(one) = 1 /\ one[1] = q
    OBVIOUS
  <1>2. 1 % 2 = 1
    OBVIOUS
  <1> HIDE DEF one
  <1>3. Labelled(one) \in Seq(Lines) /\ Len(Labelled(one)) = 1 /\ Labelled(one)[1] = Mine(q)
    BY <1>1, <1>2, LabelledTyped DEF Labelled
  <1>4. Labelled(one) = <<Mine(q)>>
    BY <1>3
  <1> QED BY <1>1, <1>4, LabelledReads DEF one

(* A synchronisation with nothing else under way brings what the server    *)
(* still has to the conversation that is still chosen.                     *)
LEMMA LoneSyncsHeal == Spec => []HealInv
  <1>1. Init => HealInv
    BY DEF Init, HealInv
  <1>2. Typed /\ HealInv /\ [Next]_vars => HealInv'
    <2> SUFFICES ASSUME Typed, HealInv, [Next]_vars, NEW s \in calls', s.op = "sync", s.alone, s.n = actions'
                 PROVE  /\ \A d \in calls' : d = s
                        /\ s.id = current'
                        /\ s.phase = "done" => s.texts = history'[s.id]
      BY DEF HealInv
    <2>1. CASE UserActs
      <3>1. UserCalls(actions + 1) /\ \A c \in calls : c.n <= actions /\ actions \in Nat
        BY <2>1, UserCallsOnce DEF Typed, WellMade
      <3>2. s \notin calls
        BY <3>1 DEF UserCalls
      <3>3. Act
        BY <2>1 DEF UserActs, SwitchSession, NewChat, SubmitNew, Submit, SubmitNowhere, Sync
      <3>4. ASSUME NEW op \in {"history", "send", "create", "sync"}, NEW id \in Ids \cup {Nil},
                   Call1(op, id)
            PROVE  s.op = op /\ s.id = id /\ s.phase = "sent" /\ calls' = {s}
        <4>1. Call1(op, id)
          BY <3>4
        <4>2. PICK e \in Call :
              /\ calls' = calls \cup {e}
              /\ e.n = actions + 1 /\ e.op = op /\ e.id = id /\ e.phase = "sent"
              /\ e.ids = {} /\ e.texts = <<>> /\ (e.alone <=> calls = {})
          BY <3>3, <4>1, NewCall
        <4> QED BY <3>2, <4>2
      <3>5. CASE Sync
        <4>1. current' = current /\ current \in Ids
          BY <3>5 DEF Sync, pageVars, Typed
        <4> DEFINE op == "sync"
        <4>2. op \in {"history", "send", "create", "sync"} /\ Call1(op, current)
          BY <3>5 DEF Sync
        <4> HIDE DEF op
        <4>3. s.id = current /\ s.phase = "sent" /\ calls' = {s}
          BY <3>4, <4>1, <4>2
        <4> QED BY <4>1, <4>3
      <3>6. CASE ~Sync
        <4>1. \/ UNCHANGED calls
              \/ \E op \in {"history", "send", "create"}, id \in Ids \cup {Nil} : Call1(op, id)
          BY <2>1, <3>6 DEF UserActs, SwitchSession, NewChat, SubmitNew, Submit, SubmitNowhere, Open, Typed
        <4> QED BY <3>2, <3>4, <4>1
      <3> QED BY <3>5, <3>6
    <2>2. ASSUME NEW c \in calls, ServerActs(c)
          PROVE  /\ \A d \in calls' : d = s
                 /\ s.id = current'
                 /\ s.phase = "done" => s.texts = history'[s.id]
      <3>1. PICK d \in Call : Serves(c, d)
        BY <2>2, ServerServes
      <3>2. /\ calls' = (calls \ {c}) \cup {d} /\ d.n = c.n /\ d.op = c.op /\ d.alone = c.alone
            /\ UNCHANGED <<current, actions>>
        BY <3>1 DEF Serves, userVars, pageVars
      <3>3. s = d
        BY <3>2 DEF HealInv
      <3>4. c.id = current /\ \A e \in calls : e = c
        BY <3>2, <3>3 DEF HealInv
      <3>5. c \in Call /\ WellMade(c)
        BY DEF Typed
      <3>6. d.id = c.id /\ (d.phase = "done" => d.texts = history'[d.id])
        BY <3>1, <3>2, <3>3, <3>5 DEF Serves, WellMade
      <3> QED BY <3>2, <3>3, <3>4, <3>6
    <2>3. ASSUME NEW c \in calls, PageGoesOn(c)
          PROVE  FALSE
      <3>1. calls' = calls \ {c} /\ actions' = actions
        BY <2>3 DEF PageGoesOn, Loaded, NotLoaded, Switched, NotSwitched, Created, NotCreated,
                    Sent, NotSent, Synced, Resume, userVars
      <3> QED BY <3>1 DEF HealInv
    <2>4. CASE UNCHANGED vars
      BY <2>4 DEF vars, pageVars, userVars, HealInv
    <2> QED BY <2>1, <2>2, <2>3, <2>4, StepsOfThePage
  <1> QED BY <1>1, <1>2, TypesKept, PTL DEF Spec

(* SyncHeals: whatever the page shows by then, a synchronisation that runs *)
(* alone, no call being under way when it begins and the user doing        *)
(* nothing until it is over, makes it agree with the server exactly.       *)
THEOREM SyncsHeal == Spec => SyncHeals
  <1>1. Typed /\ HealInv /\ [Next]_vars =>
            [\A c \in calls \ calls' :
                (c.op = "sync" /\ c.phase = "done" /\ c.alone /\ c.n = actions)
                    => chat' = Labelled(history[current]) /\ sessions'[current] = chat']_vars
    <2> SUFFICES ASSUME Typed, HealInv, [Next]_vars, NEW c \in calls \ calls',
                        c.op = "sync", c.phase = "done", c.alone, c.n = actions
                 PROVE  chat' = Labelled(history[current]) /\ sessions'[current] = chat'
      OBVIOUS
    <2>1. CASE UserActs
      <3>1. UserCalls(actions + 1)
        BY <2>1, UserCallsOnce
      <3> QED BY <3>1 DEF UserCalls
    <2>2. ASSUME NEW e \in calls, ServerActs(e)
          PROVE  FALSE
      <3>1. PICK d \in Call : Serves(e, d)
        BY <2>2, ServerServes
      <3>2. e = c
        BY <3>1 DEF Serves
      <3> QED BY <3>1, <3>2 DEF Serves
    <2>3. ASSUME NEW e \in calls, PageGoesOn(e)
          PROVE  chat' = Labelled(history[current]) /\ sessions'[current] = chat'
      <3>1. e = c
        BY <2>3 DEF PageGoesOn, Loaded, NotLoaded, Switched, NotSwitched, Created, NotCreated,
                    Sent, NotSent, Synced, Resume
      <3>2. Synced(c)
        BY <2>3, <3>1 DEF PageGoesOn, Loaded, NotLoaded, Switched, NotSwitched, Created, NotCreated,
                    Sent, NotSent, Resume
      <3>3. c.id = current /\ c.texts = history[c.id] /\ current \in DOMAIN sessions
        BY DEF HealInv, Typed, WellMade
      <3> QED BY <3>2, <3>3 DEF Synced, Open, Typed
    <2>4. CASE UNCHANGED vars
      BY <2>4 DEF vars
    <2> QED BY <2>1, <2>2, <2>3, <2>4, StepsOfThePage
  <1> QED BY <1>1, TypesKept, LoneSyncsHeal, PTL DEF Spec, SyncHeals

(* An action of a user who has waited keeps page and server in agreement. *)
LEMMA PatientUser ==
    ASSUME Typed, PatientInv, UserActs
    PROVE  PatientInv'
  <1> SUFFICES ASSUME ~overlapped', ~failed'
               PROVE  PatientInv'
    BY DEF PatientInv
  <1>1. Act
    BY DEF UserActs, SwitchSession, NewChat, SubmitNew, Submit, SubmitNowhere, Sync
  <1>2. ~overlapped /\ ~failed /\ calls = {} /\ history' = history
    BY <1>1 DEF Act
  <1>3. /\ Nil \notin Ids /\ Temp \notin Ids /\ Nil # Temp /\ actions \in Nat
        /\ DOMAIN sessions \subseteq Ids /\ DOMAIN sessions \subseteq DOMAIN history
        /\ chat \in Seq(Lines) /\ current \in DOMAIN sessions \cup {Nil, Temp}
        /\ \A id \in DOMAIN sessions : sessions[id] \in Seq(Lines)
    BY ConstantsAssumption DEF Typed
  <1>4. PICK a \in 1..MaxActions : a = actions + 1 /\ a \in Questions
    BY <1>1, <1>3, ConstantsAssumption DEF Act, Typed, Questions
  <1> DEFINE line == Mine(Question(a))
  <1>5. line \in Lines
    BY <1>4, LinesTyped
  <1>6. ASSUME NEW op \in {"history", "send", "create", "sync"}, NEW id \in Ids \cup {Nil},
               Call1(op, id)
        PROVE  \E e \in Call : calls' = {e} /\ e.n = a /\ e.op = op /\ e.id = id /\ e.phase = "sent"
    <2>1. Call1(op, id)
      BY <1>6
    <2>2. PICK e \in Call :
              /\ calls' = calls \cup {e}
              /\ e.n = actions + 1 /\ e.op = op /\ e.id = id /\ e.phase = "sent"
              /\ e.ids = {} /\ e.texts = <<>> /\ (e.alone <=> calls = {})
      BY <1>1, <2>1, NewCall
    <2> QED BY <1>2, <1>4, <2>2
  <1>7. \A id \in DOMAIN history' : Len(history'[id]) % 2 = 0
    BY <1>2 DEF PatientInv
  <1>8. \A id \in DOMAIN sessions : sessions[id] = <<>> \/ ReadsAs(sessions[id], history'[id])
    BY <1>2 DEF PatientInv
  <1>9. /\ \A id \in DOMAIN sessions : current = id => chat = sessions[id] /\ ReadsAs(chat, history'[id])
        /\ current = Temp => chat = <<>>
    BY <1>2 DEF PatientInv
  <1> HIDE DEF line
  <1>10. CASE \E id \in Ids : SwitchSession(id)
    <2> PICK id \in Ids : SwitchSession(id)
      BY <1>10
    <2>1. id \in DOMAIN sessions /\ current' = id /\ sessions' = sessions /\ chat' = sessions[id]
      BY DEF SwitchSession
    <2>2. CASE sessions[id] = <<>>
      <3> DEFINE op == "history"
      <3>1. op \in {"history", "send", "create", "sync"} /\ Call1(op, id) /\ op = "history"
        BY <2>2 DEF SwitchSession
      <3> HIDE DEF op
      <3>2. PICK e \in Call : calls' = {e} /\ e.op = "history" /\ e.id = id /\ e.phase = "sent"
        BY <1>6, <3>1
      <3>3. CallAgrees(e)'
        BY <2>1, <2>2, <3>2 DEF CallAgrees, Asks
      <3> QED BY <1>3, <1>7, <1>8, <2>1, <3>2, <3>3 DEF PatientInv
    <2>3. CASE sessions[id] # <<>>
      <3>1. calls' = {} /\ ReadsAs(chat', history'[id])
        BY <1>2, <1>8, <2>1, <2>3 DEF SwitchSession
      <3> QED BY <1>3, <1>7, <1>8, <2>1, <3>1 DEF PatientInv
    <2> QED BY <2>2, <2>3
  <1>11. CASE NewChat
    <2>1. current' = Temp /\ chat' = <<>> /\ sessions' = sessions /\ calls' = {}
      BY <1>2, <1>11 DEF NewChat
    <2> QED BY <1>3, <1>7, <1>8, <2>1 DEF PatientInv
  <1>12. CASE SubmitNew
    <2>1. current = Temp /\ current' = Temp /\ sessions' = sessions /\ chat' = Append(chat, line)
      BY <1>4, <1>12 DEF SubmitNew, Show, Typed, line
    <2>2. chat' = <<line>>
      BY <1>9, <2>1
    <2> DEFINE op == "create"
    <2>3. op \in {"history", "send", "create", "sync"} /\ Call1(op, Nil) /\ op = "create"
      BY <1>12 DEF SubmitNew
    <2> HIDE DEF op
    <2>4. PICK e \in Call : calls' = {e} /\ e.n = a /\ e.op = "create" /\ e.id = Nil /\ e.phase = "sent"
      BY <1>6, <2>3
    <2>5. CallAgrees(e)'
      BY <1>3, <2>1, <2>2, <2>4 DEF CallAgrees, Asks, line
    <2> QED BY <1>3, <1>7, <1>8, <2>1, <2>4, <2>5 DEF PatientInv
  <1>13. CASE Submit
    <2>1. /\ current \in DOMAIN sessions /\ current' = current
          /\ chat' = Append(chat, line)
          /\ sessions' = [sessions EXCEPT ![current] = Append(sessions[current], line)]
      BY <1>4, <1>13 DEF Submit, Show, Push, Open, line
    <2>2. PICK cur \in Ids : cur = current
      BY <1>3, <2>1
    <2> DEFINE op == "send"
    <2>3. op \in {"history", "send", "create", "sync"} /\ Call1(op, cur) /\ op = "send"
      BY <1>13, <2>2 DEF Submit
    <2> HIDE DEF op
    <2>4. PICK e \in Call : calls' = {e} /\ e.n = a /\ e.op = "send" /\ e.id = cur /\ e.phase = "sent"
      BY <1>6, <2>3
    <2>5. chat = sessions[cur] /\ ReadsAs(chat, history'[cur])
      BY <1>9, <2>1, <2>2
    <2>8. ReadsAs(chat', Append(history'[cur], Question(a)))
      <3>1. history'[cur] \in Seq(Texts) /\ Len(history'[cur]) % 2 = 0
        BY <1>2, <1>3, <1>7, <2>1, <2>2 DEF Typed
      <3>2. Question(a) \in Texts /\ line = Mine(Question(a))
        BY <1>4, LinesTyped DEF line
      <3> QED BY <1>3, <1>5, <2>1, <2>5, <3>1, <3>2, ReadsAppend
    <2>6. CallAgrees(e)'
      BY <2>1, <2>2, <2>4, <2>8 DEF CallAgrees, Asks
    <2>7. /\ DOMAIN sessions' = DOMAIN sessions /\ sessions'[cur] = chat'
          /\ \A id \in DOMAIN sessions : id # cur => sessions'[id] = sessions[id]
      BY <2>1, <2>2, <2>5
    <2> QED BY <1>3, <1>7, <1>8, <2>1, <2>2, <2>4, <2>6, <2>7 DEF PatientInv
  <1>14. CASE SubmitNowhere
    <2>1. current = Nil /\ current' = Nil /\ sessions' = sessions /\ calls' = {}
      BY <1>2, <1>3, <1>14 DEF SubmitNowhere, Open, Typed
    <2> QED BY <1>3, <1>7, <1>8, <2>1 DEF PatientInv
  <1>15. CASE Sync
    <2>1. current \in DOMAIN sessions /\ UNCHANGED <<current, sessions, chat>>
      BY <1>15 DEF Sync, Typed, pageVars
    <2>2. PICK cur \in Ids : cur = current
      BY <1>3, <2>1
    <2> DEFINE op == "sync"
    <2>3. op \in {"history", "send", "create", "sync"} /\ Call1(op, cur) /\ op = "sync"
      BY <1>15, <2>2 DEF Sync
    <2> HIDE DEF op
    <2>4. PICK e \in Call : calls' = {e} /\ e.op = "sync" /\ e.id = cur /\ e.phase = "sent"
      BY <1>6, <2>3
    <2>5. CallAgrees(e)'
      BY <2>1, <2>2, <2>4 DEF CallAgrees, Asks
    <2> QED BY <1>3, <1>7, <1>8, <1>9, <2>1, <2>2, <2>4, <2>5 DEF PatientInv
  <1> QED BY <1>10, <1>11, <1>12, <1>13, <1>14, <1>15 DEF UserActs

(* What the server does with the one call keeps them in agreement. *)
LEMMA PatientServer ==
    ASSUME Typed, PatientInv, NEW c \in calls, ServerActs(c)
    PROVE  PatientInv'
  <1> SUFFICES ASSUME ~overlapped', ~failed'
               PROVE  PatientInv'
    BY DEF PatientInv
  <1>1. PICK d \in Call : Serves(c, d)
    BY ServerServes
  <1>2. /\ ~overlapped /\ ~failed /\ failed' = failed
        /\ UNCHANGED <<current, sessions, chat, actions>>
        /\ d.n = c.n /\ d.op = c.op
    BY <1>1 DEF Serves, userVars, pageVars, Typed
  <1>3. calls = {c} /\ calls' = {d} /\ CallAgrees(c)
    BY <1>1, <1>2 DEF PatientInv, Serves
  <1>4. /\ c \in Call /\ WellMade(c) /\ Temp \notin Ids
        /\ DOMAIN sessions \subseteq DOMAIN history /\ DOMAIN history \subseteq Ids
        /\ history \in [DOMAIN history -> Seq(Texts)]
    BY ConstantsAssumption DEF Typed
  <1>5. /\ \A id \in DOMAIN history : Len(history[id]) % 2 = 0 \/ (c.phase = "asked" /\ c.id = id)
        /\ \A id \in DOMAIN sessions :
              sessions[id] = <<>> \/ ReadsAs(sessions[id], history[id]) \/ (c.op = "send" /\ c.id = id)
        /\ \A id \in DOMAIN sessions : current = id =>
              /\ chat = sessions[id]
              /\ ReadsAs(chat, history[id]) \/ c.op \in {"history", "send"}
        /\ current = Temp => chat = <<>> \/ c.op = "create"
    BY <1>2, <1>3 DEF PatientInv
  <1>6. Asks(c) => /\ Question(c.n) \in Texts
                   /\ \A kept \in {"answer", "empty"} :
                         Text(kept, c.n) \in Texts /\ Text(kept, c.n).of = c.n
    BY <1>4, LinesTyped, KeptTyped DEF Asks, WellMade, Questions
  <1>7. CASE UNCHANGED history
    <2>1. c.phase = "sent" /\ d.phase = "done" /\ d.id = c.id /\ c.op \in {"load", "history", "sync"}
          /\ (c.op \in {"history", "sync"} => d.texts = history[c.id])
      <3>1. c.phase = "sent" /\ c.op \in {"load", "history", "sync"} => c.phase = "sent" /\ ~Asks(c)
        BY DEF Asks
      <3>2. ASSUME c.op = "send" /\ c.phase = "sent",
                   history' = [history EXCEPT ![c.id] = Append(history[c.id], Question(c.n))]
            PROVE  FALSE
        <4>1. c.id \in DOMAIN history
          BY <1>4, <3>2 DEF WellMade
        <4>2. history[c.id] = Append(history[c.id], Question(c.n)) /\ history[c.id] \in Seq(Texts)
          BY <1>4, <1>7, <3>2, <4>1
        <4> DEFINE s == history[c.id]
                   x == Question(c.n)
        <4>3. x \in Texts /\ s \in Seq(Texts) /\ s = Append(s, x)
          BY <1>6, <3>2, <4>2 DEF Asks
        <4> HIDE DEF s, x
        <4>4. Len(s) = Len(s) + 1 /\ Len(s) \in Nat
          BY <4>3
        <4> QED BY <4>4
      <3>3. ASSUME c.phase = "asked", NEW kept \in {"answer", "empty"},
                   history' = [history EXCEPT ![c.id] = Append(history[c.id], Text(kept, c.n))]
            PROVE  FALSE
        <4>1. c.id \in DOMAIN history /\ Asks(c)
          BY <1>4, <3>3 DEF WellMade, Asks
        <4>2. history[c.id] = Append(history[c.id], Text(kept, c.n)) /\ history[c.id] \in Seq(Texts)
          BY <1>4, <1>7, <3>3, <4>1
        <4> DEFINE s == history[c.id]
                   x == Text(kept, c.n)
        <4>3. x \in Texts /\ s \in Seq(Texts) /\ s = Append(s, x)
          BY <1>6, <4>1, <4>2
        <4> HIDE DEF s, x
        <4>4. Len(s) = Len(s) + 1 /\ Len(s) \in Nat
          BY <4>3
        <4> QED BY <4>4
      <3>4. ASSUME d.id \in Ids \ DOMAIN history, DOMAIN history' = DOMAIN history \cup {d.id}
            PROVE  FALSE
        BY <1>7, <3>4
      <3>5. \/ c.op = "load" /\ c.phase = "sent" /\ d.phase = "done" /\ d.id = c.id
            \/ c.op \in {"history", "sync"} /\ c.phase = "sent" /\ d.phase = "done" /\ d.id = c.id
               /\ d.texts = history[c.id]
        BY <1>1, <1>2, <3>2, <3>3, <3>4 DEF Serves
      <3> QED BY <3>5
    <2>2. CallAgrees(d)'
      BY <1>2, <1>3, <1>7, <2>1 DEF CallAgrees, Asks
    <2> QED BY <1>2, <1>3, <1>5, <1>7, <2>1, <2>2 DEF PatientInv
  <1>8. CASE /\ c.op = "send" /\ c.phase = "sent" /\ d.phase = "asked" /\ d.id = c.id
             /\ history' = [history EXCEPT ![c.id] = Append(history[c.id], Question(c.n))]
    <2>1. c.id \in DOMAIN history /\ history[c.id] \in Seq(Texts) /\ Question(c.n) \in Texts
      BY <1>4, <1>6, <1>8 DEF WellMade, Asks
    <2>2. /\ history'[c.id] = Append(history[c.id], Question(c.n))
          /\ DOMAIN history' = DOMAIN history
          /\ \A id \in DOMAIN history : id # c.id => history'[id] = history[id]
      BY <1>8, <2>1
    <2>3. Len(history[c.id]) % 2 = 0
      BY <1>5, <1>8, <2>1
    <2>4. ReadsAs(chat', history'[c.id]) /\ Len(history'[c.id]) % 2 = 1
      <3>1. ReadsAs(chat, Append(history[c.id], Question(c.n)))
        BY <1>3, <1>8 DEF CallAgrees
      <3> QED BY <1>2, <2>1, <2>2, <2>3, <3>1, LengthOfAppend
    <2>5. CallAgrees(d)'
      BY <1>2, <1>3, <1>8, <2>4 DEF CallAgrees, Asks
    <2> QED BY <1>2, <1>3, <1>4, <1>5, <1>8, <2>2, <2>5 DEF PatientInv
  <1>9. CASE /\ c.op = "create" /\ c.phase = "sent" /\ d.phase = "asked" /\ d.id \in Ids \ DOMAIN history
             /\ history' = [i \in DOMAIN history \cup {d.id} |->
                              IF i = d.id THEN <<Question(c.n)>> ELSE history[i]]
    <2>1. /\ history'[d.id] = <<Question(c.n)>>
          /\ DOMAIN history' = DOMAIN history \cup {d.id}
          /\ \A id \in DOMAIN history : history'[id] = history[id]
          /\ d.id \notin DOMAIN sessions
      BY <1>4, <1>9
    <2>2. Len(<<Question(c.n)>>) % 2 = 1
      OBVIOUS
    <2>5. ReadsAs(chat', history'[d.id])
      <3>1. chat' = <<Mine(Question(c.n))>> /\ Question(c.n) \in Texts
        BY <1>2, <1>3, <1>6, <1>9 DEF CallAgrees, Asks
      <3> QED BY <2>1, <3>1, ReadsOne
    <2>3. CallAgrees(d)'
      BY <1>2, <1>3, <1>9, <2>1, <2>2, <2>5 DEF CallAgrees, Asks
    <2>4. current = Temp
      BY <1>3, <1>9 DEF CallAgrees
    <2> QED BY <1>2, <1>3, <1>4, <1>5, <1>9, <2>1, <2>3, <2>4 DEF PatientInv
  <1>10. ASSUME c.phase = "asked", d.phase = "done", d.id = c.id, NEW kept \in {"answer", "empty"},
                history' = [history EXCEPT ![c.id] = Append(history[c.id], Text(kept, c.n))],
                d.told = kept \/ (kept = "empty" /\ d.told = "error")
         PROVE  PatientInv'
    <2> DEFINE t == Text(kept, c.n)
    <2>1. c.id \in DOMAIN history /\ history[c.id] \in Seq(Texts) /\ Asks(c) /\ t \in Texts /\ t.of = c.n
      BY <1>4, <1>6, <1>10 DEF WellMade, Asks
    <2>14. t.what = kept /\ Told(d) = Theirs(Text(d.told, c.n))
      BY <1>2 DEF Text, Told
    <2>15. /\ d.told = kept => Told(d) = Theirs(t)
           /\ d.told = "error" => Told(d) = Error(t.of)
      BY <2>1, <2>14 DEF Error
    <2> HIDE DEF t
    <2>2. /\ history'[c.id] = Append(history[c.id], t)
          /\ DOMAIN history' = DOMAIN history
          /\ \A id \in DOMAIN history : id # c.id => history'[id] = history[id]
      BY <1>10, <2>1 DEF t
    <2>3. Len(history[c.id]) % 2 = 1 /\ ReadsAs(chat, history[c.id])
      BY <1>3, <1>10 DEF CallAgrees
    <2>4. /\ ReadsAs(Append(chat, Told(d)), history'[c.id])
          /\ Len(history'[c.id]) % 2 = 0
      <3>1. c.n \in Questions
        BY <1>4, <2>1 DEF Asks, WellMade, Questions
      <3>2. Told(d) \in Lines
        BY <1>2, <1>10, <3>1, ToldTyped
      <3>3. chat \in Seq(Lines)
        BY DEF Typed
      <3>4. Told(d) = Theirs(t) \/ (t.what = "empty" /\ Told(d) = Error(t.of))
        BY <1>10, <2>14, <2>15
      <3> DEFINE h == history[c.id]
                 x == Told(d)
      <3>5. /\ h \in Seq(Texts) /\ Len(h) % 2 = 1 /\ ReadsAs(chat, h) /\ t \in Texts
            /\ x \in Lines /\ (x = Theirs(t) \/ (t.what = "empty" /\ x = Error(t.of)))
            /\ history'[c.id] = Append(h, t)
        BY <2>1, <2>2, <2>3, <3>2, <3>4
      <3> HIDE DEF h, x
      <3>6. ReadsAs(Append(chat, x), Append(h, t))
        BY ONLY <3>3, <3>5, ReadsAppend
      <3>7. Len(Append(h, t)) % 2 = 0
        BY ONLY <3>5, LengthOfAppend
      <3> QED BY <3>5, <3>6, <3>7 DEF x
    <2>5. CallAgrees(d)'
      BY <1>2, <1>3, <1>10, <2>1, <2>4 DEF CallAgrees, Asks, Told
    <2>6. c.op = "create" => c.id \notin DOMAIN sessions /\ current = Temp
      BY <1>3 DEF CallAgrees
    <2>7. \A id \in DOMAIN history' : Len(history'[id]) % 2 = 0
      BY <1>5, <2>2, <2>4
    <2>8. \A id \in DOMAIN sessions :
              sessions[id] = <<>> \/ ReadsAs(sessions[id], history'[id]) \/ (c.op = "send" /\ c.id = id)
      BY <1>4, <1>5, <2>1, <2>2, <2>6 DEF Asks
    <2>9. \A id \in DOMAIN sessions : current = id => chat = sessions[id] /\ c.op = "send"
      BY <1>4, <1>5, <2>1, <2>6 DEF Asks
    <2>10. \A e \in calls' : e = d
      BY <1>3
    <2>11. ASSUME NEW id \in DOMAIN sessions'
           PROVE  \/ sessions'[id] = <<>> \/ ReadsAs(sessions'[id], history'[id])
                  \/ \E e \in calls' : e.op = "send" /\ e.id = id
      BY <1>2, <1>3, <1>10, <2>8, <2>11
    <2>12. ASSUME NEW id \in DOMAIN sessions', current' = id
           PROVE  /\ chat' = sessions'[id]
                  /\ \E e \in calls' : e.op \in {"history", "send"}
      BY <1>2, <1>3, <2>9, <2>12
    <2>13. current' = Temp => chat' = <<>> \/ \E e \in calls' : e.op = "create"
      BY <1>2, <1>3, <1>5
    <2> QED BY <2>5, <2>7, <2>10, <2>11, <2>12, <2>13 DEF PatientInv
  <1>11. CASE failed'
    BY <1>11
  <1>12. \/ UNCHANGED history
         \/ /\ c.op = "send" /\ c.phase = "sent" /\ d.phase = "asked" /\ d.id = c.id
            /\ history' = [history EXCEPT ![c.id] = Append(history[c.id], Question(c.n))]
         \/ /\ c.op = "create" /\ c.phase = "sent" /\ d.phase = "asked" /\ d.id \in Ids \ DOMAIN history
            /\ history' = [i \in DOMAIN history \cup {d.id} |->
                             IF i = d.id THEN <<Question(c.n)>> ELSE history[i]]
         \/ /\ c.phase = "asked" /\ d.phase = "done" /\ d.id = c.id
            /\ \E kept \in {"answer", "empty"} :
                  /\ history' = [history EXCEPT ![c.id] = Append(history[c.id], Text(kept, c.n))]
                  /\ d.told = kept \/ (kept = "empty" /\ d.told = "error")
         \/ failed'
    BY <1>1 DEF Serves
  <1> QED BY <1>7, <1>8, <1>9, <1>10, <1>11, <1>12

(* What the page does with its answer keeps them in agreement. *)
LEMMA PatientPage ==
    ASSUME Typed, PatientInv, NEW c \in calls, PageGoesOn(c)
    PROVE  PatientInv'
  <1> SUFFICES ASSUME ~overlapped', ~failed'
               PROVE  PatientInv'
    BY DEF PatientInv
  <1>1. calls' = calls \ {c} /\ UNCHANGED <<history, overlapped, failed>>
    BY DEF PageGoesOn, Loaded, NotLoaded, Switched, NotSwitched, Created, NotCreated,
           Sent, NotSent, Synced, Resume, userVars
  <1>2. calls = {c} /\ calls' = {} /\ CallAgrees(c)
    BY <1>1 DEF PatientInv
  <1>3. /\ c \in Call /\ WellMade(c) /\ Temp \notin Ids /\ Nil # Temp /\ Nil \notin Ids
        /\ DOMAIN sessions \subseteq DOMAIN history /\ DOMAIN history \subseteq Ids
        /\ history \in [DOMAIN history -> Seq(Texts)]
        /\ current \in DOMAIN sessions \cup {Nil, Temp}
    BY ConstantsAssumption DEF Typed
  <1>4. c.phase \notin {"asked", "failed"}
    BY <1>2 DEF CallAgrees, PageGoesOn, Loaded, NotLoaded, Switched, NotSwitched, Created,
                NotCreated, Sent, NotSent, Synced, Resume
  <1>5. /\ \A id \in DOMAIN history : Len(history[id]) % 2 = 0
        /\ \A id \in DOMAIN sessions :
              sessions[id] = <<>> \/ ReadsAs(sessions[id], history[id]) \/ (c.op = "send" /\ c.id = id)
        /\ \A id \in DOMAIN sessions : current = id =>
              /\ chat = sessions[id]
              /\ ReadsAs(chat, history[id]) \/ c.op \in {"history", "send"}
        /\ current = Temp => chat = <<>> \/ c.op = "create"
    BY <1>1, <1>2, <1>4 DEF PatientInv
  <1>6. SUFFICES /\ \A id \in DOMAIN sessions' :
                       sessions'[id] = <<>> \/ ReadsAs(sessions'[id], history[id])
                 /\ \A id \in DOMAIN sessions' : current' = id =>
                       chat' = sessions'[id] /\ ReadsAs(chat', history[id])
                 /\ current' = Temp => chat' = <<>>
    BY <1>1, <1>2, <1>5 DEF PatientInv
  <1>7. CASE Loaded(c)
    <2>1. c.op = "load" /\ current' = current /\ chat' = chat
      BY <1>7 DEF Loaded, Resume
    <2>2. current = Nil /\ DOMAIN sessions = {}
      BY <1>2, <2>1 DEF CallAgrees
    <2>3. DOMAIN sessions' = c.ids /\ \A id \in c.ids : sessions'[id] = <<>>
      BY <1>7, <2>2 DEF Loaded
    <2>4. c.ids \subseteq Ids
      BY <1>3 DEF WellMade
    <2> QED BY <1>3, <2>1, <2>2, <2>3, <2>4
  <1>8. CASE NotLoaded(c) \/ NotSwitched(c) \/ NotCreated(c) \/ NotSent(c)
    BY <1>4, <1>8 DEF NotLoaded, NotSwitched, NotCreated, NotSent, Resume
  <1>9. CASE Switched(c)
    <2>1. /\ c.op = "history" /\ c.phase = "done" /\ UNCHANGED current
          /\ sessions' = [sessions EXCEPT ![c.id] = Labelled(c.texts)]
          /\ chat' = chat \o Labelled(c.texts)
      BY <1>9 DEF Switched, Resume
    <2>2. /\ c.id \in DOMAIN sessions /\ c.id = current /\ chat = <<>>
          /\ c.texts = history[c.id] /\ history[c.id] \in Seq(Texts)
      BY <1>2, <1>3, <2>1 DEF CallAgrees, WellMade
    <2> DEFINE s == Labelled(history[c.id])
    <2>3. s \in Seq(Lines) /\ ReadsAs(s, history[c.id])
      BY <2>2, LabelledTyped, LabelledReads
    <2>4. chat' = <<>> \o s /\ sessions' = [sessions EXCEPT ![c.id] = s]
      BY <2>1, <2>2
    <2> HIDE DEF s
    <2>5. <<>> \o s = s
      BY <2>3
    <2>6. /\ DOMAIN sessions' = DOMAIN sessions /\ sessions'[c.id] = s /\ chat' = s
          /\ \A id \in DOMAIN sessions : id # c.id => sessions'[id] = sessions[id]
      BY <2>2, <2>4, <2>5
    <2> QED BY <1>3, <1>5, <2>1, <2>2, <2>3, <2>6
  <1>10. CASE Created(c)
    <2>1. /\ c.op = "create" /\ c.phase = "done" /\ current' = c.id
          /\ chat' = Append(chat, Told(c))
          /\ sessions' = [id \in DOMAIN sessions \cup {c.id} |->
                            IF id = c.id THEN <<Mine(Question(c.n)), Told(c)>>
                            ELSE sessions[id]]
      BY <1>10 DEF Created, Resume
    <2>2. /\ c.id \in Ids /\ c.id \notin DOMAIN sessions
          /\ chat = <<Mine(Question(c.n))>>
          /\ ReadsAs(Append(chat, Told(c)), history[c.id])
      BY <1>2, <1>3, <2>1 DEF CallAgrees, WellMade, Asks
    <2> DEFINE q == Mine(Question(c.n))
               r == Told(c)
    <2>5. /\ chat' = Append(<<q>>, r) /\ ReadsAs(Append(<<q>>, r), history[c.id])
          /\ sessions' = [id \in DOMAIN sessions \cup {c.id} |->
                            IF id = c.id THEN <<q, r>> ELSE sessions[id]]
      BY <2>1, <2>2
    <2> HIDE DEF q, r
    <2>6. Append(<<q>>, r) = <<q, r>>
      BY AppendToOne
    <2>7. /\ DOMAIN sessions' = DOMAIN sessions \cup {c.id} /\ sessions'[c.id] = <<q, r>>
          /\ chat' = <<q, r>> /\ ReadsAs(<<q, r>>, history[c.id])
          /\ \A id \in DOMAIN sessions : sessions'[id] = sessions[id]
      BY <2>2, <2>5, <2>6
    <2>8. ASSUME NEW id \in DOMAIN sessions'
          PROVE  sessions'[id] = <<>> \/ ReadsAs(sessions'[id], history[id])
      <3>1. CASE id = c.id
        BY <2>7, <3>1
      <3>2. CASE id # c.id
        BY <1>5, <2>1, <2>7, <2>8, <3>2
      <3> QED BY <3>1, <3>2
    <2>9. chat' = sessions'[current'] /\ ReadsAs(chat', history[current'])
      BY <2>1, <2>7
    <2>10. current' # Temp
      BY <1>3, <2>1, <2>2
    <2> QED BY <2>8, <2>9, <2>10
  <1>11. CASE Sent(c)
    <2>1. c.op = "send" /\ c.phase = "done" /\ UNCHANGED current
      BY <1>11 DEF Sent, Resume
    <2>2. /\ c.id \in DOMAIN sessions /\ c.id = current
          /\ ReadsAs(Append(chat, Told(c)), history[c.id])
      BY <1>2, <1>3, <2>1 DEF CallAgrees, WellMade, Asks
    <2> DEFINE r == Told(c)
    <2>3. /\ chat' = Append(chat, r) /\ ReadsAs(Append(chat, r), history[c.id])
          /\ sessions' = [sessions EXCEPT ![c.id] = Append(sessions[c.id], r)]
      BY <1>11, <2>2 DEF Sent, Open, Push
    <2>4. chat = sessions[c.id]
      BY <1>5, <2>2
    <2> HIDE DEF r
    <2>5. /\ DOMAIN sessions' = DOMAIN sessions /\ sessions'[c.id] = chat'
          /\ \A id \in DOMAIN sessions : id # c.id => sessions'[id] = sessions[id]
      BY <2>2, <2>3, <2>4
    <2> QED BY <1>3, <1>5, <2>1, <2>2, <2>3, <2>5
  <1>12. CASE Synced(c)
    <2>1. c.op = "sync" /\ c.phase = "done" /\ UNCHANGED current
      BY <1>12 DEF Synced, Resume
    <2>2. c.id \in DOMAIN sessions /\ c.id = current /\ c.texts = history[c.id]
      BY <1>2, <1>3, <2>1 DEF CallAgrees, WellMade
    <2>5. ReadsAs(Labelled(history[c.id]), history[c.id])
      BY <1>3, <2>2, LabelledReads
    <2>3. /\ sessions' = [sessions EXCEPT ![c.id] = Labelled(history[c.id])]
          /\ chat' = Labelled(history[c.id])
      BY <1>12, <2>2 DEF Synced, Open
    <2>4. /\ DOMAIN sessions' = DOMAIN sessions /\ sessions'[c.id] = chat'
          /\ \A id \in DOMAIN sessions : id # c.id => sessions'[id] = sessions[id]
      BY <2>2, <2>3
    <2> QED BY <1>3, <1>5, <2>1, <2>2, <2>3, <2>4, <2>5
  <1> QED BY <1>7, <1>8, <1>9, <1>10, <1>11, <1>12 DEF PageGoesOn

(* For a patient user page and server agree, up to the one call that is    *)
(* under way.                                                              *)
LEMMA PatientsAgree == Spec => []PatientInv
  <1>1. Init => PatientInv
    <2> SUFFICES ASSUME Init
                 PROVE  PatientInv
      OBVIOUS
    <2>1. /\ calls = {[n |-> 0, op |-> "load", id |-> Nil, phase |-> "sent", ids |-> {},
                       texts |-> <<>>, told |-> "nothing", alone |-> TRUE]}
          /\ current = Nil /\ DOMAIN sessions = {}
          /\ DOMAIN history = Old
          /\ \A id \in Old : history[id] = <<Question(id), Text("answer", id)>>
      BY DEF Init
    <2>2. ASSUME NEW id \in Old
          PROVE  Len(history[id]) % 2 = 0
      <3> DEFINE q == Question(id)
                 r == Text("answer", id)
      <3>1. history[id] = <<q, r>>
        BY <2>1
      <3> HIDE DEF q, r
      <3>2. Len(<<q, r>>) = 2 /\ 2 % 2 = 0
        OBVIOUS
      <3> QED BY <3>1, <3>2
    <2>3. ASSUME NEW c \in calls
          PROVE  c.op = "load" /\ c.phase = "sent" /\ CallAgrees(c)
      <3>1. c.op = "load" /\ c.phase = "sent"
        BY <2>1
      <3> QED BY <2>1, <3>1 DEF CallAgrees, Asks
    <2>4. current # Temp
      BY <2>1, ConstantsAssumption
    <2> QED BY <2>1, <2>2, <2>3, <2>4 DEF PatientInv
  <1>2. Typed /\ PatientInv /\ [Next]_vars => PatientInv'
    <2> SUFFICES ASSUME Typed, PatientInv, [Next]_vars
                 PROVE  PatientInv'
      OBVIOUS
    <2>1. CASE UserActs
      BY <2>1, PatientUser
    <2>2. ASSUME NEW c \in calls, ServerActs(c) \/ PageGoesOn(c)
          PROVE  PatientInv'
      BY <2>2, PatientServer, PatientPage
    <2>3. CASE UNCHANGED vars
      <3>1. \A c \in calls : CallAgrees(c)' <=> CallAgrees(c)
        BY <2>3 DEF vars, pageVars, CallAgrees, Asks, Told
      <3>2. UNCHANGED <<current, sessions, chat, calls, history, overlapped, failed>>
        BY <2>3 DEF vars, pageVars, userVars
      <3> QED BY <3>1, <3>2 DEF PatientInv
    <2> QED BY <2>1, <2>2, <2>3, StepsOfThePage
  <1> QED BY <1>1, <1>2, TypesKept, PTL DEF Spec

(* PatientPageAgrees: to a user who waits for every answer, what is shown  *)
(* is what the page keeps and reads as the server's history, in order and  *)
(* with the same roles, across new conversations, switches,                *)
(* synchronisations and answers that could not be read.                    *)
THEOREM PagesAgree == Spec => []PatientPageAgrees
  <1>1. Typed /\ PatientInv => PatientPageAgrees
    <2> SUFFICES ASSUME Typed, PatientInv, ~overlapped, ~failed, calls = {}
                 PROVE  /\ Open => chat = sessions[current] /\ ReadsAs(chat, history[current])
                        /\ \A id \in DOMAIN sessions :
                              sessions[id] = <<>> \/ ReadsAs(sessions[id], history[id])
      BY DEF PatientPageAgrees
    <2>1. \A id \in DOMAIN sessions :
             /\ sessions[id] = <<>> \/ ReadsAs(sessions[id], history[id])
             /\ current = id => chat = sessions[id] /\ ReadsAs(chat, history[id])
      BY DEF PatientInv
    <2> QED BY <2>1 DEF Open
  <1> QED BY <1>1, TypesKept, PatientsAgree, PTL
=============================================================================
