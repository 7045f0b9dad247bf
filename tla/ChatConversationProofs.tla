------------------------ MODULE ChatConversationProofs ------------------------
(***************************************************************************)
(* Theorems about ChatConversation for every finite set of event loops and *)
(* every set of conversations, and any number of questions.                *)
(***************************************************************************)
EXTENDS ChatConversation, FiniteSetTheorems, SequenceTheorems, TLAPS

(***************************************************************************)
(* Operators of the model                                                  *)
(***************************************************************************)
LEMMA FrontOf ==
    ASSUME NEW S, NEW s \in Seq(S), s # <<>>
    PROVE  /\ Front(s) \in Seq(S) /\ Len(Front(s)) = Len(s) - 1
           /\ \A k \in 1..(Len(s) - 1) : Front(s)[k] = s[k]
<1> DEFINE n == Len(s) - 1
<1>1. n \in Nat /\ \A i \in 1..n : s[i] \in S
  OBVIOUS
<1>2. Front(s) = SubSeq(s, 1, n)
  BY DEF Front
<1> HIDE DEF n
<1>3. /\ SubSeq(s, 1, n) \in Seq(S)
      /\ Len(SubSeq(s, 1, n)) = IF 1 <= n THEN n - 1 + 1 ELSE 0
      /\ \A i \in 1..(n - 1 + 1) : SubSeq(s, 1, n)[i] = s[1 + i - 1]
  BY <1>1, SubSeqProperties
<1>4. /\ (IF 1 <= n THEN n - 1 + 1 ELSE 0) = n /\ 1..(n - 1 + 1) = 1..n
      /\ \A i \in 1..n : 1 + i - 1 = i
  BY <1>1
<1>5. Front(s) \in Seq(S) /\ Len(Front(s)) = n /\ \A i \in 1..n : Front(s)[i] = s[i]
  BY <1>2, <1>3, <1>4
<1> QED
  BY <1>5 DEF n

(* push_back() adds one message at the end and leaves the others where     *)
(* they are.                                                               *)
LEMMA AppendOf ==
    ASSUME NEW S, NEW s \in Seq(S), NEW x \in S
    PROVE  /\ Append(s, x) \in Seq(S) /\ Append(s, x) # <<>>
           /\ Len(Append(s, x)) = Len(s) + 1
           /\ \A k \in 1..Len(s) : Append(s, x)[k] = s[k]
           /\ Append(s, x)[Len(s) + 1] = x
  OBVIOUS

(* pop_back() undoes push_back(). *)
LEMMA FrontOfAppend ==
    ASSUME NEW S, NEW s \in Seq(S), NEW x \in S
    PROVE  Front(Append(s, x)) = s
<1> DEFINE t == Append(s, x)
<1>1. t \in Seq(S) /\ t # <<>> /\ Len(t) = Len(s) + 1 /\ \A k \in 1..Len(s) : t[k] = s[k]
  BY AppendOf
<1> HIDE DEF t
<1>2. Front(t) \in Seq(S) /\ Len(Front(t)) = Len(s) /\ \A k \in 1..Len(s) : Front(t)[k] = s[k]
  <2>1. Len(s) \in Nat
    OBVIOUS
  <2> QED
    BY <1>1, <2>1, FrontOf
<1>3. Front(t) = s
  BY <1>2, SeqEqual
<1> QED
  BY <1>3 DEF t

(* The state in which a loop without a request leaves chat is of the type. *)
LEMMA SomeId == NoChat \in [id : Ids, turn : 0..MaxChats, model : Models]
<1>1. (CHOOSE i \in Ids : TRUE) \in Ids
  BY ConstantsAssumption
<1>2. 0 \in 0..MaxChats /\ "plain" \in Models
  BY ConstantsAssumption DEF Models
<1> QED
  BY <1>1, <1>2 DEF NoChat

(***************************************************************************)
(* pop_back() never meets an empty vector                                  *)
(***************************************************************************)
(* The loops whose prompt is in the conversation: the vector has at least  *)
(* as many messages, whoever pops which.                                   *)
PromptPCs == {"firstCurl", "firstPop", "secondCurl", "secondPop"}
Prompting(i) == {l \in Loops : chat[l].id = i /\ pc[l] \in PromptPCs}
PromptsAreThere == \A i \in Ids : Cardinality(Prompting(i)) <= Len(messages[i])

Typed ==
    /\ helpers \subseteq Ids
    /\ listed \subseteq helpers
    /\ messages \in [Ids -> Seq(Message)]
    /\ strategy \in [Ids -> Models]
    /\ published \in [Ids -> Seq(Message)]
    /\ pc \in [Loops -> PC]
    /\ chat \in [Loops -> [id : Ids, turn : 0..MaxChats, model : Models]]
    /\ asked \in 0..MaxChats
    /\ overlapped \subseteq Ids
    /\ failed \subseteq Ids
    /\ answered \subseteq Turns
    /\ \A l \in Loops : pc[l] # "idle" => chat[l].turn \in 1..asked

(* The loops with a prompt in one conversation can be counted. *)
LEMMA PromptingCounts ==
    ASSUME NEW i
    PROVE  /\ IsFiniteSet(Prompting(i)) /\ Cardinality(Prompting(i)) \in Nat
           /\ Prompting(i) # {} => Cardinality(Prompting(i)) > 0
<1>1. Prompting(i) \in SUBSET Loops /\ IsFiniteSet(Loops)
  BY ConstantsAssumption DEF Prompting
<1>2. IsFiniteSet(Prompting(i))
  BY <1>1, FS_Subset
<1>3. Cardinality(Prompting(i)) \in Nat /\ (Cardinality(Prompting(i)) = 0 <=> Prompting(i) = {})
  BY <1>2, FS_CardinalityType, FS_EmptySet
<1> QED
  BY <1>2, <1>3

(* A step of one loop into and out of the places with a prompt. *)
LEMMA PromptingMoves ==
    ASSUME Typed, NEW l \in Loops, NEW x, pc' = [pc EXCEPT ![l] = x], chat' = chat, NEW i \in Ids
    PROVE  /\ Cardinality(Prompting(i)) \in Nat /\ Cardinality(Prompting(i))' \in Nat
           /\ (x \in PromptPCs <=> pc[l] \in PromptPCs) =>
                Cardinality(Prompting(i))' = Cardinality(Prompting(i))
           /\ (x \in PromptPCs /\ pc[l] \notin PromptPCs) =>
                Cardinality(Prompting(i))' =
                  Cardinality(Prompting(i)) + (IF chat[l].id = i THEN 1 ELSE 0)
           /\ (x \notin PromptPCs /\ pc[l] \in PromptPCs) =>
                Cardinality(Prompting(i)) =
                  Cardinality(Prompting(i))' + (IF chat[l].id = i THEN 1 ELSE 0)
<1> DEFINE P == Prompting(i)
           Q == Prompting(i)'
<1>1. IsFiniteSet(P) /\ Cardinality(P) \in Nat
  BY PromptingCounts
<1>2. /\ Q = {m \in Loops : chat[m].id = i /\ (IF m = l THEN x ELSE pc[m]) \in PromptPCs}
      /\ P = {m \in Loops : chat[m].id = i /\ pc[m] \in PromptPCs}
  BY DEF Prompting, Typed
<1> HIDE DEF P, Q
<1>3. (x \in PromptPCs <=> pc[l] \in PromptPCs) => Q = P
  BY <1>2
<1>4. (x \in PromptPCs /\ pc[l] \notin PromptPCs) =>
        IF chat[l].id = i THEN l \notin P /\ Q = P \cup {l} ELSE Q = P
  BY <1>2
<1>5. (x \notin PromptPCs /\ pc[l] \in PromptPCs) =>
        IF chat[l].id = i THEN l \in P /\ Q = P \ {l} ELSE Q = P
  BY <1>2
<1>6. /\ l \notin P => Cardinality(P \cup {l}) = Cardinality(P) + 1
      /\ l \in P => Cardinality(P \ {l}) = Cardinality(P) - 1
  BY <1>1, FS_AddElement, FS_RemoveElement
<1>7. /\ (x \in PromptPCs <=> pc[l] \in PromptPCs) => Cardinality(Q) = Cardinality(P)
      /\ (x \in PromptPCs /\ pc[l] \notin PromptPCs) =>
           Cardinality(Q) = Cardinality(P) + (IF chat[l].id = i THEN 1 ELSE 0)
      /\ (x \notin PromptPCs /\ pc[l] \in PromptPCs) =>
           Cardinality(P) = Cardinality(Q) + (IF chat[l].id = i THEN 1 ELSE 0)
  <2> DEFINE p == Cardinality(P)
  <2>1. /\ p \in Nat
        /\ l \notin P => Cardinality(P \cup {l}) = p + 1
        /\ l \in P => Cardinality(P \ {l}) = p - 1
    BY <1>1, <1>6
  <2> HIDE DEF p
  <2>2. (x \in PromptPCs <=> pc[l] \in PromptPCs) => Cardinality(Q) = p
    BY <1>3 DEF p
  <2>3. (x \in PromptPCs /\ pc[l] \notin PromptPCs) =>
           Cardinality(Q) = p + (IF chat[l].id = i THEN 1 ELSE 0)
    <3>1. CASE chat[l].id = i
      BY <1>4, <2>1, <3>1
    <3>2. CASE chat[l].id # i
      BY <1>4, <2>1, <3>2 DEF p
    <3> QED
      BY <3>1, <3>2
  <2>4. (x \notin PromptPCs /\ pc[l] \in PromptPCs) =>
           p = Cardinality(Q) + (IF chat[l].id = i THEN 1 ELSE 0)
    <3>1. CASE chat[l].id = i
      BY <1>5, <2>1, <3>1
    <3>2. CASE chat[l].id # i
      BY <1>5, <2>1, <3>2 DEF p
    <3> QED
      BY <3>1, <3>2
  <2> QED
    BY <2>2, <2>3, <2>4 DEF p
<1>8. Cardinality(Q) \in Nat
  <2>1. Q \in SUBSET Loops /\ IsFiniteSet(Loops)
    BY <1>2, ConstantsAssumption
  <2> QED
    BY <2>1, FS_Subset, FS_CardinalityType
<1> QED
  BY <1>1, <1>7, <1>8 DEF P, Q

(* A loop whose prompt is in its conversation does not find that           *)
(* conversation empty.                                                     *)
LEMMA PromptOnTop ==
    ASSUME Typed, PromptsAreThere, NEW l \in Loops, pc[l] \in PromptPCs
    PROVE  messages[chat[l].id] \in Seq(Message) /\ messages[chat[l].id] # <<>>
<1> DEFINE i == chat[l].id
<1>1. i \in Ids /\ messages[i] \in Seq(Message) /\ l \in Prompting(i)
  BY DEF Typed, Prompting
<1> HIDE DEF i
<1>2. Cardinality(Prompting(i)) \in Nat /\ Cardinality(Prompting(i)) > 0
  BY <1>1, PromptingCounts
<1>3. Len(messages[i]) > 0
  BY <1>1, <1>2 DEF PromptsAreThere
<1>4. messages[i] # <<>>
  BY <1>3
<1> QED
  BY <1>1, <1>4 DEF i

(* What a request pushes is a message. *)
LEMMA MessagesOf ==
    ASSUME NEW t \in Turns PROVE User(t) \in Message /\ Ai(t) \in Message /\ Prompt(t) \in Message
BY DEF User, Ai, Prompt, Message

(* What every step of a loop after Enter() does to the types. *)
LEMMA StepTypes ==
    ASSUME Typed, PromptsAreThere, NEW l \in Loops, NEW x \in PC, pc' = [pc EXCEPT ![l] = x],
           pc[l] # "idle", UNCHANGED <<helpers, listed, chat, asked, overlapped>>,
           failed' \subseteq Ids, answered' \subseteq Turns,
           strategy' \in [Ids -> Models], published' \in [Ids -> Seq(Message)],
           messages' \in [Ids -> Seq(Message)],
           NEW d \in {0 - 1, 0, 1}, d = 0 \/ chat[l].id \in Ids,
           \A i \in Ids : Len(messages'[i]) = Len(messages[i]) + (IF chat[l].id = i THEN d ELSE 0),
           d = 0 - 1 => pc[l] \in PromptPCs /\ x \notin PromptPCs,
           d = 0 => pc[l] \in PromptPCs \/ x \notin PromptPCs
    PROVE  Typed' /\ PromptsAreThere'
<1>1. Typed'
  BY DEF Typed
<1>2. ASSUME NEW i \in Ids PROVE Cardinality(Prompting(i))' <= Len(messages'[i])
  <2> DEFINE p == Cardinality(Prompting(i))
             q == Cardinality(Prompting(i))'
  <2>1. /\ p \in Nat /\ q \in Nat
        /\ (x \in PromptPCs <=> pc[l] \in PromptPCs) => q = p
        /\ (x \in PromptPCs /\ pc[l] \notin PromptPCs) => q = p + (IF chat[l].id = i THEN 1 ELSE 0)
        /\ (x \notin PromptPCs /\ pc[l] \in PromptPCs) => p = q + (IF chat[l].id = i THEN 1 ELSE 0)
    BY PromptingMoves
  <2>3. p <= Len(messages[i]) /\ Len(messages[i]) \in Nat
    BY DEF PromptsAreThere, Typed
  <2>4. Len(messages'[i]) = Len(messages[i]) + (IF chat[l].id = i THEN d ELSE 0)
    OBVIOUS
  <2> HIDE DEF p, q
  <2>5. q <= Len(messages'[i])
    <3>1. CASE chat[l].id = i
      BY <2>1, <2>3, <2>4, <3>1
    <3>2. CASE chat[l].id # i
      BY <2>1, <2>3, <2>4, <3>2
    <3> QED
      BY <3>1, <3>2
  <2> QED
    BY <2>5 DEF q
<1> QED
  BY <1>1, <1>2 DEF PromptsAreThere

(* The three ways in which a step changes the helper. *)
LEMMA QuietStepTypes ==
    ASSUME Typed, PromptsAreThere, NEW l \in Loops, NEW x \in PC, pc' = [pc EXCEPT ![l] = x],
           pc[l] # "idle", UNCHANGED <<helpers, listed, chat, asked, overlapped, messages, published>>,
           failed' \subseteq Ids, answered' = answered, strategy' \in [Ids -> Models],
           pc[l] \in PromptPCs \/ x \notin PromptPCs
    PROVE  Typed' /\ PromptsAreThere'
<1> DEFINE d == 0
<1>1. ASSUME NEW i \in Ids
      PROVE  Len(messages'[i]) = Len(messages[i]) + (IF chat[l].id = i THEN d ELSE 0)
  <2>1. Len(messages[i]) \in Nat
    BY DEF Typed
  <2> QED
    BY <2>1
<1>3. d \in {0 - 1, 0, 1} /\ d = 0 /\ d # 0 - 1
  OBVIOUS
<1> HIDE DEF d
<1>2. /\ published' \in [Ids -> Seq(Message)] /\ messages' \in [Ids -> Seq(Message)]
      /\ answered' \subseteq Turns
  BY DEF Typed
<1> QED
  BY <1>1, <1>2, <1>3, StepTypes

(* A push keeps the types and adds one message for the one prompt it may   *)
(* add.                                                                    *)
LEMMA AddStepTypes ==
    ASSUME Typed, PromptsAreThere, NEW l \in Loops, NEW x \in PC, pc' = [pc EXCEPT ![l] = x],
           pc[l] # "idle", UNCHANGED <<helpers, listed, chat, asked, overlapped, failed, strategy>>,
           answered' \subseteq Turns, NEW m \in Message,
           messages' = [messages EXCEPT ![chat[l].id] = Append(@, m)],
           \/ published' = published
           \/ published' = [published EXCEPT ![chat[l].id] = Append(@, m)]
    PROVE  Typed' /\ PromptsAreThere'
<1>1. chat[l].id \in Ids /\ failed' \subseteq Ids /\ strategy' \in [Ids -> Models]
  BY DEF Typed
<1>2. ASSUME NEW i \in Ids
      PROVE  Len(messages'[i]) = Len(messages[i]) + (IF chat[l].id = i THEN 1 ELSE 0)
  <2>1. messages[i] \in Seq(Message)
    BY DEF Typed
  <2>2. Len(Append(messages[i], m)) = Len(messages[i]) + 1 /\ Len(messages[i]) \in Nat
    BY <2>1
  <2>3. CASE chat[l].id = i
    <3>1. messages'[i] = Append(messages[i], m)
      BY <2>3 DEF Typed
    <3> QED
      BY <2>2, <2>3, <3>1
  <2>4. CASE chat[l].id # i
    BY <2>2, <2>4 DEF Typed
  <2> QED
    BY <2>3, <2>4
<1>3. published' \in [Ids -> Seq(Message)] /\ messages' \in [Ids -> Seq(Message)]
  <2>1. \A q \in Seq(Message) : Append(q, m) \in Seq(Message)
    BY AppendProperties
  <2>2. messages \in [Ids -> Seq(Message)] /\ published \in [Ids -> Seq(Message)]
    BY DEF Typed
  <2>3. ASSUME NEW i \in Ids PROVE messages'[i] \in Seq(Message) /\ published'[i] \in Seq(Message)
    <3>1. messages[i] \in Seq(Message) /\ published[i] \in Seq(Message)
      BY <2>2
    <3>2. Append(messages[i], m) \in Seq(Message) /\ Append(published[i], m) \in Seq(Message)
      BY <2>1, <3>1
    <3>3. messages'[i] = messages[i] \/ messages'[i] = Append(messages[i], m)
      BY <2>2
    <3>4. published'[i] = published[i] \/ published'[i] = Append(published[i], m)
      BY <2>2
    <3> QED
      BY <3>1, <3>2, <3>3, <3>4
  <2>4. DOMAIN messages' = Ids /\ DOMAIN published' = Ids
    BY <2>2
  <2>5. /\ messages' = [i \in Ids |-> messages'[i]]
        /\ published' = [i \in Ids |-> published'[i]]
    BY <2>2
  <2> QED
    BY <2>3, <2>5
<1> DEFINE d == 1
<1>4. d \in {0 - 1, 0, 1} /\ d # 0 - 1 /\ d # 0
  OBVIOUS
<1>5. \A i \in Ids : Len(messages'[i]) = Len(messages[i]) + (IF chat[l].id = i THEN d ELSE 0)
  BY <1>2
<1> HIDE DEF d
<1> QED
  BY <1>1, <1>3, <1>4, <1>5, StepTypes

(* A pop keeps the types and takes one message for the one prompt it       *)
(* accounts for.                                                           *)
LEMMA PopStepTypes ==
    ASSUME Typed, PromptsAreThere, NEW l \in Loops, NEW x \in PC, pc' = [pc EXCEPT ![l] = x],
           UNCHANGED <<helpers, listed, chat, asked, overlapped, failed, answered, strategy, published>>,
           messages' = [messages EXCEPT ![chat[l].id] = Front(@)],
           pc[l] \in PromptPCs /\ x \notin PromptPCs
    PROVE  Typed' /\ PromptsAreThere'
<1>1. /\ chat[l].id \in Ids /\ failed' \subseteq Ids /\ strategy' \in [Ids -> Models]
      /\ answered' \subseteq Turns /\ published' \in [Ids -> Seq(Message)] /\ pc[l] # "idle"
  BY DEF Typed, PromptPCs
<1>2. messages[chat[l].id] \in Seq(Message) /\ messages[chat[l].id] # <<>>
  BY PromptOnTop
<1>3. /\ Front(messages[chat[l].id]) \in Seq(Message)
      /\ Len(Front(messages[chat[l].id])) = Len(messages[chat[l].id]) - 1
  BY <1>2, FrontOf
<1>4. messages' \in [Ids -> Seq(Message)]
  BY <1>1, <1>3 DEF Typed
<1> DEFINE d == 0 - 1
<1>5. ASSUME NEW i \in Ids
      PROVE  Len(messages'[i]) = Len(messages[i]) + (IF chat[l].id = i THEN d ELSE 0)
  <2>1. Len(messages[i]) \in Nat
    BY DEF Typed
  <2>2. CASE chat[l].id = i
    <3>1. messages'[i] = Front(messages[i])
      BY <1>1, <2>2 DEF Typed
    <3> QED
      BY <1>3, <2>1, <2>2, <3>1
  <2>3. CASE chat[l].id # i
    BY <2>1, <2>3 DEF Typed
  <2> QED
    BY <2>2, <2>3
<1>6. d \in {0 - 1, 0, 1} /\ d # 0
  OBVIOUS
<1> HIDE DEF d
<1> QED
  BY <1>1, <1>4, <1>5, <1>6, StepTypes

(* Prompts included, the vector of a conversation never runs empty under a *)
(* pop_back(), whatever loops push and pop at the same time.               *)
THEOREM TypeCorrect == Spec => [](TypeOK /\ Typed /\ PromptsAreThere)
<1>0. MaxChats \in Nat
  BY ConstantsAssumption
<1>1. Init => Typed /\ PromptsAreThere
  <2> SUFFICES ASSUME Init PROVE Typed /\ PromptsAreThere
    OBVIOUS
  <2>1. Typed
    <3>1. <<>> \in Seq(Message) /\ "plain" \in Models /\ "idle" \in PC
      BY EmptySeq DEF Models, PC
    <3> QED
      BY <1>0, <3>1, SomeId DEF Init, Typed
  <2>2. ASSUME NEW i \in Ids PROVE Cardinality(Prompting(i)) <= Len(messages[i])
    <3>1. Prompting(i) = {} /\ messages[i] = <<>>
      BY DEF Init, Prompting, PromptPCs
    <3> QED
      BY <3>1, FS_EmptySet
  <2> QED
    BY <2>1, <2>2 DEF PromptsAreThere
<1>2. Typed /\ PromptsAreThere /\ [Next]_vars => Typed' /\ PromptsAreThere'
  <2> SUFFICES ASSUME Typed, PromptsAreThere, [Next]_vars PROVE Typed' /\ PromptsAreThere'
    OBVIOUS
  <2>1. ASSUME NEW l \in Loops, NEW i \in Ids, NEW m \in Models, Enter(l, i, m),
               listed' = listed \/ listed' = listed \cup {i}
        PROVE  Typed' /\ PromptsAreThere'
    <3>1. asked + 1 \in 0..MaxChats /\ asked + 1 \in 1..(asked + 1) /\ asked \in Nat
      BY <1>0, <2>1 DEF Enter, Typed
    <3>2. "strategy" \in PC
      BY DEF PC
    <3>3. [id |-> i, turn |-> asked + 1, model |-> m] \in [id : Ids, turn : 0..MaxChats, model : Models]
      BY <3>1
    <3>4. \A k \in Loops : pc'[k] # "idle" => chat'[k].turn \in 1..asked'
      BY <2>1, <3>1 DEF Enter, Goto, Typed
    <3>5. Typed'
      BY <2>1, <3>1, <3>2, <3>3, <3>4 DEF Enter, Goto, Typed, helperVars
    <3>6. \A j \in Ids : Prompting(j)' = Prompting(j)
      BY <2>1 DEF Enter, Goto, Typed, Prompting, PromptPCs
    <3> QED
      BY <2>1, <3>5, <3>6 DEF PromptsAreThere, Enter, helperVars
  <2>2. ASSUME NEW l \in Loops, NEW i \in Ids, History(l, i) PROVE Typed' /\ PromptsAreThere'
    BY <2>2 DEF History, Typed, PromptsAreThere, Prompting, helperVars
  <2>3. ASSUME NEW l \in Loops,
               UnknownModel(l) \/ SetStrategy(l) \/ Branch(l) \/ NoTool(l) \/ UseTool(l)
        PROVE  Typed' /\ PromptsAreThere'
    <3>1. PICK x \in {"idle", "branch", "ask", "firstPrompt", "addUser", "secondPrompt"} :
             pc' = [pc EXCEPT ![l] = x]
      BY <2>3 DEF UnknownModel, SetStrategy, Branch, NoTool, UseTool, Called, Step, Goto
    <3>2. /\ pc[l] # "idle" /\ UNCHANGED <<helpers, listed, chat, asked, overlapped>>
          /\ UNCHANGED <<messages, published, failed, answered>>
      BY <2>3 DEF UnknownModel, SetStrategy, Branch, NoTool, UseTool, Called, Step, helperVars
    <3>3. strategy' \in [Ids -> Models]
      BY <2>3 DEF UnknownModel, SetStrategy, Branch, NoTool, UseTool, Called, helperVars, Typed
    <3>4. x \in PC /\ x \notin PromptPCs /\ failed' \subseteq Ids
      BY <3>1, <3>2 DEF PC, PromptPCs, Typed
    <3> QED
      BY <3>1, <3>2, <3>3, <3>4, QuietStepTypes
  <2>4. ASSUME NEW l \in Loops, Curl(l) \/ FirstCurl(l) \/ SecondCurl(l)
        PROVE  Typed' /\ PromptsAreThere'
    <3>1. PICK x \in {"addAnswer", "firstPop", "secondPop"} :
             /\ pc' = [pc EXCEPT ![l] = x]
             /\ pc[l] \in PromptPCs \/ x = "addAnswer"
      BY <2>4 DEF Curl, FirstCurl, SecondCurl, Called, Step, Goto, PromptPCs
    <3>2. /\ pc[l] # "idle" /\ UNCHANGED <<helpers, listed, chat, asked, overlapped>>
          /\ UNCHANGED <<messages, published, failed, answered, strategy>>
      BY <2>4 DEF Curl, FirstCurl, SecondCurl, Called, Step, helperVars
    <3>3. strategy' \in [Ids -> Models] /\ failed' \subseteq Ids
      BY <3>2 DEF Typed
    <3>4. x \in PC /\ (pc[l] \in PromptPCs \/ x \notin PromptPCs)
      BY <3>1 DEF PC, PromptPCs
    <3> QED
      BY <3>1, <3>2, <3>3, <3>4, QuietStepTypes
  <2>5. ASSUME NEW l \in Loops, CurlFails(l) PROVE Typed' /\ PromptsAreThere'
    <3>1. /\ pc[l] # "idle" /\ pc' = [pc EXCEPT ![l] = "idle"]
          /\ UNCHANGED <<helpers, listed, chat, asked, overlapped, messages, published, strategy>>
          /\ answered' = answered /\ failed' = failed \cup {chat[l].id}
      BY <2>5 DEF CurlFails, Throw, Goto, helperVars
    <3>2. /\ strategy' \in [Ids -> Models] /\ failed' \subseteq Ids
          /\ "idle" \in PC /\ "idle" \notin PromptPCs
      BY <3>1 DEF Typed, PC, PromptPCs
    <3> QED
      BY <3>1, <3>2, QuietStepTypes
  <2>6. ASSUME NEW l \in Loops, Ask(l) \/ AddUser(l) \/ AddAnswer(l) \/ FirstPrompt(l) \/ SecondPrompt(l)
        PROVE  Typed' /\ PromptsAreThere'
    <3>1. pc[l] # "idle" /\ chat[l].turn \in Turns
      <4>1. pc[l] # "idle"
        BY <2>6 DEF Ask, AddUser, AddAnswer, FirstPrompt, SecondPrompt, PushPrompt
      <4> QED
        BY <1>0, <4>1 DEF Typed, Turns
    <3>2. \E x \in PC, m \in Message :
             /\ pc' = [pc EXCEPT ![l] = x]
             /\ messages' = [messages EXCEPT ![chat[l].id] = Append(@, m)]
             /\ \/ published' = published
                \/ published' = [published EXCEPT ![chat[l].id] = Append(@, m)]
      <4>1. "curl" \in PC /\ "addAnswer" \in PC /\ "idle" \in PC /\ "firstCurl" \in PC /\ "secondCurl" \in PC
        BY DEF PC
      <4> QED
        BY <2>6, <3>1, <4>1, MessagesOf
           DEF Ask, AddUser, AddAnswer, FirstPrompt, SecondPrompt, PushPrompt, AddMessage, Step, Goto
    <3>3. /\ UNCHANGED <<helpers, listed, chat, asked, overlapped, failed, strategy>>
          /\ answered' \subseteq Turns
      BY <2>6, <3>1 DEF Ask, AddUser, AddAnswer, FirstPrompt, SecondPrompt, PushPrompt, AddMessage,
         Step, Typed
    <3> QED
      BY <3>1, <3>2, <3>3, AddStepTypes
  <2>7. ASSUME NEW l \in Loops, FirstPop(l) \/ SecondPop(l) PROVE Typed' /\ PromptsAreThere'
    <3>1. PICK x \in {"decide", "addUser"} : pc' = [pc EXCEPT ![l] = x]
      BY <2>7 DEF FirstPop, SecondPop, PopPrompt, Step, Goto
    <3>2. /\ UNCHANGED <<helpers, listed, chat, asked, overlapped, failed, answered>>
          /\ UNCHANGED <<strategy, published>> /\ pc[l] \in PromptPCs
          /\ messages' = [messages EXCEPT ![chat[l].id] = Front(@)]
      BY <2>7 DEF FirstPop, SecondPop, PopPrompt, Step, PromptPCs
    <3>3. x \in PC /\ x \notin PromptPCs
      BY DEF PC, PromptPCs
    <3> QED
      BY <3>1, <3>2, <3>3, PopStepTypes
  <2>8. CASE UNCHANGED vars
    BY <2>8 DEF vars, helperVars, Typed, PromptsAreThere, Prompting
  <2>9. ASSUME NEW l \in Loops, NEW i \in Ids, NEW m \in Models, Send(l, i, m) \/ CreateAndSend(l, i, m)
        PROVE  Typed' /\ PromptsAreThere'
    BY <2>1, <2>9 DEF Send, CreateAndSend
  <2> QED
    BY <2>2, <2>3, <2>4, <2>5, <2>6, <2>7, <2>8, <2>9 DEF Next, Finished
<1>3. Typed /\ PromptsAreThere => TypeOK
  <2> SUFFICES ASSUME Typed, PromptsAreThere PROVE TypeOK
    OBVIOUS
  <2>1. \A l \in Loops : pc[l] \in {"firstPop", "secondPop"} => messages[chat[l].id] # <<>>
    BY PromptOnTop DEF PromptPCs
  <2> QED
    BY <2>1 DEF Typed, TypeOK
<1> QED
  BY <1>1, <1>2, <1>3, PTL DEF Spec

(***************************************************************************)
(* Conversations that two loops were not in at once                        *)
(***************************************************************************)
(* A step of a loop inside chat(). *)
Work(l) ==
    \/ UnknownModel(l) \/ SetStrategy(l) \/ Branch(l) \/ Ask(l)
    \/ Curl(l) \/ FirstCurl(l) \/ SecondCurl(l) \/ CurlFails(l)
    \/ FirstPrompt(l) \/ SecondPrompt(l) \/ FirstPop(l) \/ SecondPop(l)
    \/ NoTool(l) \/ UseTool(l) \/ AddUser(l) \/ AddAnswer(l)

(* A step enters chat(), reads a history, or works inside chat(). *)
LEMMA NextCases ==
    ASSUME [Next]_vars
    PROVE  \/ \E l \in Loops, i \in Ids, m \in Models : Enter(l, i, m)
           \/ \E l \in Loops, i \in Ids : History(l, i)
           \/ \E l \in Loops : Work(l)
           \/ UNCHANGED vars
BY DEF Next, Finished, Send, CreateAndSend, Work

(* A step inside chat() moves its own loop and changes the helper of its   *)
(* own conversation only.                                                  *)
LEMMA WorkIsLocal ==
    ASSUME Typed, NEW l \in Loops, Work(l)
    PROVE  /\ pc[l] # "idle" /\ pc'[l] # "strategy"
           /\ \A k \in Loops \ {l} : pc'[k] = pc[k]
           /\ UNCHANGED <<helpers, listed, chat, asked, overlapped>>
           /\ \A i \in Ids \ {chat[l].id} :
                /\ messages'[i] = messages[i] /\ strategy'[i] = strategy[i]
                /\ published'[i] = published[i]
           /\ \/ failed' = failed
              \/ failed' = failed \cup {chat[l].id} /\ pc'[l] = "idle"
<1> DEFINE A == UnknownModel(l) \/ SetStrategy(l) \/ Branch(l) \/ CurlFails(l)
           B == Curl(l) \/ FirstCurl(l) \/ SecondCurl(l) \/ NoTool(l) \/ UseTool(l)
           C == Ask(l) \/ AddUser(l) \/ AddAnswer(l)
           D == FirstPrompt(l) \/ SecondPrompt(l) \/ FirstPop(l) \/ SecondPop(l)
<1>0. A \/ B \/ C \/ D
  BY DEF Work
<1>1. pc[l] # "idle" /\ \E x \in PC \ {"strategy"} : pc' = [pc EXCEPT ![l] = x]
  <2>1. ASSUME NEW x, x \in {"idle", "branch", "ask", "curl", "firstPrompt", "firstCurl", "firstPop",
                             "decide", "secondPrompt", "secondCurl", "secondPop", "addUser", "addAnswer"}
        PROVE  x \in PC \ {"strategy"}
    BY <2>1 DEF PC
  <2>2. CASE A
    BY <2>1, <2>2 DEF UnknownModel, SetStrategy, Branch, CurlFails, Throw, Step, Goto
  <2>3. CASE B
    BY <2>1, <2>3 DEF Curl, FirstCurl, SecondCurl, NoTool, UseTool, Called, Step, Goto
  <2>4. CASE C
    BY <2>1, <2>4 DEF Ask, AddUser, AddAnswer, Step, Goto
  <2>5. CASE D
    BY <2>1, <2>5 DEF FirstPrompt, SecondPrompt, PushPrompt, FirstPop, SecondPop, PopPrompt, Step, Goto
  <2> QED
    BY <1>0, <2>2, <2>3, <2>4, <2>5
<1>2. /\ UNCHANGED <<helpers, listed, chat, asked, overlapped>>
      /\ \/ failed' = failed
         \/ failed' = failed \cup {chat[l].id} /\ pc' = [pc EXCEPT ![l] = "idle"]
  <2>1. CASE A
    BY <2>1 DEF UnknownModel, SetStrategy, Branch, CurlFails, Throw, Step, Goto
  <2>2. CASE B
    BY <2>2 DEF Curl, FirstCurl, SecondCurl, NoTool, UseTool, Called, Step
  <2>3. CASE C
    BY <2>3 DEF Ask, AddUser, AddAnswer, Step
  <2>4. CASE D
    BY <2>4 DEF FirstPrompt, SecondPrompt, PushPrompt, FirstPop, SecondPop, PopPrompt, Step
  <2> QED
    BY <1>0, <2>1, <2>2, <2>3, <2>4
<1>3. /\ messages' = messages \/ \E x : messages' = [messages EXCEPT ![chat[l].id] = x]
      /\ published' = published \/ \E x : published' = [published EXCEPT ![chat[l].id] = x]
      /\ strategy' = strategy \/ \E x : strategy' = [strategy EXCEPT ![chat[l].id] = x]
  <2>1. CASE A
    BY <2>1 DEF UnknownModel, SetStrategy, Branch, CurlFails, Throw, helperVars
  <2>2. CASE B
    BY <2>2 DEF Curl, FirstCurl, SecondCurl, NoTool, UseTool, Called, helperVars
  <2>3. CASE C
    BY <2>3 DEF Ask, AddUser, AddAnswer, AddMessage
  <2>4. CASE D
    BY <2>4 DEF FirstPrompt, SecondPrompt, PushPrompt, FirstPop, SecondPop, PopPrompt
  <2> QED
    BY <1>0, <2>1, <2>2, <2>3, <2>4
<1> HIDE DEF A, B, C, D
<1> QED
  BY <1>1, <1>2, <1>3 DEF Typed

OneInQuiet ==
    \A l, m \in Loops :
        l # m /\ pc[l] # "idle" /\ pc[m] # "idle" /\ chat[l].id = chat[m].id
            => chat[l].id \in overlapped

(* Two loops are in one conversation only if the history says so. *)
LEMMA OverlapsAreSeen == Spec => []OneInQuiet
<1>1. Init => OneInQuiet
  BY DEF Init, OneInQuiet
<1>2. Typed /\ OneInQuiet /\ [Next]_vars => OneInQuiet'
  <2> SUFFICES ASSUME Typed, OneInQuiet, [Next]_vars PROVE OneInQuiet'
    OBVIOUS
  <2>1. ASSUME NEW l \in Loops, NEW i \in Ids, NEW m \in Models, Enter(l, i, m) PROVE OneInQuiet'
    <3>1. /\ pc[l] = "idle" /\ pc' = [pc EXCEPT ![l] = "strategy"]
          /\ chat' = [chat EXCEPT ![l] = [id |-> i, turn |-> asked + 1, model |-> m]]
          /\ overlapped' = IF In(i) = {} THEN overlapped ELSE overlapped \cup {i}
      BY <2>1 DEF Enter, Goto
    <3>2. \A k \in Loops : pc[k] # "idle" /\ chat[k].id = i => i \in overlapped'
      BY <3>1 DEF In
    <3>3. /\ chat'[l].id = i /\ pc'[l] # "idle"
          /\ \A k \in Loops \ {l} : chat'[k] = chat[k] /\ pc'[k] = pc[k]
      BY <3>1 DEF Typed
    <3> QED
      BY <3>1, <3>2, <3>3 DEF OneInQuiet
  <2>2. ASSUME NEW l \in Loops, Work(l) PROVE OneInQuiet'
    BY <2>2, WorkIsLocal DEF OneInQuiet
  <2>3. ASSUME NEW l \in Loops, NEW i \in Ids, History(l, i) PROVE OneInQuiet'
    BY <2>3 DEF History, OneInQuiet
  <2>4. CASE UNCHANGED vars
    BY <2>4 DEF vars, OneInQuiet
  <2> QED
    BY <2>1, <2>2, <2>3, <2>4, NextCases
<1> QED
  BY <1>1, <1>2, TypeCorrect, PTL DEF Spec

(* The strategy stays the one of the request from SetStrategy() on, and    *)
(* the branch follows it.                                                  *)
StrategyInv ==
    \A l \in Loops : chat[l].id \notin overlapped =>
        /\ pc[l] \notin {"idle", "strategy"} => strategy[chat[l].id] = chat[l].model
        /\ pc[l] \notin {"idle", "strategy"} => chat[l].model # "unknown"
        /\ pc[l] \in {"ask", "curl"} => chat[l].model = "plain"
        /\ pc[l] \in {"firstPrompt", "firstCurl", "firstPop", "decide", "secondPrompt",
                      "secondCurl", "secondPop"} => chat[l].model = "mcp"

(* As long as no two calls overlapped, the model that is called is the one *)
(* the request names, whatever was asked before.                           *)
THEOREM QuietChatsCallTheirModel == Spec => []QuietChatCallsItsModel
<1>1. Init => StrategyInv
  BY DEF Init, StrategyInv
<1>2. Typed /\ OneInQuiet /\ StrategyInv /\ [Next]_vars => StrategyInv'
  <2> SUFFICES ASSUME Typed, OneInQuiet, StrategyInv, [Next]_vars PROVE StrategyInv'
    OBVIOUS
  <2>1. ASSUME NEW l \in Loops, NEW i \in Ids, NEW m \in Models, Enter(l, i, m) PROVE StrategyInv'
    <3>1. /\ pc'[l] = "strategy" /\ UNCHANGED strategy /\ overlapped \subseteq overlapped'
          /\ \A k \in Loops \ {l} : chat'[k] = chat[k] /\ pc'[k] = pc[k]
      BY <2>1 DEF Enter, Goto, helperVars, Typed
    <3> QED
      BY <3>1 DEF StrategyInv
  <2>2. ASSUME NEW l \in Loops, Work(l) PROVE StrategyInv'
    <3>1. /\ pc[l] # "idle" /\ pc'[l] # "strategy" /\ UNCHANGED <<chat, overlapped>>
          /\ \A k \in Loops \ {l} : pc'[k] = pc[k]
          /\ \A i \in Ids \ {chat[l].id} : strategy'[i] = strategy[i]
      BY <2>2, WorkIsLocal
    <3>2. /\ strategy \in [Ids -> Models] /\ chat[l].id \in Ids
          /\ pc \in [Loops -> PC] /\ \A k \in Loops : chat[k].id \in Ids /\ chat[k].model \in Models
      BY DEF Typed
    <3> DEFINE Holding(k) ==
          chat[k].id \notin overlapped =>
            /\ pc'[k] \notin {"idle", "strategy"} => strategy'[chat[k].id] = chat[k].model
            /\ pc'[k] \notin {"idle", "strategy"} => chat[k].model # "unknown"
            /\ pc'[k] \in {"ask", "curl"} => chat[k].model = "plain"
            /\ pc'[k] \in {"firstPrompt", "firstCurl", "firstPop", "decide", "secondPrompt",
                          "secondCurl", "secondPop"} => chat[k].model = "mcp"
    <3>3. ASSUME NEW k \in Loops, k # l PROVE Holding(k)
      <4>1. CASE pc[k] = "idle" \/ chat[k].id # chat[l].id
        BY <3>1, <3>2, <3>3, <4>1 DEF StrategyInv
      <4>2. CASE pc[k] # "idle" /\ chat[k].id = chat[l].id
        BY <3>1, <3>3, <4>2 DEF OneInQuiet
      <4> QED
        BY <4>1, <4>2
    <3>4. Holding(l)
      <4>1. CASE UnknownModel(l) \/ CurlFails(l) \/ AddAnswer(l)
        <5>1. pc'[l] = "idle"
          BY <3>2, <4>1 DEF UnknownModel, CurlFails, AddAnswer, Throw, Goto
        <5> QED
          BY <5>1
      <4>2. CASE SetStrategy(l)
        <5>1. pc'[l] = "branch" /\ strategy'[chat[l].id] = chat[l].model /\ chat[l].model # "unknown"
          BY <3>2, <4>2 DEF SetStrategy, Step, Goto
        <5> QED
          BY <5>1
      <4>3. CASE Branch(l)
        <5>1. /\ pc'[l] = IF strategy[chat[l].id] = "mcp" THEN "firstPrompt" ELSE "ask"
              /\ pc[l] = "branch" /\ strategy' = strategy
          BY <3>2, <4>3 DEF Branch, Step, Goto, helperVars
        <5>2. chat[l].id \notin overlapped =>
                strategy[chat[l].id] = chat[l].model /\ chat[l].model \in {"plain", "mcp"}
          BY <3>2, <5>1 DEF StrategyInv, Models
        <5>3. CASE strategy[chat[l].id] = "mcp"
          BY <5>1, <5>2, <5>3
        <5>4. CASE strategy[chat[l].id] # "mcp"
          BY <5>1, <5>2, <5>4
        <5> QED
          BY <5>3, <5>4
      <4>4. CASE Ask(l) \/ AddUser(l)
        <5>1. /\ \/ pc[l] = "ask" /\ pc'[l] = "curl"
                 \/ pc[l] = "addUser" /\ pc'[l] = "addAnswer"
              /\ strategy' = strategy
          BY <3>2, <4>4 DEF Ask, AddUser, AddMessage, Step, Goto
        <5> QED
          BY <5>1 DEF StrategyInv
      <4>5. CASE Curl(l) \/ FirstCurl(l) \/ SecondCurl(l) \/ NoTool(l) \/ UseTool(l)
        <5>1. /\ strategy' = strategy
              /\ \/ pc[l] = "curl" /\ pc'[l] = "addAnswer"
                 \/ pc[l] = "firstCurl" /\ pc'[l] = "firstPop"
                 \/ pc[l] = "secondCurl" /\ pc'[l] = "secondPop"
                 \/ pc[l] = "decide" /\ pc'[l] = "addUser"
                 \/ pc[l] = "decide" /\ pc'[l] = "secondPrompt"
          BY <3>2, <4>5 DEF Curl, FirstCurl, SecondCurl, NoTool, UseTool, Called, Step, Goto, helperVars
        <5> QED
          BY <5>1 DEF StrategyInv
      <4>6. CASE FirstPrompt(l) \/ SecondPrompt(l) \/ FirstPop(l) \/ SecondPop(l)
        <5>1. /\ strategy' = strategy
              /\ \/ pc[l] = "firstPrompt" /\ pc'[l] = "firstCurl"
                 \/ pc[l] = "secondPrompt" /\ pc'[l] = "secondCurl"
                 \/ pc[l] = "firstPop" /\ pc'[l] = "decide"
                 \/ pc[l] = "secondPop" /\ pc'[l] = "addUser"
          BY <3>2, <4>6 DEF FirstPrompt, SecondPrompt, PushPrompt, FirstPop, SecondPop, PopPrompt,
             Step, Goto
        <5> QED
          BY <5>1 DEF StrategyInv
      <4> QED
        BY <2>2, <4>1, <4>2, <4>3, <4>4, <4>5, <4>6 DEF Work
    <3> QED
      BY <3>1, <3>3, <3>4 DEF StrategyInv
  <2>3. ASSUME NEW l \in Loops, NEW i \in Ids, History(l, i) PROVE StrategyInv'
    BY <2>3 DEF History, StrategyInv, helperVars
  <2>4. CASE UNCHANGED vars
    BY <2>4 DEF vars, StrategyInv, helperVars
  <2> QED
    BY <2>1, <2>2, <2>3, <2>4, NextCases
<1>3. StrategyInv => QuietChatCallsItsModel
  BY DEF StrategyInv, QuietChatCallsItsModel
<1> QED
  BY <1>1, <1>2, <1>3, TypeCorrect, OverlapsAreSeen, PTL DEF Spec

(***************************************************************************)
(* The labels of a quiet conversation                                      *)
(***************************************************************************)
Paired(s) == Alternates(s) /\ Len(s) % 2 = 0
Asked(s)  == Alternates(s) /\ Len(s) % 2 = 1

(* What a loop at p has made of the conversation so far. *)
Fits(p, s) ==
    /\ p \in {"curl", "addAnswer"} => Asked(s)
    /\ p \in PromptPCs => s # <<>> /\ Paired(Front(s))
    /\ p \notin {"curl", "addAnswer"} \cup PromptPCs => Paired(s)

ContentInv ==
    \A i \in Ids \ (overlapped \cup failed) :
        /\ In(i) = {} => Paired(messages[i])
        /\ \A l \in In(i) : Fits(pc[l], messages[i])

(* A question makes a paired history an asked one, its answer makes it     *)
(* paired again, and a prompt on top of a paired one is all that is        *)
(* popped.                                                                 *)
LEMMA PairsGrow ==
    ASSUME NEW s \in Seq(Message), NEW t
    PROVE  /\ t \in Turns /\ Paired(s) => Asked(Append(s, User(t)))
           /\ t \in Turns /\ Asked(s) => Paired(Append(s, Ai(t)))
           /\ t \in Turns /\ Paired(s) =>
                Append(s, Prompt(t)) # <<>> /\ Paired(Front(Append(s, Prompt(t))))
<1>1. Len(s) \in Nat
  OBVIOUS
<1>2. ASSUME NEW x \in Message, Alternates(s), x.by = Role(Len(s) + 1)
      PROVE  Alternates(Append(s, x)) /\ Len(Append(s, x)) = Len(s) + 1
  <2>1. /\ Len(Append(s, x)) = Len(s) + 1 /\ Append(s, x)[Len(s) + 1] = x
        /\ \A k \in 1..Len(s) : Append(s, x)[k] = s[k]
    BY AppendOf
  <2>2. \A k \in 1..(Len(s) + 1) : k \in 1..Len(s) \/ k = Len(s) + 1
    BY <1>1
  <2> QED
    BY <1>2, <2>1, <2>2 DEF Alternates
<1>3. ASSUME t \in Turns, Paired(s) PROVE Asked(Append(s, User(t)))
  <2>1. (Len(s) + 1) % 2 = 1
    BY <1>1, <1>3 DEF Paired
  <2>2. User(t) \in Message /\ User(t).by = Role(Len(s) + 1)
    BY <1>3, <2>1, MessagesOf DEF User, Role
  <2> QED
    BY <1>2, <1>3, <2>1, <2>2 DEF Paired, Asked
<1>4. ASSUME t \in Turns, Asked(s) PROVE Paired(Append(s, Ai(t)))
  <2>1. (Len(s) + 1) % 2 = 0
    BY <1>1, <1>4 DEF Asked
  <2>2. Ai(t) \in Message /\ Ai(t).by = Role(Len(s) + 1)
    BY <1>4, <2>1, MessagesOf DEF Ai, Role
  <2> QED
    BY <1>2, <1>4, <2>1, <2>2 DEF Paired, Asked
<1>5. ASSUME t \in Turns, Paired(s)
      PROVE  Append(s, Prompt(t)) # <<>> /\ Paired(Front(Append(s, Prompt(t))))
  <2>1. Prompt(t) \in Message
    BY <1>5, MessagesOf
  <2> QED
    BY <1>5, <2>1, AppendOf, FrontOfAppend
<1> QED
  BY <1>3, <1>4, <1>5

(* One step of chat() in a conversation that it has for itself. *)
LEMMA WorkFits ==
    ASSUME Typed, NEW l \in Loops, Work(l), Fits(pc[l], messages[chat[l].id])
    PROVE  \/ Fits(pc'[l], messages'[chat[l].id])
           \/ chat[l].id \in failed' /\ pc'[l] = "idle"
<1> DEFINE i == chat[l].id
           t == chat[l].turn
<1>0. /\ i \in Ids /\ messages[i] \in Seq(Message) /\ messages \in [Ids -> Seq(Message)]
      /\ pc \in [Loops -> PC]
  BY DEF Typed
<1>00. pc[l] # "idle" => t \in Turns
  <2>1. MaxChats \in Nat
    BY ConstantsAssumption
  <2> QED
    BY <2>1 DEF Typed, Turns
<1>1. CASE UnknownModel(l) \/ SetStrategy(l) \/ Branch(l)
  <2>1. /\ pc[l] \in {"strategy", "branch"} /\ messages' = messages
        /\ pc'[l] \in {"idle", "branch", "firstPrompt", "ask"}
    BY <1>0, <1>1 DEF UnknownModel, SetStrategy, Branch, Step, Goto, helperVars
  <2> QED
    BY <2>1 DEF Fits, PromptPCs
<1>2. CASE Curl(l) \/ FirstCurl(l) \/ SecondCurl(l) \/ NoTool(l) \/ UseTool(l)
  <2>1. /\ messages' = messages
        /\ \/ pc[l] = "curl" /\ pc'[l] = "addAnswer"
           \/ pc[l] = "firstCurl" /\ pc'[l] = "firstPop"
           \/ pc[l] = "secondCurl" /\ pc'[l] = "secondPop"
           \/ pc[l] = "decide" /\ pc'[l] \in {"addUser", "secondPrompt"}
    BY <1>0, <1>2 DEF Curl, FirstCurl, SecondCurl, NoTool, UseTool, Called, Step, Goto, helperVars
  <2> QED
    BY <2>1 DEF Fits, PromptPCs
<1>3. CASE CurlFails(l)
  BY <1>0, <1>3 DEF CurlFails, Throw, Goto
<1>4. CASE Ask(l) \/ AddUser(l)
  <2>1. /\ messages'[i] = Append(messages[i], User(t))
        /\ pc[l] \in {"ask", "addUser"} /\ pc'[l] \in {"curl", "addAnswer"}
    BY <1>0, <1>4 DEF Ask, AddUser, AddMessage, Step, Goto
  <2>2. Paired(messages[i]) /\ t \in Turns
    BY <1>00, <2>1 DEF Fits, PromptPCs
  <2>3. Asked(messages'[i])
    BY <1>0, <2>1, <2>2, PairsGrow
  <2> QED
    BY <2>1, <2>3 DEF Fits, PromptPCs
<1>5. CASE AddAnswer(l)
  <2>1. /\ messages'[i] = Append(messages[i], Ai(t))
        /\ pc[l] = "addAnswer" /\ pc'[l] = "idle"
    BY <1>0, <1>5 DEF AddAnswer, AddMessage, Step, Goto
  <2>2. Asked(messages[i]) /\ t \in Turns
    BY <1>00, <2>1 DEF Fits
  <2>3. Paired(messages'[i])
    BY <1>0, <2>1, <2>2, PairsGrow
  <2> QED
    BY <2>1, <2>3 DEF Fits, PromptPCs
<1>6. CASE FirstPrompt(l) \/ SecondPrompt(l)
  <2>1. /\ messages'[i] = Append(messages[i], Prompt(t))
        /\ pc[l] \in {"firstPrompt", "secondPrompt"} /\ pc'[l] \in {"firstCurl", "secondCurl"}
    BY <1>0, <1>6 DEF FirstPrompt, SecondPrompt, PushPrompt, Step, Goto
  <2>2. Paired(messages[i]) /\ t \in Turns
    BY <1>00, <2>1 DEF Fits, PromptPCs
  <2>3. messages'[i] # <<>> /\ Paired(Front(messages'[i]))
    BY <1>0, <2>1, <2>2, PairsGrow
  <2> QED
    BY <2>1, <2>3 DEF Fits, PromptPCs
<1>7. CASE FirstPop(l) \/ SecondPop(l)
  <2>1. /\ messages'[i] = Front(messages[i])
        /\ pc[l] \in {"firstPop", "secondPop"} /\ pc'[l] \in {"decide", "addUser"}
    BY <1>0, <1>7 DEF FirstPop, SecondPop, PopPrompt, Step, Goto
  <2> QED
    BY <2>1 DEF Fits, PromptPCs
<1> QED
  BY <1>1, <1>2, <1>3, <1>4, <1>5, <1>6, <1>7 DEF Work

(* The prompts pushed are popped again, a question is followed by its      *)
(* answer: the index gives the writer of every message, unless a call      *)
(* failed or two overlapped.                                               *)
THEOREM QuietConversationsAlternate == Spec => []QuietConversationAlternates
<1>1. Init => ContentInv
  <2> SUFFICES ASSUME Init, NEW i \in Ids
               PROVE  Paired(messages[i]) /\ In(i) = {}
    BY DEF ContentInv
  <2>1. messages[i] = <<>> /\ In(i) = {}
    BY DEF Init, In
  <2>2. Len(messages[i]) = 0
    BY <2>1
  <2> QED
    BY <2>1, <2>2 DEF Paired, Alternates
<1>2. Typed /\ OneInQuiet /\ ContentInv /\ [Next]_vars => ContentInv'
  <2> SUFFICES ASSUME Typed, OneInQuiet, ContentInv, [Next]_vars PROVE ContentInv'
    OBVIOUS
  <2>1. ASSUME NEW l \in Loops, NEW i \in Ids, NEW m \in Models, Enter(l, i, m) PROVE ContentInv'
    <3>1. /\ pc[l] = "idle" /\ pc' = [pc EXCEPT ![l] = "strategy"]
          /\ chat' = [chat EXCEPT ![l] = [id |-> i, turn |-> asked + 1, model |-> m]]
          /\ overlapped' = IF In(i) = {} THEN overlapped ELSE overlapped \cup {i}
          /\ UNCHANGED <<messages, failed>>
      BY <2>1 DEF Enter, Goto, helperVars
    <3>2. /\ pc'[l] = "strategy" /\ chat'[l].id = i
          /\ \A k \in Loops \ {l} : chat'[k] = chat[k] /\ pc'[k] = pc[k]
      BY <3>1 DEF Typed
    <3>3. /\ In(i)' = In(i) \cup {l}
          /\ \A j \in Ids \ {i} : In(j)' = In(j)
      BY <3>1, <3>2 DEF In
    <3>4. ASSUME NEW j \in Ids, j \notin overlapped' \cup failed'
          PROVE  /\ In(j)' = {} => Paired(messages'[j])
                 /\ \A k \in In(j)' : Fits(pc'[k], messages'[j])
      <4>1. CASE j = i
        <5>1. In(i) = {} /\ i \notin overlapped \cup failed
          BY <3>1, <3>4, <4>1
        <5>2. Paired(messages[i])
          BY <5>1 DEF ContentInv
        <5> QED
          BY <3>1, <3>2, <3>3, <4>1, <5>1, <5>2 DEF Fits, PromptPCs
      <4>2. CASE j # i
        <5>1. j \notin overlapped \cup failed
          BY <3>1, <3>4
        <5>2. \A k \in In(j) : k # l
          BY <3>1 DEF In
        <5>3. In(j) \subseteq Loops
          BY DEF In
        <5> QED
          BY <3>1, <3>2, <3>3, <4>2, <5>1, <5>2, <5>3 DEF ContentInv
      <4> QED
        BY <4>1, <4>2
    <3> QED
      BY <3>4 DEF ContentInv
  <2>2. ASSUME NEW l \in Loops, Work(l) PROVE ContentInv'
    <3>1. /\ pc[l] # "idle" /\ UNCHANGED <<chat, overlapped>>
          /\ \A k \in Loops \ {l} : pc'[k] = pc[k]
          /\ \A i \in Ids \ {chat[l].id} : messages'[i] = messages[i]
          /\ failed \subseteq failed'
      BY <2>2, WorkIsLocal
    <3>2. chat[l].id \in Ids /\ \A j : In(j) \subseteq Loops /\ In(j)' \subseteq Loops
      BY DEF Typed, In
    <3>3. ASSUME NEW j \in Ids, j \notin overlapped' \cup failed'
          PROVE  /\ In(j)' = {} => Paired(messages'[j])
                 /\ \A k \in In(j)' : Fits(pc'[k], messages'[j])
      <4>0. j \notin overlapped \cup failed
        BY <3>1, <3>3
      <4>1. CASE j = chat[l].id
        <5>1. In(j) = {l} /\ In(j)' \subseteq {l} /\ (In(j)' = {} => pc'[l] = "idle")
          BY <3>1, <4>0, <4>1 DEF In, OneInQuiet
        <5>2. Fits(pc[l], messages[chat[l].id])
          BY <4>0, <4>1, <5>1 DEF ContentInv
        <5>3. Fits(pc'[l], messages'[chat[l].id])
          BY <2>2, <3>3, <4>1, <5>2, WorkFits
        <5>4. pc'[l] = "idle" => Paired(messages'[j])
          BY <4>1, <5>3 DEF Fits, PromptPCs
        <5> QED
          BY <4>1, <5>1, <5>3, <5>4
      <4>2. CASE j # chat[l].id
        <5>1. In(j)' = In(j) /\ l \notin In(j)
          BY <3>1, <4>2 DEF In
        <5> QED
          BY <3>1, <3>2, <4>0, <4>2, <5>1 DEF ContentInv
      <4> QED
        BY <4>1, <4>2
    <3> QED
      BY <3>3 DEF ContentInv
  <2>3. ASSUME NEW l \in Loops, NEW i \in Ids, History(l, i) PROVE ContentInv'
    BY <2>3 DEF History, ContentInv, helperVars, In
  <2>4. CASE UNCHANGED vars
    BY <2>4 DEF vars, ContentInv, helperVars, In
  <2> QED
    BY <2>1, <2>2, <2>3, <2>4, NextCases
<1>3. ContentInv => QuietConversationAlternates
  BY DEF ContentInv, QuietConversationAlternates, Paired
<1> QED
  BY <1>1, <1>2, <1>3, TypeCorrect, OverlapsAreSeen, PTL DEF Spec

(***************************************************************************)
(* The rows of a question                                                  *)
(***************************************************************************)
Fresh(t) == \A i \in Ids : RowsOf(i, User(t)) = {} /\ RowsOf(i, Ai(t)) = {}

HasQuestion(t, i) ==
    /\ \E q \in 1..Len(published[i]) : RowsOf(i, User(t)) = {q}
    /\ \A j \in Ids : RowsOf(j, Ai(t)) = {}

HasBoth(t) ==
    \E i \in Ids : \E q, a \in 1..Len(published[i]) :
        RowsOf(i, User(t)) = {q} /\ RowsOf(i, Ai(t)) = {a} /\ q < a

(* What one more published row changes about the rows of question t: its   *)
(* own row makes it a question that is published, its answer completes it, *)
(* and any other row leaves it as it was.                                  *)
LEMMA RowsOfAppend ==
    ASSUME Typed, NEW c \in Ids, NEW x \in Message,
           published' = [published EXCEPT ![c] = Append(@, x)], NEW t
    PROVE  /\ x # User(t) /\ x # Ai(t) =>
                /\ Fresh(t) => Fresh(t)'
                /\ \A i \in Ids : HasQuestion(t, i) => HasQuestion(t, i)'
                /\ HasBoth(t) => HasBoth(t)'
           /\ x = User(t) /\ Fresh(t) => HasQuestion(t, c)'
           /\ x = Ai(t) /\ HasQuestion(t, c) => HasBoth(t)'
           /\ (\A i \in Ids : \A k \in 1..Len(published[i]) : published[i][k].by # "prompt")
                /\ x.by # "prompt" =>
                \A i \in Ids : \A k \in 1..Len(published'[i]) : published'[i][k].by # "prompt"
<1> DEFINE n(i) == Len(published[i])
<1>1. \A i \in Ids : n(i) \in Nat /\ published[i] \in Seq(Message)
  BY DEF Typed
<1>2. \A i \in Ids : published'[i] = IF i = c THEN Append(published[i], x) ELSE published[i]
  BY DEF Typed
<1>3. /\ Len(published'[c]) = n(c) + 1 /\ published'[c][n(c) + 1] = x
      /\ \A k \in 1..n(c) : published'[c][k] = published[c][k]
  <2> DEFINE p == published[c]
  <2>1. p \in Seq(Message) /\ published'[c] = Append(p, x) /\ n(c) = Len(p)
    BY <1>1, <1>2
  <2> HIDE DEF p, n
  <2>2. /\ Len(Append(p, x)) = Len(p) + 1 /\ Append(p, x)[Len(p) + 1] = x
        /\ \A k \in 1..Len(p) : Append(p, x)[k] = p[k]
    BY <2>1, AppendOf
  <2> QED
    BY <2>1, <2>2 DEF p
<1>4. \A i \in Ids : 1..n(i) \subseteq 1..Len(published'[i])
  BY <1>1, <1>2, <1>3
<1>5. \A k : k \in 1..(n(c) + 1) <=> k \in 1..n(c) \/ k = n(c) + 1
  BY <1>1
<1>6. ASSUME NEW i \in Ids, NEW m
      PROVE  /\ RowsOf(i, m) \subseteq 1..n(i)
             /\ (i # c \/ m # x) => RowsOf(i, m)' = RowsOf(i, m)
             /\ (i = c /\ m = x) => RowsOf(i, m)' = RowsOf(i, m) \cup {n(c) + 1}
  <2>1. CASE i # c
    BY <1>2, <2>1 DEF RowsOf
  <2>2. CASE i = c
    <3>1. /\ RowsOf(c, m)' = {k \in 1..(n(c) + 1) : published'[c][k] = m}
          /\ RowsOf(c, m) = {k \in 1..n(c) : published[c][k] = m}
      BY <1>3 DEF RowsOf
    <3> QED
      BY <1>3, <1>5, <2>2, <3>1
  <2> QED
    BY <2>1, <2>2
<1>7. User(t) # Ai(t)
  BY DEF User, Ai
<1> DEFINE U == User(t)
           A == Ai(t)
<1>8. U' = U /\ A' = A /\ U # A
  BY <1>7 DEF User, Ai
<1>9. ASSUME x # U, x # A
      PROVE  /\ Fresh(t) => Fresh(t)'
             /\ \A i \in Ids : HasQuestion(t, i) => HasQuestion(t, i)'
             /\ HasBoth(t) => HasBoth(t)'
  <2>1. \A i \in Ids : RowsOf(i, U)' = RowsOf(i, U) /\ RowsOf(i, A)' = RowsOf(i, A)
    BY <1>6, <1>9
  <2>2. Fresh(t) => Fresh(t)'
    BY <1>8, <2>1 DEF Fresh
  <2>3. \A i \in Ids : HasQuestion(t, i) => HasQuestion(t, i)'
    BY <1>4, <1>8, <2>1 DEF HasQuestion
  <2>4. HasBoth(t) => HasBoth(t)'
    BY <1>4, <1>8, <2>1 DEF HasBoth
  <2> QED
    BY <2>2, <2>3, <2>4
<1>10. ASSUME x = U, Fresh(t) PROVE HasQuestion(t, c)'
  <2>1. RowsOf(c, U)' = {n(c) + 1} /\ n(c) + 1 \in 1..Len(published'[c])
    BY <1>1, <1>3, <1>6, <1>10 DEF Fresh
  <2>2. \A j \in Ids : RowsOf(j, A)' = {}
    BY <1>6, <1>8, <1>10 DEF Fresh
  <2> QED
    BY <1>8, <2>1, <2>2 DEF HasQuestion
<1>11. ASSUME x = A, HasQuestion(t, c) PROVE HasBoth(t)'
  <2>1. PICK q \in 1..n(c) : RowsOf(c, U) = {q}
    BY <1>11 DEF HasQuestion
  <2>2. RowsOf(c, U)' = {q} /\ RowsOf(c, A)' = {n(c) + 1}
    BY <1>6, <1>8, <1>11, <2>1 DEF HasQuestion
  <2>3. q \in 1..Len(published'[c]) /\ n(c) + 1 \in 1..Len(published'[c]) /\ q < n(c) + 1
    BY <1>1, <1>3, <2>1
  <2> QED
    BY <1>8, <2>2, <2>3 DEF HasBoth
<1>12. ASSUME \A i \in Ids : \A k \in 1..Len(published[i]) : published[i][k].by # "prompt",
              x.by # "prompt", NEW i \in Ids, NEW k \in 1..Len(published'[i])
       PROVE  published'[i][k].by # "prompt"
  BY <1>2, <1>3, <1>5, <1>12
<1> QED
  BY <1>9, <1>10, <1>11, <1>12

(* No question is served twice. *)
TurnsInv ==
    /\ \A l, m \in Loops :
          l # m /\ pc[l] # "idle" /\ pc[m] # "idle" => chat[l].turn # chat[m].turn
    /\ \A l \in Loops : pc[l] # "idle" => chat[l].turn \notin answered
    /\ answered \subseteq 1..asked

RowsInv ==
    /\ \A i \in Ids : \A k \in 1..Len(published[i]) : published[i][k].by # "prompt"
    /\ \A t \in Turns : t > asked => Fresh(t)
    /\ \A l \in Loops, t \in Turns, i \in Ids :
          pc[l] # "idle" /\ chat[l].turn = t /\ chat[l].id = i =>
             IF pc[l] \in {"curl", "addAnswer"} THEN HasQuestion(t, i) ELSE Fresh(t)
    /\ \A t \in answered : HasBoth(t)

(* A question is with one loop, and with none once it is answered. *)
LEMMA TurnsAreOwned == Spec => []TurnsInv
<1>1. Init => TurnsInv
  BY DEF Init, TurnsInv
<1>2. Typed /\ TurnsInv /\ [Next]_vars => TurnsInv'
  <2> SUFFICES ASSUME Typed, TurnsInv, [Next]_vars PROVE TurnsInv'
    OBVIOUS
  <2>0. asked \in Nat /\ \A l \in Loops : pc[l] # "idle" => chat[l].turn \in 1..asked
    BY ConstantsAssumption DEF Typed
  <2>1. ASSUME NEW l \in Loops, NEW i \in Ids, NEW m \in Models, Enter(l, i, m) PROVE TurnsInv'
    <3>1. /\ pc[l] = "idle" /\ asked' = asked + 1 /\ answered' = answered
          /\ chat'[l].turn = asked + 1
          /\ \A k \in Loops \ {l} : chat'[k] = chat[k] /\ pc'[k] = pc[k]
      BY <2>1 DEF Enter, Goto, Typed
    <3>2. asked + 1 \notin 1..asked /\ 1..asked \subseteq 1..(asked + 1)
      BY <2>0
    <3> QED
      BY <2>0, <3>1, <3>2 DEF TurnsInv
  <2>2. ASSUME NEW l \in Loops, Work(l) PROVE TurnsInv'
    <3>1. /\ pc[l] # "idle" /\ UNCHANGED <<chat, asked>>
          /\ \A k \in Loops \ {l} : pc'[k] = pc[k]
      BY <2>2, WorkIsLocal
    <3>2. \/ answered' = answered
          \/ answered' = answered \cup {chat[l].turn} /\ pc'[l] = "idle"
      <4>1. CASE AddAnswer(l)
        BY <4>1 DEF AddAnswer, Goto, Typed
      <4>2. CASE ~AddAnswer(l)
        BY <2>2, <4>2 DEF Work, UnknownModel, SetStrategy, Branch, Ask, Curl, FirstCurl, SecondCurl,
           CurlFails, FirstPrompt, SecondPrompt, FirstPop, SecondPop, NoTool, UseTool, AddUser,
           Throw, Called, PushPrompt, PopPrompt, Step
      <4> QED
        BY <4>1, <4>2
    <3> QED
      BY <2>0, <3>1, <3>2 DEF TurnsInv
  <2>3. ASSUME NEW l \in Loops, NEW i \in Ids, History(l, i) PROVE TurnsInv'
    BY <2>3 DEF History, TurnsInv
  <2>4. CASE UNCHANGED vars
    BY <2>4 DEF vars, TurnsInv
  <2> QED
    BY <2>1, <2>2, <2>3, <2>4, NextCases
<1> QED
  BY <1>1, <1>2, TypeCorrect, PTL DEF Spec

(* Steps of chat() that publish nothing. *)
Silent(l) ==
    /\ published' = published /\ answered' = answered
    /\ pc'[l] # "idle" => (pc[l] \in {"curl", "addAnswer"} <=> pc'[l] \in {"curl", "addAnswer"})

(* Inside chat(), only the question and its answer are published, in this  *)
(* order.                                                                  *)
LEMMA WorkPublishes ==
    ASSUME Typed, NEW l \in Loops, Work(l)
    PROVE  \/ Silent(l)
           \/ /\ Ask(l) \/ AddUser(l)
              /\ published' = [published EXCEPT ![chat[l].id] = Append(@, User(chat[l].turn))]
              /\ pc[l] \notin {"curl", "addAnswer"} /\ pc'[l] \in {"curl", "addAnswer"}
              /\ answered' = answered
           \/ /\ AddAnswer(l)
              /\ published' = [published EXCEPT ![chat[l].id] = Append(@, Ai(chat[l].turn))]
              /\ pc[l] = "addAnswer" /\ pc'[l] = "idle"
              /\ answered' = answered \cup {chat[l].turn}
<1>0. pc \in [Loops -> PC]
  BY DEF Typed
<1>1. CASE UnknownModel(l) \/ SetStrategy(l) \/ Branch(l) \/ CurlFails(l)
  BY <1>0, <1>1 DEF UnknownModel, SetStrategy, Branch, CurlFails, Throw, Step, Goto, helperVars, Silent
<1>2. CASE Curl(l) \/ FirstCurl(l) \/ SecondCurl(l) \/ NoTool(l) \/ UseTool(l)
  BY <1>0, <1>2 DEF Curl, FirstCurl, SecondCurl, NoTool, UseTool, Called, Step, Goto, helperVars, Silent
<1>3. CASE FirstPrompt(l) \/ SecondPrompt(l) \/ FirstPop(l) \/ SecondPop(l)
  BY <1>0, <1>3 DEF FirstPrompt, SecondPrompt, PushPrompt, FirstPop, SecondPop, PopPrompt, Step, Goto,
     Silent
<1>4. CASE Ask(l) \/ AddUser(l)
  BY <1>0, <1>4 DEF Ask, AddUser, AddMessage, Step, Goto
<1>5. CASE AddAnswer(l)
  BY <1>0, <1>5 DEF AddAnswer, AddMessage, Goto
<1> QED
  BY <1>1, <1>2, <1>3, <1>4, <1>5 DEF Work

(* At every point of every request it is known which of its rows are       *)
(* published.                                                              *)
LEMMA RowsAreCounted == Spec => []RowsInv
<1>0. MaxChats \in Nat
  BY ConstantsAssumption
<1>1. Init => RowsInv
  <2> SUFFICES ASSUME Init PROVE RowsInv
    OBVIOUS
  <2>1. \A i \in Ids : published[i] = <<>> /\ \A k : k \notin 1..Len(published[i])
    BY DEF Init
  <2>2. \A i \in Ids : \A m : RowsOf(i, m) = {}
    BY <2>1 DEF RowsOf
  <2> QED
    BY <2>1, <2>2 DEF Init, RowsInv, Fresh
<1>2. Typed /\ TurnsInv /\ RowsInv /\ [Next]_vars => RowsInv'
  <2> SUFFICES ASSUME Typed, TurnsInv, RowsInv, [Next]_vars PROVE RowsInv'
    OBVIOUS
  <2>0. /\ asked \in Nat /\ 1..asked \subseteq Turns
        /\ \A l \in Loops : pc[l] # "idle" => chat[l].turn \in 1..asked /\ chat[l].turn \in Turns
        /\ \A t \in 1..asked : ~(t > asked)
    BY <1>0 DEF Typed, Turns
  <2>00. ASSUME published' = published, NEW t
         PROVE  /\ Fresh(t)' <=> Fresh(t)
                /\ HasBoth(t)' <=> HasBoth(t)
                /\ \A i : HasQuestion(t, i)' <=> HasQuestion(t, i)
    BY <2>00 DEF Fresh, HasBoth, HasQuestion, RowsOf, User, Ai
  <2>1. ASSUME NEW l \in Loops, NEW i \in Ids, NEW m \in Models, Enter(l, i, m) PROVE RowsInv'
    <3>1. /\ pc[l] = "idle" /\ asked' = asked + 1 /\ answered' = answered /\ published' = published
          /\ chat'[l].turn = asked + 1 /\ pc'[l] = "strategy"
          /\ \A k \in Loops \ {l} : chat'[k] = chat[k] /\ pc'[k] = pc[k]
      BY <2>1 DEF Enter, Goto, Typed, helperVars
    <3>2. \A t \in Turns : t > asked' => t > asked
      BY <2>0, <3>1 DEF Turns
    <3>3. \A t \in Turns : t = asked + 1 => t > asked
      BY <2>0
    <3>4. \A t \in Turns : t > asked' => Fresh(t)'
      BY <2>00, <3>1, <3>2 DEF RowsInv
    <3>5. ASSUME NEW k \in Loops, NEW t \in Turns, NEW j \in Ids,
                 pc'[k] # "idle", chat'[k].turn = t, chat'[k].id = j
          PROVE  IF pc'[k] \in {"curl", "addAnswer"} THEN HasQuestion(t, j)' ELSE Fresh(t)'
      <4>1. CASE k = l
        BY <2>00, <3>1, <3>3, <3>5, <4>1 DEF RowsInv
      <4>2. CASE k # l
        BY <2>00, <3>1, <3>5, <4>2 DEF RowsInv
      <4> QED
        BY <4>1, <4>2
    <3>6. \A t \in answered' : HasBoth(t)'
      BY <2>00, <3>1 DEF RowsInv
    <3> QED
      BY <3>1, <3>4, <3>5, <3>6 DEF RowsInv
  <2>2. ASSUME NEW l \in Loops, Work(l) PROVE RowsInv'
    <3>1. /\ pc[l] # "idle" /\ UNCHANGED <<chat, asked>>
          /\ \A k \in Loops \ {l} : pc'[k] = pc[k]
      BY <2>2, WorkIsLocal
    <3>2. CASE Silent(l)
      <4>1. ASSUME NEW k \in Loops, NEW t \in Turns, NEW j \in Ids,
                 pc'[k] # "idle", chat'[k].turn = t, chat'[k].id = j
            PROVE  IF pc'[k] \in {"curl", "addAnswer"} THEN HasQuestion(t, j)' ELSE Fresh(t)'
        <5>1. pc[k] # "idle" /\ chat[k].turn = t /\ chat[k].id = j
          BY <3>1, <4>1
        <5>2. IF pc[k] \in {"curl", "addAnswer"} THEN HasQuestion(t, j) ELSE Fresh(t)
          BY <5>1 DEF RowsInv
        <5>3. pc'[k] \in {"curl", "addAnswer"} <=> pc[k] \in {"curl", "addAnswer"}
          BY <3>1, <3>2, <4>1 DEF Silent
        <5> QED
          BY <2>00, <3>2, <5>2, <5>3 DEF Silent
      <4>2. published' = published /\ answered' = answered
        BY <3>2 DEF Silent
      <4> QED
        BY <2>00, <3>1, <4>1, <4>2 DEF RowsInv
    <3>3. /\ \E u \in Turns : u = chat[l].turn
          /\ \E c \in Ids : c = chat[l].id
      BY <2>0, <3>1 DEF Typed
    <3> PICK u \in Turns, c \in Ids : u = chat[l].turn /\ c = chat[l].id
      BY <3>3
    <3>4. /\ User(u) \in Message /\ Ai(u) \in Message
          /\ User(u).by # "prompt" /\ Ai(u).by # "prompt"
          /\ \A t : t # u => User(u) # User(t) /\ User(u) # Ai(t) /\ Ai(u) # User(t) /\ Ai(u) # Ai(t)
      BY MessagesOf DEF User, Ai
    <3>5. u \notin answered /\ u \in 1..asked /\ \A k \in Loops \ {l} : pc[k] # "idle" => chat[k].turn # u
      BY <2>0, <3>1, <3>3 DEF TurnsInv
    <3>6. ASSUME NEW x \in {User(u), Ai(u)}, published' = [published EXCEPT ![c] = Append(@, x)],
                 answered' = answered \/ answered' = answered \cup {u}, u \in answered' => HasBoth(u)',
                 pc'[l] # "idle" => pc'[l] \in {"curl", "addAnswer"} /\ HasQuestion(u, c)'
          PROVE  RowsInv'
      <4>0. x \in Message /\ x.by # "prompt" /\ \A t : t # u => x # User(t) /\ x # Ai(t)
        BY <3>4
      <4>1. \A i \in Ids : \A k \in 1..Len(published'[i]) : published'[i][k].by # "prompt"
        BY <3>4, <3>6, <4>0, RowsOfAppend DEF RowsInv
      <4>2. ASSUME NEW t \in Turns, t # u
            PROVE  /\ Fresh(t) => Fresh(t)'
                   /\ HasBoth(t) => HasBoth(t)'
                   /\ \A i \in Ids : HasQuestion(t, i) => HasQuestion(t, i)'
        BY <3>4, <3>6, <4>0, <4>2, RowsOfAppend
      <4>3. \A t \in Turns : t > asked' => Fresh(t)'
        BY <2>0, <3>1, <3>5, <4>2 DEF RowsInv
      <4>4. ASSUME NEW k \in Loops, NEW t \in Turns, NEW j \in Ids,
                 pc'[k] # "idle", chat'[k].turn = t, chat'[k].id = j
            PROVE  IF pc'[k] \in {"curl", "addAnswer"} THEN HasQuestion(t, j)' ELSE Fresh(t)'
        <5>1. CASE k = l
          BY <3>1, <3>3, <3>6, <4>4, <5>1
        <5>2. CASE k # l
          <6>1. t # u /\ pc[k] = pc'[k] /\ chat[k].turn = t /\ chat[k].id \in Ids
            BY <3>1, <3>5, <4>4, <5>2 DEF Typed
          <6> QED
            BY <3>1, <4>2, <4>4, <6>1 DEF RowsInv
        <5> QED
          BY <5>1, <5>2
      <4>5. \A t \in answered' : HasBoth(t)'
        BY <3>5, <3>6, <4>2 DEF RowsInv, Typed
      <4> QED
        BY <4>1, <4>3, <4>4, <4>5 DEF RowsInv
    <3>7. ASSUME published' = [published EXCEPT ![c] = Append(@, User(u))],
                 pc[l] \notin {"curl", "addAnswer"}, pc'[l] \in {"curl", "addAnswer"},
                 answered' = answered
          PROVE  RowsInv'
      <4>1. Fresh(u)
        BY <3>1, <3>3, <3>7 DEF RowsInv
      <4>2. HasQuestion(u, c)'
        BY <3>1, <3>4, <3>7, <4>1, RowsOfAppend
      <4> QED
        BY <3>5, <3>6, <3>7, <4>2
    <3>8. ASSUME published' = [published EXCEPT ![c] = Append(@, Ai(u))],
                 pc[l] = "addAnswer", pc'[l] = "idle", answered' = answered \cup {u}
          PROVE  RowsInv'
      <4>1. HasQuestion(u, c)
        BY <3>1, <3>3, <3>8 DEF RowsInv
      <4>2. HasBoth(u)'
        BY <3>4, <3>8, <4>1, RowsOfAppend
      <4> QED
        BY <3>6, <3>8, <4>2
    <3> QED
      BY <2>2, <3>2, <3>3, <3>7, <3>8, WorkPublishes
  <2>3. ASSUME NEW l \in Loops, NEW i \in Ids, History(l, i) PROVE RowsInv'
    <3>1. UNCHANGED <<published, asked, pc, chat, answered>>
      BY <2>3 DEF History, helperVars
    <3> QED
      BY <2>00, <3>1 DEF RowsInv
  <2>4. CASE UNCHANGED vars
    <3>1. UNCHANGED <<published, asked, pc, chat, answered>>
      BY <2>4 DEF vars, helperVars
    <3> QED
      BY <2>00, <3>1 DEF RowsInv
  <2> QED
    BY <2>1, <2>2, <2>3, <2>4, NextCases
<1> QED
  BY <1>1, <1>2, TypeCorrect, TurnsAreOwned, PTL DEF Spec

(* Overlaps and failures included: an answered question has one row and    *)
(* its answer one after it, and no prompt of the server's is published.    *)
THEOREM AnsweredArePublished == Spec => []AnsweredIsPublished
<1>1. RowsInv => AnsweredIsPublished
  BY DEF RowsInv, AnsweredIsPublished, HasBoth
<1> QED
  BY <1>1, RowsAreCounted, PTL
===============================================================================
