----------------------------- MODULE SignFlowProofs -----------------------------
(***************************************************************************)
(* Proofs about SignFlow for any number of sessions, workers, IDs,         *)
(* characters and requests, whichever requests throw.                      *)
(*                                                                         *)
(* A session goes through stages: what its client was told last, what is   *)
(* still to be told, the state and the stored result fit together.         *)
(***************************************************************************)
EXTENDS SignFlow, SequenceTheorems, TLAPS

-------------------------------------------------------------------------------
(* Requests and completions of one session *)

Asks(i, s) == port[i].of = s /\ port[i].kind = "recv"
Sent(i, s) == port[i].of = s /\ port[i].kind = "send"
Works(t, s) == job[t].of = s /\ job[t].step \in Handler
Pops(t, s) == job[t].of = s /\ job[t].step = "sended"
Changes(t, s) == job[t].of = s /\ job[t].step = "changed"

\* A session has one request at a time: at the port, or in the hands of a worker.
OneRequest(s) ==
  /\ \A i, j \in DOMAIN port : Asks(i, s) /\ Asks(j, s) => i = j
  /\ \A t, u \in Workers : Works(t, s) /\ Works(u, s) => t = u
  /\ \A i \in DOMAIN port, t \in Workers : ~(Asks(i, s) /\ Works(t, s))

\* The front of the queue is at the kernel, at the port, or being popped, once.
OneCompletion(s) ==
  /\ \A i, j \in DOMAIN port : Sent(i, s) /\ Sent(j, s) => i = j
  /\ \A t, u \in Workers : Pops(t, s) /\ Pops(u, s) => t = u
  /\ \A i \in DOMAIN port, t \in Workers : ~(Sent(i, s) /\ Pops(t, s))
  /\ \A i \in DOMAIN port : Sent(i, s) => ~posted[s] /\ sendQ[s] # <<>>
  /\ \A t \in Workers : Pops(t, s) => ~posted[s] /\ sendQ[s] # <<>>
  /\ posted[s] => sendQ[s] # <<>>

\* The worker that changes the state is the owner of m_cs.
OneChange(s) == \A t \in Workers : Changes(t, s) => cs[s] = t

-------------------------------------------------------------------------------
(* Stages of a session *)

\* What the client has not been told yet.
Untold(s) == IF posted[s] \/ sendQ[s] = <<>> THEN sendQ[s] ELSE Tail(sendQ[s])

\* Nothing of the session is on its way to another state.
Settled(s) == \A t \in Workers : ~Changes(t, s)

\* The session signs in, and no stored or coming result changes the state.
Signing(s) ==
  /\ state[s] = "sign" /\ result[s].sign \notin SignSuccess
  /\ result[s].select # "Success_CharacterSelect"
  /\ \A t \in Workers : Works(t, s) =>
       /\ job[t].in = "sign"
       /\ job[t].step = "assign" => job[t].res \notin SignSuccess

Selecting(s) ==
  /\ state[s] = "select" /\ result[s].select # "Success_CharacterSelect"
  /\ \A t \in Workers : Works(t, s) =>
       /\ job[t].in = "select"
       /\ job[t].step = "assign" => job[t].res # "Success_CharacterSelect"

\* The request was not answered yet.
Unanswered(s) ==
  \/ \E i \in DOMAIN port : Asks(i, s)
  \/ \E t \in Workers : Works(t, s) /\ job[t].step # "assign"

AskStage(s) ==
  /\ Untold(s) = <<>> /\ Settled(s)
  /\ Signing(s) \/ Selecting(s)
  /\ \A i \in DOMAIN port : Asks(i, s) =>
       (Signing(s) <=> port[i].req \in SignRequest)

\* After a success the list is on its way: rest is what comes after the answer.
ListStage(s, rest) ==
  \/ /\ rest = <<>> /\ Settled(s) /\ state[s] = "sign"
     /\ result[s].select # "Success_CharacterSelect"
     /\ \A t \in Workers : Works(t, s) =>
          job[t].in = "sign" /\ result[s].sign \notin SignSuccess
  \/ /\ state[s] = "select" /\ result[s].select # "Success_CharacterSelect"
     /\ \A t \in Workers : ~Works(t, s)
     /\ \/ rest = <<>> /\ \A t \in Workers : Changes(t, s) => job[t].in = "select"
        \/ rest = <<"CharaterInfos">> /\ Settled(s)

VillageStage(s) ==
  /\ \A i \in DOMAIN Untold(s) : Untold(s)[i] \in {"Success_CharacterSelect", "EnterVillage"}
  /\ state[s] \in {"select", "village"}
  /\ \A t \in Workers : /\ Works(t, s) => job[t].in = "select"
                        /\ Changes(t, s) => job[t].in = "village"

AnswerStage(s) ==
  LET told == Head(Untold(s)) IN
  /\ Untold(s) # <<>>
  /\ \/ told \in SignResult \ SignSuccess /\ Untold(s) = <<told>> /\ Settled(s) /\ Signing(s)
     \/ told \in SignSuccess /\ ListStage(s, Tail(Untold(s)))
     \/ told = "UndefinedCharacter" /\ Untold(s) = <<told>> /\ Settled(s) /\ Selecting(s)
     \/ told = "Success_CharacterSelect" /\ VillageStage(s)

Stage(s) ==
  /\ phase[s] \in {"sign", "select", "ended"} => Untold(s) = <<>> /\ Settled(s)
  /\ phase[s] = "sign" => Signing(s)
  /\ phase[s] = "select" => Selecting(s)
  /\ phase[s] = "ended" => Signing(s) \/ Selecting(s)
  /\ phase[s] = "answer" => IF Unanswered(s) THEN AskStage(s) ELSE AnswerStage(s)
  /\ phase[s] = "list" => ListStage(s, Untold(s))
  /\ phase[s] = "village" => VillageStage(s)
  /\ Unanswered(s) => phase[s] = "answer"

Session(s) == OneRequest(s) /\ OneCompletion(s) /\ OneChange(s) /\ Stage(s)

FlowInv == \A s \in Sessions : Session(s)

-------------------------------------------------------------------------------
(* Types *)

Entry == [of : Sessions, kind : {"recv", "send"}, req : Request]
Job == [step : {"wait", "load", "save", "send", "assign", "sended", "changed"},
        of : Sessions, req : Request, res : Result, in : States]

\* What a worker holds fits the request it handles.
JobOK(t) ==
  /\ job[t].step \in Handler => (job[t].in = "sign" <=> job[t].req \in SignRequest)
  /\ job[t].step \in {"save", "send", "assign"} =>
       job[t].res \in IF job[t].req \in SignRequest
                      THEN SignResult
                      ELSE {"UndefinedCharacter", "Success_CharacterSelect"}
  /\ job[t].step = "save" => job[t].req \in SignRequest

Types ==
  /\ TypeOK
  /\ result \in [Sessions -> [sign : SignResult, select : SelectResult]]
  /\ \A t \in Workers : JobOK(t)

LEMMA RequestsExist == NoRequest \in Request
<1>1. PICK id \in IDs : TRUE BY SignAssumption DEF SignAssumption
<1>2. [what |-> "SignIn", key |-> id, pw |-> TRUE] \in Request
  BY DEF Request, SignRequest
<1>3. \E r \in Request : TRUE BY <1>2
<1> QED BY <1>3 DEF NoRequest

LEMMA FreeTyped == Free \in Job /\ Free.step = "wait"
<1> DEFINE f == CHOOSE s \in Sessions : TRUE
<1>1. f \in Sessions BY SignAssumption DEF SignAssumption
<1> HIDE DEF f
<1>2. [step |-> "wait", of |-> f, req |-> NoRequest, res |-> "None", in |-> "sign"] \in Job
  BY <1>1, RequestsExist DEF Job, Result, SignResult, States
<1>3. Free = [step |-> "wait", of |-> f, req |-> NoRequest, res |-> "None", in |-> "sign"]
  BY DEF Free, f
<1> QED BY <1>2, <1>3

LEMMA TypesInit == Init => Types
<1> SUFFICES ASSUME Init PROVE Types OBVIOUS
<1>1. job = [t \in Workers |-> Free] BY DEF Init
<1>2. job \in [Workers -> Job] BY <1>1, FreeTyped
<1>3. \A t \in Workers : JobOK(t) BY <1>1, FreeTyped DEF JobOK, Handler
<1>4. result \in [Sessions -> [sign : SignResult, select : SelectResult]]
  BY DEF Init, SignResult, SelectResult
<1>5. isSigned \in [Sessions -> BOOLEAN] /\ posted \in [Sessions -> BOOLEAN]
  BY DEF Init
<1>6. /\ signinfo \in Seq(IDs) /\ port \in Seq(Entry) /\ sendQ \in [Sessions -> Seq(Result)]
  BY DEF Init
<1>7. /\ state \in [Sessions -> States] /\ chosen \in [Sessions -> Characters \cup {"none"}]
      /\ cs \in [Sessions -> Workers \cup {NoWorker}]
      /\ phase \in [Sessions -> States \cup {"answer", "list", "ended"}]
      /\ asked \in [Sessions -> 0 .. MaxAsk]
  BY SignAssumption DEF Init, States, SignAssumption
<1> QED BY <1>2, <1>3, <1>4, <1>5, <1>6, <1>7 DEF Types, TypeOK, Job, Entry

\* The job a worker has after a step; every other worker keeps its own.
Does(t, step, of, req, res, in) ==
  /\ job' \in [Workers -> Job]
  /\ \A u \in Workers : u # t => job'[u] = job[u]
  /\ job'[t].step = step /\ job'[t].of = of /\ job'[t].req = req
  /\ job'[t].res = res /\ job'[t].in = in

Steps == {"wait", "load", "save", "send", "assign", "sended", "changed"}

LEMMA StepDoes ==
  ASSUME Types, NEW t \in Workers, NEW x \in Steps, job' = [job EXCEPT ![t].step = x]
  PROVE  Does(t, x, job[t].of, job[t].req, job[t].res, job[t].in)
<1>1. job \in [Workers -> Job] BY DEF Types, TypeOK, Job
<1> QED BY <1>1 DEF Does, Job, Steps

LEMMA ResultDoes ==
  ASSUME Types, NEW t \in Workers, NEW x \in Steps, NEW r \in Result,
         job' = [job EXCEPT ![t].step = x, ![t].res = r]
  PROVE  Does(t, x, job[t].of, job[t].req, r, job[t].in)
<1>1. job \in [Workers -> Job] BY DEF Types, TypeOK, Job
<1> QED BY <1>1 DEF Does, Job, Steps

LEMMA ChangeDoes ==
  ASSUME Types, NEW t \in Workers, NEW in \in States,
         job' = [job EXCEPT ![t].step = "changed", ![t].in = in]
  PROVE  Does(t, "changed", job[t].of, job[t].req, job[t].res, in)
<1>1. job \in [Workers -> Job] BY DEF Types, TypeOK, Job
<1> QED BY <1>1 DEF Does, Job

LEMMA FreeDoes ==
  ASSUME Types, NEW t \in Workers, job' = [job EXCEPT ![t] = Free]
  PROVE  Does(t, "wait", Free.of, Free.req, Free.res, Free.in)
<1>1. job \in [Workers -> Job] BY DEF Types, TypeOK, Job
<1> QED BY <1>1, FreeTyped DEF Does

LEMMA DecisionTyped ==
  ASSUME NEW r \in SignRequest
  PROVE  SignDecision(r) \in SignResult
BY DEF SignDecision, SignResult, SignSuccess, SignRequest

LEMMA SignLoadDoes ==
  ASSUME Types, NEW t \in Workers, SignLoad(t)
  PROVE  \E res \in SignResult :
           /\ \/ Does(t, "send", job[t].of, job[t].req, res, job[t].in)
              \/ Does(t, "save", job[t].of, job[t].req, res, job[t].in)
           /\ job[t].req \in SignRequest /\ job[t].step = "load"
           /\ isSigned' = [isSigned EXCEPT ![job[t].of] =
                IF res \in SignSuccess THEN res = "Success_SignIn" ELSE @]
<1> DEFINE res == SignDecision(job[t].req)
<1>1. job[t].req \in SignRequest /\ job[t].step = "load" BY DEF SignLoad, At
<1>3. /\ job' = [job EXCEPT ![t].step = IF res = "Success_SignUp" THEN "save" ELSE "send",
                            ![t].res = res]
      /\ isSigned' = [isSigned EXCEPT ![job[t].of] =
           IF res \in SignSuccess THEN res = "Success_SignIn" ELSE @]
  BY DEF SignLoad
<1>4. res \in SignResult BY <1>1, DecisionTyped
<1> HIDE DEF res
<1>5. res \in Result BY <1>4 DEF Result
<1>6. CASE res = "Success_SignUp"
  <2>1. job' = [job EXCEPT ![t].step = "save", ![t].res = res] BY <1>3, <1>6
  <2>2. Does(t, "save", job[t].of, job[t].req, res, job[t].in) BY <1>5, <2>1, ResultDoes DEF Steps
  <2> QED BY <1>1, <1>3, <1>4, <1>6, <2>2
<1>7. CASE res # "Success_SignUp"
  <2>1. job' = [job EXCEPT ![t].step = "send", ![t].res = res] BY <1>3, <1>7
  <2>2. Does(t, "send", job[t].of, job[t].req, res, job[t].in) BY <1>5, <2>1, ResultDoes DEF Steps
  <2> QED BY <1>1, <1>3, <1>4, <2>2
<1> QED BY <1>6, <1>7

LEMMA SelectLoadDoes ==
  ASSUME Types, NEW t \in Workers, SelectLoad(t)
  PROVE  \E res \in {"UndefinedCharacter", "Success_CharacterSelect"} :
           /\ Does(t, "send", job[t].of, job[t].req, res, job[t].in)
           /\ job[t].req \notin SignRequest /\ job[t].step = "load"
           /\ job[t].req.key \in Characters
<1> DEFINE res == SelectDecision(job[t].req.key)
<1>1. res \in {"UndefinedCharacter", "Success_CharacterSelect"} /\ res \in Result
  BY DEF SelectDecision, Result, SelectResult
<1>2. /\ job' = [job EXCEPT ![t].step = "send", ![t].res = res]
      /\ job[t].req.what = "CharacterSelect" /\ job[t].step = "load"
  BY DEF SelectLoad, At
<1>3. job[t].req \in Request BY DEF Types, TypeOK
<1>4. job[t].req \notin SignRequest /\ job[t].req.key \in Characters
  BY <1>2, <1>3 DEF Request, SignRequest, SelectRequest
<1> HIDE DEF res
<1> QED BY <1>1, <1>2, <1>4, ResultDoes DEF Steps

LEMMA DequeueDoes ==
  ASSUME Types, NEW t \in Workers, Dequeue(t)
  PROVE  /\ port # <<>> /\ Head(port) \in Entry /\ port' = Tail(port) /\ job[t].step = "wait"
         /\ Does(t, IF Head(port).kind = "recv" THEN "load" ELSE "sended", Head(port).of,
                 Head(port).req, Free.res, state[Head(port).of])
<1> DEFINE c == Head(port)
           x == IF c.kind = "recv" THEN "load" ELSE "sended"
<1>1. port # <<>> /\ c \in Entry /\ port' = Tail(port) /\ job[t].step = "wait"
  <2>1. port # <<>> /\ port' = Tail(port) /\ job[t].step = "wait" BY DEF Dequeue, At
  <2>2. port \in Seq(Entry) BY DEF Types, TypeOK, Entry
  <2> QED BY <2>1, <2>2
<1>2. job' = [job EXCEPT ![t] = [Free EXCEPT !.step = x, !.of = c.of, !.req = c.req,
                                             !.in = state[c.of]]]
  BY DEF Dequeue
<1>3. x \in {"load", "sended"} /\ c.of \in Sessions /\ c.req \in Request /\ state[c.of] \in States
  BY <1>1 DEF Entry, Types, TypeOK
<1> HIDE DEF c, x
<1>4. PICK in : in = state[c.of] OBVIOUS
<1>5. PICK f : f = [Free EXCEPT !.step = x, !.of = c.of, !.req = c.req, !.in = in] OBVIOUS
<1>6. /\ f \in Job /\ f.step = x /\ f.of = c.of /\ f.req = c.req /\ f.res = Free.res /\ f.in = in
  BY <1>3, <1>4, <1>5, FreeTyped DEF Job
<1>7. job' = [job EXCEPT ![t] = f] BY <1>2, <1>4, <1>5
<1>8. job \in [Workers -> Job] BY DEF Types, TypeOK, Job
<1>9. Does(t, x, c.of, c.req, Free.res, in) BY <1>6, <1>7, <1>8 DEF Does
<1> QED BY <1>1, <1>4, <1>9 DEF c, x

LEMMA OnSendCompletedDoes ==
  ASSUME Types, NEW t \in Workers, OnSendCompleted(t)
  PROVE  LET s == job[t].of  next == NextState(s) IN
         /\ s \in Sessions /\ next \in States /\ state' = [state EXCEPT ![s] = next]
         /\ \/ /\ next = state[s] /\ cs' = cs
               /\ Does(t, "wait", Free.of, Free.req, Free.res, Free.in)
            \/ /\ next # state[s] /\ cs' = [cs EXCEPT ![s] = t]
               /\ Does(t, "changed", s, job[t].req, job[t].res, next)
<1> DEFINE s == job[t].of
           next == NextState(s)
<1>1. s \in Sessions BY DEF Types, TypeOK
<1>2. next \in States BY <1>1 DEF NextState, States, Types, TypeOK
<1>3. /\ state' = [state EXCEPT ![s] = next]
      /\ \/ next = state[s] /\ job' = [job EXCEPT ![t] = Free] /\ cs' = cs
         \/ /\ next # state[s] /\ cs' = [cs EXCEPT ![s] = t]
            /\ job' = [job EXCEPT ![t].step = "changed", ![t].in = next]
  BY DEF OnSendCompleted, ChangeState
<1> HIDE DEF next
<1>4. job' = [job EXCEPT ![t].step = "changed", ![t].in = next] =>
        Does(t, "changed", s, job[t].req, job[t].res, next)
  BY <1>2, ChangeDoes
<1> QED BY <1>1, <1>2, <1>3, <1>4, FreeDoes DEF next

\* Every entry of the port but a new one was there before, and in the same order.
LEMMA PortAppended ==
  ASSUME Types, NEW c \in Entry, port' = Append(port, c)
  PROVE  /\ port' \in Seq(Entry) /\ DOMAIN port' = 1 .. Len(port) + 1 /\ DOMAIN port = 1 .. Len(port)
         /\ Len(port) \in Nat /\ port'[Len(port) + 1] = c
         /\ \A i \in DOMAIN port : port'[i] = port[i] /\ i # Len(port) + 1 /\ i \in DOMAIN port'
         /\ \A i \in DOMAIN port' : i \in DOMAIN port \/ i = Len(port) + 1
<1>1. port \in Seq(Entry) BY DEF Types, TypeOK, Entry
<1> HIDE DEF Entry
<1> QED BY <1>1

LEMMA PortEntry ==
  ASSUME Types, NEW c \in Entry, port' = Append(port, c)
  PROVE  \E n \in DOMAIN port' :
           /\ port'[n] = c /\ n \notin DOMAIN port
           /\ \A i \in DOMAIN port' : (i \in DOMAIN port /\ port'[i] = port[i]) \/ i = n
           /\ \A i \in DOMAIN port : i \in DOMAIN port' /\ port'[i] = port[i]
<1>1. Len(port) + 1 \in 1 .. Len(port) + 1 BY PortAppended
<1> QED BY <1>1, PortAppended

LEMMA PortTaken ==
  ASSUME Types, port # <<>>, port' = Tail(port)
  PROVE  /\ port' \in Seq(Entry) /\ 1 \in DOMAIN port /\ Head(port) = port[1]
         /\ \A i \in DOMAIN port' : port'[i] = port[i + 1] /\ i + 1 \in DOMAIN port /\ i + 1 # 1
         /\ \A i, j \in DOMAIN port' : i + 1 = j + 1 => i = j
         /\ \A i \in DOMAIN port : i = 1 \/ (\E j \in DOMAIN port' : i = j + 1)
<1>1. port \in Seq(Entry) BY DEF Types, TypeOK, Entry
<1>2. Len(port) \in Nat /\ Len(port) # 0 /\ DOMAIN port = 1 .. Len(port) /\ Head(port) = port[1]
  BY <1>1
<1>3. port' \in Seq(Entry) /\ DOMAIN port' = 1 .. (Len(port) - 1)
  BY <1>1, <1>2
<1>4. \A i \in 1 .. (Len(port) - 1) : port'[i] = port[i + 1] BY <1>1, <1>2
<1>5. \A i \in 1 .. Len(port) : i = 1 \/ (\E j \in 1 .. (Len(port) - 1) : i = j + 1)
  <2> SUFFICES ASSUME NEW i \in 1 .. Len(port), i # 1
               PROVE  \E j \in 1 .. (Len(port) - 1) : i = j + 1
    OBVIOUS
  <2>1. i - 1 \in 1 .. (Len(port) - 1) /\ i = (i - 1) + 1 BY <1>2
  <2> QED BY <2>1
<1>6. \A i \in 1 .. (Len(port) - 1) : i + 1 \in 1 .. Len(port) /\ i + 1 # 1 BY <1>2
<1>7. \A i, j \in 1 .. (Len(port) - 1) : i + 1 = j + 1 => i = j BY <1>2
<1>8. 1 \in 1 .. Len(port) BY <1>2
<1> QED BY <1>2, <1>3, <1>4, <1>5, <1>6, <1>7, <1>8

-------------------------------------------------------------------------------
(* Steps that do not concern a session *)

\* The port changes, if at all, for another session.
PortKept(s) ==
  \/ port' = port
  \/ \E c \in Entry : port' = Append(port, c) /\ c.of # s
  \/ port # <<>> /\ port' = Tail(port) /\ Head(port).of # s

\* The handlers of session s and its change of state go on.
WorkKept(s) ==
  \A t \in Workers :
    /\ Works(t, s)' <=> Works(t, s)
    /\ Works(t, s) => /\ job'[t].in = job[t].in
                      /\ job'[t].step = "assign" <=> job[t].step = "assign"
                      /\ job[t].step = "assign" => job'[t].res = job[t].res
    /\ Changes(t, s)' <=> Changes(t, s)
    /\ Changes(t, s) => job'[t].in = job[t].in

JobsKept(s) == WorkKept(s) /\ \A t \in Workers : Pops(t, s)' <=> Pops(t, s)

\* The request of session s stays at the port.
AsksKept(s) ==
  /\ \A i \in DOMAIN port' :
       Asks(i, s)' => \E j \in DOMAIN port : Asks(j, s) /\ port'[i].req = port[j].req
  /\ (\E i \in DOMAIN port : Asks(i, s)) => \E i \in DOMAIN port' : Asks(i, s)'

StageKept(s) == state'[s] = state[s] /\ result'[s] = result[s] /\ phase'[s] = phase[s]

ValuesKept(s) ==
  StageKept(s) /\ cs'[s] = cs[s] /\ sendQ'[s] = sendQ[s] /\ posted'[s] = posted[s]

LEMMA PortFrame ==
  ASSUME Types, NEW s \in Sessions, PortKept(s), OneRequest(s), OneCompletion(s)
  PROVE  /\ \A i \in DOMAIN port' : port'[i].of = s => \E j \in DOMAIN port : port'[i] = port[j]
         /\ \A i \in DOMAIN port : port[i].of = s => \E j \in DOMAIN port' : port[i] = port'[j]
         /\ \A i, j \in DOMAIN port' : Asks(i, s)' /\ Asks(j, s)' => i = j
         /\ \A i, j \in DOMAIN port' : Sent(i, s)' /\ Sent(j, s)' => i = j
<1>1. CASE port' = port BY <1>1 DEF OneRequest, OneCompletion, Asks, Sent
<1>2. CASE \E c \in Entry : port' = Append(port, c) /\ c.of # s
  <2>1. PICK c \in Entry : port' = Append(port, c) /\ c.of # s BY <1>2
  <2>2. \A i \in DOMAIN port' : port'[i].of = s => i \in DOMAIN port /\ port'[i] = port[i]
    BY <2>1, PortAppended
  <2>3. \A i \in DOMAIN port : i \in DOMAIN port' /\ port'[i] = port[i] BY <2>1, PortAppended
  <2> QED BY <2>2, <2>3 DEF OneRequest, OneCompletion, Asks, Sent
<1>3. CASE port # <<>> /\ port' = Tail(port) /\ Head(port).of # s
  <2>1. /\ \A i \in DOMAIN port' : port'[i] = port[i + 1] /\ i + 1 \in DOMAIN port
        /\ \A i, j \in DOMAIN port' : i + 1 = j + 1 => i = j
        /\ \A i \in DOMAIN port : port[i].of = s => \E j \in DOMAIN port' : i = j + 1
    BY <1>3, PortTaken
  <2> QED BY <2>1 DEF OneRequest, OneCompletion, Asks, Sent
<1> QED BY <1>1, <1>2, <1>3 DEF PortKept

LEMMA StageFrame ==
  ASSUME NEW s \in Sessions, Stage(s), AsksKept(s), WorkKept(s), StageKept(s),
         Untold(s)' = Untold(s)
  PROVE  Stage(s)'
<1>1. Settled(s)' <=> Settled(s) BY DEF WorkKept, Settled
<1>2. Signing(s)' <=> Signing(s) BY DEF WorkKept, StageKept, Signing
<1>3. Selecting(s)' <=> Selecting(s) BY DEF WorkKept, StageKept, Selecting
<1>4. Unanswered(s)' <=> Unanswered(s) BY DEF AsksKept, WorkKept, Unanswered
<1>5. AskStage(s) => AskStage(s)' BY <1>1, <1>2, <1>3 DEF AskStage, AsksKept
<1>6. VillageStage(s) => VillageStage(s)' BY DEF WorkKept, StageKept, VillageStage
<1>7. ListStage(s, Untold(s)) => ListStage(s, Untold(s))'
  BY <1>1 DEF WorkKept, StageKept, ListStage
<1>8. ListStage(s, Tail(Untold(s))) => ListStage(s, Tail(Untold(s)))'
  BY <1>1 DEF WorkKept, StageKept, ListStage
<1>9. AnswerStage(s) => AnswerStage(s)' BY <1>1, <1>2, <1>3, <1>6, <1>8 DEF AnswerStage
<1> QED BY <1>1, <1>2, <1>3, <1>4, <1>5, <1>6, <1>7, <1>9 DEF Stage, StageKept

LEMMA SessionFrame ==
  ASSUME Types, NEW s \in Sessions, Session(s), PortKept(s), JobsKept(s), ValuesKept(s)
  PROVE  Session(s)'
<1>1. /\ \A i \in DOMAIN port' : port'[i].of = s => \E j \in DOMAIN port : port'[i] = port[j]
      /\ \A i \in DOMAIN port : port[i].of = s => \E j \in DOMAIN port' : port[i] = port'[j]
      /\ \A i, j \in DOMAIN port' : Asks(i, s)' /\ Asks(j, s)' => i = j
      /\ \A i, j \in DOMAIN port' : Sent(i, s)' /\ Sent(j, s)' => i = j
  BY PortFrame DEF Session
<1>2. AsksKept(s) BY <1>1 DEF Asks, AsksKept
<1>3. \A i \in DOMAIN port' : Sent(i, s)' => \E j \in DOMAIN port : Sent(j, s)
  BY <1>1 DEF Sent
<1>4. OneRequest(s)' BY <1>1, <1>2 DEF Session, OneRequest, JobsKept, WorkKept, AsksKept
<1>5. OneCompletion(s)' BY <1>1, <1>3 DEF Session, OneCompletion, JobsKept, ValuesKept
<1>6. OneChange(s)' BY DEF Session, OneChange, JobsKept, WorkKept, ValuesKept
<1>7. Untold(s)' = Untold(s) BY DEF ValuesKept, Untold
<1>8. Stage(s)' BY <1>2, <1>7, StageFrame DEF Session, JobsKept, ValuesKept
<1> QED BY <1>4, <1>5, <1>6, <1>8 DEF Session

\* A step of a worker for another session.
LEMMA OthersKept ==
  ASSUME Types, NEW t \in Workers, NEW s \in Sessions, NEW x, NEW of, NEW req, NEW res, NEW in,
         Does(t, x, of, req, res, in),
         job[t].of # s \/ job[t].step = "wait", of # s \/ x = "wait"
  PROVE  JobsKept(s)
<1>1. /\ ~Works(t, s) /\ ~Pops(t, s) /\ ~Changes(t, s)
      /\ ~Works(t, s)' /\ ~Pops(t, s)' /\ ~Changes(t, s)'
  BY DEF Does, Works, Pops, Changes, Handler
<1>2. \A u \in Workers : u # t => job'[u] = job[u] BY DEF Does
<1> QED BY <1>1, <1>2 DEF JobsKept, WorkKept, Works, Pops, Changes

\* A step from one handler step to another.
LEMMA HandlingKept ==
  ASSUME Types, NEW t \in Workers, NEW s \in Sessions, NEW x \in {"send", "save"}, NEW res,
         Does(t, x, job[t].of, job[t].req, res, job[t].in), job[t].step \in {"load", "save"}
  PROVE  JobsKept(s)
BY DEF Does, JobsKept, WorkKept, Works, Pops, Changes, Handler

-------------------------------------------------------------------------------
(* The send queue of a session *)

LEMMA SeqFacts ==
  ASSUME NEW S, NEW q \in Seq(S), NEW x \in S
  PROVE  /\ Append(q, x) \in Seq(S) /\ Append(q, x) # <<>>
         /\ q = <<>> => Append(q, x) = <<x>> /\ Head(Append(q, x)) = x /\ Tail(Append(q, x)) = <<>>
         /\ q # <<>> => /\ Tail(Append(q, x)) = Append(Tail(q), x)
                        /\ Head(Append(q, x)) = Head(q)
                        /\ Head(q) \in S /\ Tail(q) \in Seq(S)
         /\ \A i \in DOMAIN Append(q, x) :
              (i \in DOMAIN q /\ Append(q, x)[i] = q[i]) \/ Append(q, x)[i] = x
<1>1. /\ Append(q, x) \in Seq(S) /\ Append(q, x) # <<>>
      /\ \A i \in DOMAIN Append(q, x) :
           (i \in DOMAIN q /\ Append(q, x)[i] = q[i]) \/ Append(q, x)[i] = x
  OBVIOUS
<1>2. q = <<>> => Append(q, x) = <<x>> /\ Head(Append(q, x)) = x /\ Tail(Append(q, x)) = <<>>
  OBVIOUS
<1>3. ASSUME q # <<>>
      PROVE  /\ Tail(Append(q, x)) = Append(Tail(q), x) /\ Head(Append(q, x)) = Head(q)
             /\ Head(q) \in S /\ Tail(q) \in Seq(S)
  BY <1>3, HeadTailAppend, HeadTailProperties
<1> QED BY <1>1, <1>2, <1>3

LEMMA LongQueue ==
  ASSUME NEW S, NEW q \in Seq(S), q # <<>>
  PROVE  Tail(q) \in Seq(S) /\ (Len(q) > 1 <=> Tail(q) # <<>>)
<1>1. Tail(q) \in Seq(S) /\ Len(Tail(q)) = Len(q) - 1 /\ Len(q) \in Nat /\ Len(q) # 0
  OBVIOUS
<1>2. Tail(q) = <<>> <=> Len(Tail(q)) = 0 BY <1>1, EmptySeq
<1>3. PICK n \in Nat : n = Len(q) BY <1>1
<1>4. Len(Tail(q)) = n - 1 /\ n # 0 BY <1>1, <1>3
<1>5. n > 1 <=> n - 1 # 0 BY <1>4
<1> QED BY <1>1, <1>2, <1>3, <1>4, <1>5

LEMMA TailElements ==
  ASSUME NEW S, NEW q \in Seq(S), q # <<>>
  PROVE  /\ 1 \in DOMAIN q /\ Head(q) = q[1]
         /\ \A i \in DOMAIN Tail(q) : i + 1 \in DOMAIN q /\ Tail(q)[i] = q[i + 1]
<1>1. /\ Len(q) \in Nat /\ Len(q) # 0 /\ DOMAIN q = 1 .. Len(q) /\ Head(q) = q[1]
      /\ DOMAIN Tail(q) = 1 .. (Len(q) - 1)
  OBVIOUS
<1>2. \A i \in 1 .. (Len(q) - 1) : Tail(q)[i] = q[i + 1] /\ i + 1 \in 1 .. Len(q) BY <1>1
<1>3. 1 \in 1 .. Len(q) BY <1>1
<1> QED BY <1>1, <1>2, <1>3

LEMMA UntoldPushed ==
  ASSUME Types, NEW s \in Sessions, NEW res \in Result, Push(s, res)
  PROVE  /\ sendQ' \in [Sessions -> Seq(Result)] /\ posted' \in [Sessions -> BOOLEAN]
         /\ Untold(s) \in Seq(Result) /\ Untold(s)' = Append(Untold(s), res)
         /\ sendQ'[s] # <<>> /\ (posted'[s] <=> posted[s] \/ sendQ[s] = <<>>)
         /\ \A u \in Sessions : u # s => sendQ'[u] = sendQ[u] /\ posted'[u] = posted[u]
<1>1. sendQ \in [Sessions -> Seq(Result)] /\ posted \in [Sessions -> BOOLEAN]
  BY DEF Types, TypeOK
<1>2. sendQ[s] \in Seq(Result) BY <1>1
<1>3. sendQ' = [sendQ EXCEPT ![s] = Append(sendQ[s], res)] BY DEF Push
<1>4. sendQ' \in [Sessions -> Seq(Result)] /\ sendQ'[s] = Append(sendQ[s], res)
  BY <1>1, <1>2, <1>3, SeqFacts
<1>5. posted' = [posted EXCEPT ![s] = posted[s] \/ sendQ[s] = <<>>] BY DEF Push
<1>6. posted' \in [Sessions -> BOOLEAN] /\ (posted'[s] <=> posted[s] \/ sendQ[s] = <<>>)
  BY <1>1, <1>5
<1>7. \A u \in Sessions : u # s => sendQ'[u] = sendQ[u] /\ posted'[u] = posted[u]
  BY <1>1, <1>3, <1>5
<1>8. Untold(s) \in Seq(Result) /\ Untold(s)' = Append(Untold(s), res) /\ sendQ'[s] # <<>>
  <2>1. sendQ'[s] # <<>> BY <1>2, <1>4, SeqFacts
  <2>2. CASE posted[s] \/ sendQ[s] = <<>> BY <1>2, <1>4, <1>6, <2>1, <2>2 DEF Untold
  <2>3. CASE ~posted[s] /\ sendQ[s] # <<>>
    <3>1. Untold(s) = Tail(sendQ[s]) /\ Tail(sendQ[s]) \in Seq(Result)
      BY <1>2, <2>3, LongQueue DEF Untold
    <3>2. Untold(s)' = Tail(sendQ'[s]) BY <1>6, <2>1, <2>3 DEF Untold
    <3>3. Tail(Append(sendQ[s], res)) = Append(Tail(sendQ[s]), res) BY <1>2, <2>3, SeqFacts
    <3> QED BY <1>4, <2>1, <3>1, <3>2, <3>3
  <2> QED BY <2>2, <2>3
<1> QED BY <1>4, <1>6, <1>7, <1>8

LEMMA UntoldPopped ==
  ASSUME Types, NEW s \in Sessions, sendQ[s] # <<>>, ~posted[s],
         sendQ' = [sendQ EXCEPT ![s] = Tail(sendQ[s])],
         posted' = [posted EXCEPT ![s] = Len(sendQ[s]) > 1]
  PROVE  /\ sendQ' \in [Sessions -> Seq(Result)] /\ posted' \in [Sessions -> BOOLEAN]
         /\ Untold(s)' = Untold(s) /\ (posted'[s] => sendQ'[s] # <<>>)
         /\ \A u \in Sessions : u # s => sendQ'[u] = sendQ[u] /\ posted'[u] = posted[u]
<1>1. sendQ \in [Sessions -> Seq(Result)] /\ posted \in [Sessions -> BOOLEAN]
  BY DEF Types, TypeOK
<1>2. sendQ[s] \in Seq(Result) /\ Tail(sendQ[s]) \in Seq(Result) BY <1>1, LongQueue
<1>3. sendQ' \in [Sessions -> Seq(Result)] /\ sendQ'[s] = Tail(sendQ[s]) BY <1>1, <1>2
<1>4. (Len(sendQ[s]) > 1) \in BOOLEAN BY <1>2
<1>5. posted' \in [Sessions -> BOOLEAN] /\ (posted'[s] <=> Len(sendQ[s]) > 1) BY <1>1, <1>4
<1>6. posted'[s] <=> Tail(sendQ[s]) # <<>> BY <1>2, <1>5, LongQueue
<1>7. Untold(s)' = Untold(s) BY <1>3, <1>6 DEF Untold
<1>8. \A u \in Sessions : u # s => sendQ'[u] = sendQ[u] /\ posted'[u] = posted[u] BY <1>1
<1> QED BY <1>3, <1>5, <1>6, <1>7, <1>8

LEMMA PushCompletion ==
  ASSUME Types, NEW s \in Sessions, NEW res \in Result, OneCompletion(s), Push(s, res),
         port' = port, \A t \in Workers : Pops(t, s)' => Pops(t, s)
  PROVE  OneCompletion(s)'
BY UntoldPushed DEF OneCompletion, Sent

-------------------------------------------------------------------------------
(* The client and the kernel *)

LEMMA AskSession ==
  ASSUME Types, NEW s \in Sessions, Session(s), Ask(s)
  PROVE  Session(s)'
<1>1. phase[s] \in {"sign", "select"} BY DEF Ask
<1>2. PICK r \in IF phase[s] = "sign" THEN SignRequest ELSE SelectRequest :
        port' = Append(port, [of |-> s, kind |-> "recv", req |-> r])
  BY DEF Ask
<1>3. PICK c : c = [of |-> s, kind |-> "recv", req |-> r] OBVIOUS
<1>4. /\ c \in Entry /\ c.of = s /\ c.kind = "recv" /\ c.req = r
      /\ phase[s] = "sign" <=> r \in SignRequest
  BY <1>1, <1>2, <1>3 DEF Entry, Request, SignRequest, SelectRequest
<1>5. PICK n \in DOMAIN port' :
        /\ port'[n] = c
        /\ \A i \in DOMAIN port' : (i \in DOMAIN port /\ port'[i] = port[i]) \/ i = n
  BY <1>2, <1>3, <1>4, PortEntry
<1>6. /\ state' = state /\ result' = result /\ cs' = cs /\ sendQ' = sendQ /\ posted' = posted
      /\ job' = job
  BY DEF Ask, sessionVars, sendVars
<1>7. phase'[s] = "answer" BY DEF Ask, Types, TypeOK
<1>8. /\ \A i \in DOMAIN port : ~Asks(i, s)
      /\ \A t \in Workers : ~Works(t, s)
  BY <1>1 DEF Session, Stage, Unanswered, Ask, Works
<1>9. /\ \A i \in DOMAIN port' : Asks(i, s)' => i = n
      /\ \A i \in DOMAIN port' : Sent(i, s)' => i \in DOMAIN port /\ Sent(i, s)
      /\ Asks(n, s)'
  BY <1>4, <1>5, <1>8 DEF Asks, Sent
<1>10. OneRequest(s)' BY <1>6, <1>8, <1>9 DEF OneRequest, Works
<1>11. OneCompletion(s)' BY <1>6, <1>9 DEF OneCompletion, Pops, Session
<1>12. OneChange(s)' BY <1>6 DEF OneChange, Changes, Session
<1>13. Unanswered(s)' BY <1>5, <1>9 DEF Unanswered
<1>14. AskStage(s)'
  <2>1. Untold(s)' = Untold(s) BY <1>6 DEF Untold
  <2>2. Settled(s)' <=> Settled(s) BY <1>6 DEF Settled, Changes
  <2>3. Signing(s)' <=> Signing(s) BY <1>6 DEF Signing, Works
  <2>4. Selecting(s)' <=> Selecting(s) BY <1>6 DEF Selecting, Works
  <2>5. Signing(s) <=> r \in SignRequest
    BY <1>1, <1>4 DEF Session, Stage, Signing, Selecting
  <2> QED BY <1>1, <1>4, <1>5, <1>9, <2>1, <2>2, <2>3, <2>4, <2>5 DEF Session, Stage, AskStage
<1>15. Stage(s)' BY <1>7, <1>13, <1>14 DEF Stage
<1> QED BY <1>10, <1>11, <1>12, <1>15 DEF Session

LEMMA TransmitSession ==
  ASSUME Types, NEW s \in Sessions, Session(s), Transmit(s)
  PROVE  Session(s)'
<1>1. PICK c : c = [of |-> s, kind |-> "send", req |-> NoRequest] OBVIOUS
<1>2. c \in Entry /\ c.of = s /\ c.kind = "send" BY <1>1, RequestsExist DEF Entry
<1>3. port' = Append(port, c) BY <1>1 DEF Transmit
<1>4. PICK n \in DOMAIN port' :
        /\ port'[n] = c
        /\ \A i \in DOMAIN port' : (i \in DOMAIN port /\ port'[i] = port[i]) \/ i = n
        /\ \A i \in DOMAIN port : i \in DOMAIN port' /\ port'[i] = port[i]
  BY <1>2, <1>3, PortEntry
<1>5. /\ state' = state /\ result' = result /\ cs' = cs /\ sendQ' = sendQ /\ job' = job
  BY DEF Transmit, sessionVars
<1>6. posted[s] /\ ~posted'[s] BY DEF Transmit, Types, TypeOK
<1>7. sendQ[s] # <<>> /\ sendQ[s] \in Seq(Result)
  BY <1>6 DEF Session, OneCompletion, Types, TypeOK
<1>8. Untold(s) = sendQ[s] /\ Untold(s)' = Tail(sendQ[s]) BY <1>5, <1>6, <1>7 DEF Untold
<1>9. /\ \A i \in DOMAIN port' : Sent(i, s)' => i = n
      /\ \A i \in DOMAIN port' : Asks(i, s)' => i \in DOMAIN port /\ Asks(i, s)
      /\ \A t \in Workers : ~Pops(t, s)
  BY <1>2, <1>4, <1>6 DEF Asks, Sent, Session, OneCompletion
<1>10. OneRequest(s)' BY <1>5, <1>9 DEF OneRequest, Works, Session
<1>11. OneCompletion(s)' BY <1>5, <1>6, <1>7, <1>9 DEF OneCompletion, Pops
<1>12. OneChange(s)' BY <1>5 DEF OneChange, Changes, Session
<1>13. Stage(s)'
  <2> DEFINE told == Head(sendQ[s])
  <2>1. phase'[s] = CASE told \in SignSuccess -> "list"
         [] told \in {"CharaterInfos", "UndefinedCharacter"} -> "select"
         [] told \in {"Success_CharacterSelect", "EnterVillage"} -> "village"
         [] OTHER -> "sign"
    BY DEF Transmit, Types, TypeOK
  <2>2. PICK e : e = told OBVIOUS
  <2>3. PICK rest : rest = Tail(sendQ[s]) OBVIOUS
  <2>4. /\ e \in SignSuccess => phase'[s] = "list"
        /\ e \in {"CharaterInfos", "UndefinedCharacter"} => phase'[s] = "select"
        /\ e \in {"Success_CharacterSelect", "EnterVillage"} => phase'[s] = "village"
        /\ e \in SignResult \ SignSuccess => phase'[s] = "sign"
    BY <2>1, <2>2 DEF SignSuccess, SignResult
  <2> HIDE DEF told
  <2>5. ~Unanswered(s)
    BY <1>7, <1>8 DEF Session, Stage, AskStage
  <2>6. ~Unanswered(s)' BY <1>5, <1>9, <2>5 DEF Unanswered, Works
  <2>7. Untold(s)' = rest BY <1>8, <2>3
  <2>8. /\ Settled(s) => Settled(s)' /\ (Signing(s) => Signing(s)')
        /\ (Selecting(s) => Selecting(s)') /\ (ListStage(s, rest) => ListStage(s, rest)')
    BY <1>5 DEF Settled, Signing, Selecting, ListStage, Works, Changes
  <2>9. sendQ[s] = <<e>> => rest = <<>> BY <2>3
  <2>10. VillageStage(s) => VillageStage(s)' /\ e \in {"Success_CharacterSelect", "EnterVillage"}
    <3>1. /\ \A i \in DOMAIN rest : i + 1 \in DOMAIN sendQ[s] /\ rest[i] = sendQ[s][i + 1]
          /\ 1 \in DOMAIN sendQ[s] /\ e = sendQ[s][1]
      BY <1>7, <2>2, <2>3, TailElements DEF told
    <3> QED BY <1>5, <1>8, <2>7, <3>1 DEF VillageStage, Works, Changes
  <2>12. CASE phase[s] = "answer" /\ AnswerStage(s)
    <3>1. \/ e \in SignResult \ SignSuccess /\ rest = <<>> /\ Settled(s) /\ Signing(s)
          \/ e \in SignSuccess /\ ListStage(s, rest)
          \/ e = "UndefinedCharacter" /\ rest = <<>> /\ Settled(s) /\ Selecting(s)
          \/ e = "Success_CharacterSelect" /\ VillageStage(s)
      BY <1>8, <2>2, <2>3, <2>9, <2>12 DEF AnswerStage, told
    <3> QED BY <2>4, <2>6, <2>7, <2>8, <2>10, <3>1 DEF Stage, SignSuccess
  <2>13. CASE phase[s] = "list"
    <3>1. sendQ[s] = <<"CharaterInfos">> /\ Settled(s) /\ Selecting(s)
      BY <1>7, <1>8, <2>13 DEF Session, Stage, ListStage, Selecting
    <3>2. e = "CharaterInfos" /\ rest = <<>> BY <2>2, <2>3, <3>1 DEF told
    <3> QED BY <2>4, <2>6, <2>7, <2>8, <3>1, <3>2 DEF Stage
  <2>14. CASE phase[s] = "village"
    BY <2>4, <2>6, <2>10, <2>14 DEF Session, Stage
  <2> QED BY <1>7, <1>8, <2>5, <2>12, <2>13, <2>14 DEF Session, Stage, Types, TypeOK, States
<1> QED BY <1>10, <1>11, <1>12, <1>13 DEF Session

-------------------------------------------------------------------------------
(* The handlers *)

\* The session whose completion is dequeued.
LEMMA DequeueSession ==
  ASSUME Types, NEW t \in Workers, NEW s \in Sessions, Dequeue(t), Head(port).of = s, Session(s)
  PROVE  Session(s)' /\ JobOK(t)'
<1>1. PICK c : c = Head(port) OBVIOUS
<1>2. PICK e : e = state[s] OBVIOUS
<1>3. /\ port # <<>> /\ c \in Entry /\ c.of = s /\ job[t].step = "wait"
      /\ Does(t, IF c.kind = "recv" THEN "load" ELSE "sended", s, c.req, Free.res, e)
      /\ 1 \in DOMAIN port /\ c = port[1]
      /\ \A i \in DOMAIN port' : port'[i] = port[i + 1] /\ i + 1 \in DOMAIN port /\ i + 1 # 1
      /\ \A i, j \in DOMAIN port' : i + 1 = j + 1 => i = j
      /\ \A i \in DOMAIN port : i = 1 \/ (\E j \in DOMAIN port' : i = j + 1)
  BY <1>1, <1>2, DequeueDoes, PortTaken
<1>4. /\ state' = state /\ result' = result /\ cs' = cs /\ sendQ' = sendQ /\ posted' = posted
      /\ phase' = phase
  BY DEF Dequeue, sessionVars, sendVars, clientVars
<1>5. \A u \in Workers : u # t => job'[u] = job[u] BY <1>3 DEF Does
<1>6. ~Works(t, s) /\ ~Pops(t, s) /\ ~Changes(t, s) BY <1>3 DEF Works, Pops, Changes, Handler
<1>7. OneChange(s)'
  BY <1>3, <1>4, <1>5 DEF OneChange, Changes, Session, Does
<1>8. Untold(s)' = Untold(s) BY <1>4 DEF Untold
<1>9. CASE c.kind = "recv"
  <2>1. /\ Asks(1, s) /\ port[1].req = c.req
        /\ job'[t].step = "load" /\ job'[t].of = s /\ job'[t].req = c.req /\ job'[t].in = e
    BY <1>3, <1>9 DEF Does, Asks
  <2>2. /\ \A i \in DOMAIN port' : ~Asks(i, s)' /\ (Sent(i, s)' => Sent(i + 1, s))
        /\ \A u \in Workers : ~Works(u, s)
    BY <1>3, <2>1 DEF Asks, Sent, Session, OneRequest
  <2>3. OneRequest(s)' BY <1>5, <2>2 DEF OneRequest, Works
  <2>4. \A u \in Workers : Pops(u, s)' => Pops(u, s) BY <1>5, <2>1 DEF Pops
  <2>5. OneCompletion(s)' BY <1>3, <1>4, <2>2, <2>4 DEF OneCompletion, Session
  <2>6. phase[s] = "answer" /\ AskStage(s)
    BY <1>3, <2>1 DEF Session, Stage, Unanswered
  <2>7. Works(t, s)' BY <2>1 DEF Works, Handler
  <2>8. Unanswered(s)' BY <2>1, <2>7 DEF Unanswered
  <2>9. Settled(s)' BY <1>5, <2>1, <2>6 DEF AskStage, Settled, Changes
  <2>10. Signing(s) => Signing(s)' /\ e = "sign" BY <1>2, <1>4, <1>5, <2>1, <2>2 DEF Signing, Works
  <2>11. Selecting(s) => Selecting(s)' /\ e # "sign"
    BY <1>2, <1>4, <1>5, <2>1, <2>2 DEF Selecting, Works
  <2>12. AskStage(s)' BY <1>8, <2>2, <2>6, <2>9, <2>10, <2>11 DEF AskStage
  <2>13. Stage(s)' BY <1>4, <2>6, <2>8, <2>12 DEF Stage
  <2>14. JobOK(t)'
    <3>1. Signing(s) <=> c.req \in SignRequest BY <1>3, <2>1, <2>6 DEF AskStage
    <3>2. e = "sign" <=> c.req \in SignRequest BY <2>6, <2>10, <2>11, <3>1 DEF AskStage
    <3> QED BY <2>1, <3>2 DEF JobOK, Handler
  <2> QED BY <1>7, <2>3, <2>5, <2>13, <2>14 DEF Session
<1>10. CASE c.kind # "recv"
  <2>1. /\ Sent(1, s) /\ ~Asks(1, s)
        /\ job'[t].step = "sended" /\ job'[t].of = s
    BY <1>3, <1>10 DEF Does, Asks, Sent, Entry
  <2>2. /\ \A i \in DOMAIN port' : ~Sent(i, s)' /\ (Asks(i, s)' <=> Asks(i + 1, s))
        /\ \A u \in Workers : ~Pops(u, s)
        /\ ~posted[s] /\ sendQ[s] # <<>>
    BY <1>3, <2>1 DEF Asks, Sent, Session, OneCompletion
  <2>3. ~Works(t, s)' /\ ~Changes(t, s)' BY <2>1 DEF Works, Changes, Handler
  <2>4. WorkKept(s) BY <1>5, <1>6, <2>3 DEF WorkKept, Works, Changes
  <2>5. AsksKept(s) BY <1>3, <2>1, <2>2 DEF AsksKept
  <2>6. OneRequest(s)' BY <1>3, <2>2, <2>4 DEF OneRequest, Session, WorkKept
  <2>7. \A u \in Workers : Pops(u, s)' => u = t BY <1>5, <2>2 DEF Pops
  <2>8. OneCompletion(s)' BY <1>4, <2>2, <2>7 DEF OneCompletion
  <2>9. Stage(s)' BY <1>4, <1>8, <2>4, <2>5, StageFrame DEF StageKept, Session
  <2>10. JobOK(t)' BY <2>1 DEF JobOK, Handler
  <2> QED BY <1>7, <2>6, <2>8, <2>9, <2>10 DEF Session
<1> QED BY <1>9, <1>10

LEMMA SendAnswerSession ==
  ASSUME Types, NEW t \in Workers, NEW s \in Sessions, SendAnswer(t), job[t].of = s, Session(s)
  PROVE  Session(s)'
<1>1. PICK e : e = job[t].res OBVIOUS
<1>2. PICK in : in = job[t].in OBVIOUS
<1>3. /\ job[t].step = "send" /\ cs[s] = NoWorker /\ Push(s, e)
      /\ port' = port /\ state' = state /\ result' = result /\ cs' = cs /\ phase' = phase
      /\ e \in Result
  BY <1>1 DEF SendAnswer, At, sessionVars, clientVars, Types, TypeOK
<1>4. Does(t, "assign", s, job[t].req, e, in)
  BY <1>1, <1>2, StepDoes DEF SendAnswer, Go, Steps
<1>5. /\ \A u \in Workers : u # t => job'[u] = job[u]
      /\ job'[t].of = s /\ job'[t].step = "assign" /\ job'[t].res = e /\ job'[t].in = in
  BY <1>4 DEF Does
<1>6. \A u \in Workers : /\ Works(u, s)' <=> Works(u, s)
                         /\ Pops(u, s)' <=> Pops(u, s)
                         /\ Changes(u, s)' <=> Changes(u, s)
  BY <1>3, <1>5 DEF Works, Pops, Changes, Handler
<1>7. OneRequest(s)' BY <1>3, <1>6 DEF Session, OneRequest, Asks
<1>8. OneCompletion(s)' BY <1>3, <1>6, PushCompletion DEF Session
<1>9. OneChange(s)' BY <1>3, <1>6 DEF Session, OneChange
<1>10. Works(t, s) /\ Unanswered(s) BY <1>3 DEF Works, Handler, Unanswered
<1>11. \A i \in DOMAIN port : ~Asks(i, s) BY <1>10 DEF Session, OneRequest
<1>12. \A u \in Workers : Works(u, s) => u = t BY <1>10 DEF Session, OneRequest
<1>13. ~Unanswered(s)' BY <1>3, <1>5, <1>6, <1>11, <1>12 DEF Unanswered, Asks
<1>14. phase[s] = "answer" /\ AskStage(s) BY <1>10 DEF Session, Stage
<1>15. Untold(s)' = <<e>>
  <2>1. Untold(s)' = Append(Untold(s), e) BY <1>3, UntoldPushed
  <2>2. Append(<<>>, e) = <<e>> OBVIOUS
  <2> QED BY <1>14, <2>1, <2>2 DEF AskStage
<1>16. Settled(s)' BY <1>6, <1>14 DEF AskStage, Settled
<1>17. \A u \in Workers : Works(u, s)' => u = t BY <1>6, <1>12
<1>18. AnswerStage(s)'
  <2>1. CASE Signing(s)
    <3>1. in = "sign" /\ e \in SignResult
      BY <1>1, <1>2, <1>3, <1>10, <2>1 DEF Signing, Types, JobOK, Handler
    <3>2. CASE e \in SignSuccess
      <4>1. ListStage(s, <<>>)'
        BY <1>3, <1>5, <1>16, <1>17, <2>1, <3>1 DEF ListStage, Signing
      <4> QED BY <1>15, <3>2, <4>1 DEF AnswerStage
    <3>3. CASE e \notin SignSuccess
      <4>1. Signing(s)' BY <1>3, <1>5, <1>17, <2>1, <3>1, <3>3 DEF Signing
      <4> QED BY <1>15, <1>16, <3>1, <3>3, <4>1 DEF AnswerStage
    <3> QED BY <3>2, <3>3
  <2>2. CASE Selecting(s)
    <3>1. in = "select" /\ e \in {"UndefinedCharacter", "Success_CharacterSelect"}
      BY <1>1, <1>2, <1>3, <1>10, <2>2 DEF Selecting, Types, JobOK, Handler
    <3>2. CASE e = "UndefinedCharacter"
      <4>1. Selecting(s)' BY <1>3, <1>5, <1>17, <2>2, <3>1, <3>2 DEF Selecting
      <4> QED BY <1>15, <1>16, <3>2, <4>1 DEF AnswerStage
    <3>3. CASE e = "Success_CharacterSelect"
      <4>1. VillageStage(s)'
        BY <1>3, <1>5, <1>15, <1>16, <1>17, <2>2, <3>1, <3>3 DEF VillageStage, Settled, Selecting
      <4> QED BY <1>15, <3>3, <4>1 DEF AnswerStage
    <3> QED BY <3>1, <3>2, <3>3
  <2> QED BY <1>14, <2>1, <2>2 DEF AskStage
<1>19. Stage(s)' BY <1>3, <1>13, <1>14, <1>18 DEF Stage
<1> QED BY <1>7, <1>8, <1>9, <1>19 DEF Session

LEMMA AssignResultSession ==
  ASSUME Types, NEW t \in Workers, NEW s \in Sessions, AssignResult(t), job[t].of = s, Session(s)
  PROVE  /\ Session(s)'
         /\ result' \in [Sessions -> [sign : SignResult, select : SelectResult]]
<1>1. PICK e : e = job[t].res OBVIOUS
<1>2. PICK in : in = job[t].in OBVIOUS
<1>3. /\ job[t].step = "assign" /\ result' = [result EXCEPT ![s] = Results(result[s], in, e)]
      /\ port' = port /\ state' = state /\ cs' = cs /\ phase' = phase /\ sendQ' = sendQ
      /\ posted' = posted
  BY <1>1, <1>2 DEF AssignResult, At, sendVars, clientVars
<1>4. Does(t, "wait", Free.of, Free.req, Free.res, Free.in) BY FreeDoes DEF AssignResult
<1>5. /\ \A u \in Workers : u # t => job'[u] = job[u]
      /\ ~Works(t, s)' /\ ~Pops(t, s)' /\ ~Changes(t, s)'
  BY <1>4 DEF Does, Works, Pops, Changes, Handler
<1>6. Works(t, s) /\ ~Pops(t, s) /\ ~Changes(t, s) BY <1>3 DEF Works, Pops, Changes, Handler
<1>7. /\ \A u \in Workers : Works(u, s) => u = t
      /\ \A i \in DOMAIN port : ~Asks(i, s)
  BY <1>6 DEF Session, OneRequest
<1>8. \A u \in Workers : /\ ~Works(u, s)' /\ (Pops(u, s)' <=> Pops(u, s))
                         /\ Changes(u, s)' <=> Changes(u, s)
  BY <1>5, <1>6, <1>7 DEF Works, Pops, Changes
<1>9. OneRequest(s)' BY <1>3, <1>7, <1>8 DEF OneRequest, Asks
<1>10. OneCompletion(s)' BY <1>3, <1>8 DEF Session, OneCompletion, Sent
<1>11. OneChange(s)' BY <1>3, <1>8 DEF Session, OneChange
<1>12. /\ in = "sign" => e \in SignResult /\ result'[s].sign = e
                         /\ result'[s].select = result[s].select
       /\ in # "sign" => e \in SelectResult /\ result'[s].select = e
                         /\ result'[s].sign = result[s].sign
       /\ result' \in [Sessions -> [sign : SignResult, select : SelectResult]]
  <2>1. result \in [Sessions -> [sign : SignResult, select : SelectResult]] BY DEF Types
  <2>2. in = "sign" => e \in SignResult
    BY <1>1, <1>2, <1>3 DEF Types, JobOK, Handler
  <2>3. in # "sign" => e \in SelectResult
    BY <1>1, <1>2, <1>3 DEF Types, JobOK, Handler, SelectResult
  <2>4. PICK f : f = Results(result[s], in, e) OBVIOUS
  <2>5. /\ in = "sign" => f \in [sign : SignResult, select : SelectResult]
                          /\ f.sign = e /\ f.select = result[s].select
        /\ in # "sign" => f \in [sign : SignResult, select : SelectResult]
                          /\ f.select = e /\ f.sign = result[s].sign
    BY <2>1, <2>2, <2>3, <2>4 DEF Results
  <2>6. result' = [result EXCEPT ![s] = f] BY <1>3, <2>4
  <2> QED BY <2>1, <2>2, <2>3, <2>5, <2>6
<1>13. ~Unanswered(s) /\ ~Unanswered(s)'
  BY <1>3, <1>7, <1>8 DEF Unanswered, Asks
<1>14. Untold(s)' = Untold(s) BY <1>3 DEF Untold
<1>15. Settled(s) => Settled(s)' BY <1>8 DEF Settled
<1>16. Signing(s) => Signing(s)'
  BY <1>1, <1>2, <1>3, <1>6, <1>8, <1>12 DEF Signing
<1>17. Selecting(s) => Selecting(s)'
  BY <1>1, <1>2, <1>3, <1>6, <1>8, <1>12 DEF Selecting
<1>18. VillageStage(s) => VillageStage(s)' BY <1>3, <1>8, <1>14, <1>5 DEF VillageStage, Changes
<1>19. \A rest : ListStage(s, rest) => /\ rest = <<>> /\ Settled(s) /\ state[s] = "sign"
                                       /\ result[s].select # "Success_CharacterSelect"
                                       /\ in = "sign"
  BY <1>2, <1>6 DEF ListStage
<1>20. ListStage(s, Untold(s)) => ListStage(s, Untold(s))'
  BY <1>3, <1>8, <1>12, <1>14, <1>15, <1>19 DEF ListStage
<1>21. ListStage(s, Tail(Untold(s))) => ListStage(s, Tail(Untold(s)))'
  BY <1>3, <1>8, <1>12, <1>14, <1>15, <1>19 DEF ListStage
<1>22. AnswerStage(s) => AnswerStage(s)'
  BY <1>14, <1>15, <1>16, <1>17, <1>18, <1>21 DEF AnswerStage
<1>23. Stage(s)'
  BY <1>3, <1>13, <1>14, <1>15, <1>16, <1>17, <1>18, <1>20, <1>22 DEF Session, Stage
<1> QED BY <1>9, <1>10, <1>11, <1>12, <1>23 DEF Session

\* A handler that returns with no answer, or throws: nothing else of the session
\* moves.
LEMMA NoAnswerSession ==
  ASSUME Types, NEW t \in Workers, NEW s \in Sessions, job[t].of = s, Session(s),
         job[t].step \in {"load", "save"}, NEW p \in {"select", "ended"},
         p = "select" => job[t].req \notin SignRequest,
         Does(t, "wait", Free.of, Free.req, Free.res, Free.in),
         phase' = [phase EXCEPT ![s] = p],
         port' = port, state' = state, result' = result, cs' = cs, sendQ' = sendQ,
         posted' = posted
  PROVE  Session(s)'
<1>1. /\ \A u \in Workers : u # t => job'[u] = job[u]
      /\ ~Works(t, s)' /\ ~Pops(t, s)' /\ ~Changes(t, s)'
  BY DEF Does, Works, Pops, Changes, Handler
<1>2. Works(t, s) /\ ~Pops(t, s) /\ ~Changes(t, s) /\ Unanswered(s)
  BY DEF Works, Pops, Changes, Handler, Unanswered
<1>3. /\ \A u \in Workers : Works(u, s) => u = t
      /\ \A i \in DOMAIN port : ~Asks(i, s)
  BY <1>2 DEF Session, OneRequest
<1>4. \A u \in Workers : /\ ~Works(u, s)' /\ (Pops(u, s)' <=> Pops(u, s))
                         /\ Changes(u, s)' <=> Changes(u, s)
  BY <1>1, <1>2, <1>3 DEF Works, Pops, Changes
<1>5. OneRequest(s)' BY <1>3, <1>4 DEF OneRequest, Asks
<1>6. OneCompletion(s)' BY <1>4 DEF Session, OneCompletion, Sent
<1>7. OneChange(s)' BY <1>4 DEF Session, OneChange
<1>8. phase[s] = "answer" /\ AskStage(s) BY <1>2 DEF Session, Stage
<1>9. Untold(s)' = <<>> BY <1>8 DEF Untold, AskStage
<1>10. Settled(s)' BY <1>4, <1>8 DEF Settled, AskStage
<1>11. (Signing(s) => Signing(s)') /\ (Selecting(s) => Selecting(s)')
  BY <1>4 DEF Signing, Selecting
<1>12. job[t].req \notin SignRequest => Selecting(s)
  BY <1>2, <1>8 DEF AskStage, Signing, Types, JobOK, Handler
<1>13. ~Unanswered(s)' BY <1>3, <1>4 DEF Unanswered, Asks
<1>14. phase'[s] = p BY DEF Types, TypeOK
<1>15. Stage(s)'
  BY <1>8, <1>9, <1>10, <1>11, <1>12, <1>13, <1>14 DEF AskStage, Stage
<1> QED BY <1>5, <1>6, <1>7, <1>15 DEF Session

-------------------------------------------------------------------------------
(* The completion of a send *)

LEMMA OnSendCompletedSession ==
  ASSUME Types, NEW t \in Workers, NEW s \in Sessions, OnSendCompleted(t), job[t].of = s, Session(s)
  PROVE  /\ Session(s)'
         /\ sendQ' \in [Sessions -> Seq(Result)] /\ posted' \in [Sessions -> BOOLEAN]
         /\ \A u \in Sessions : u # s => sendQ'[u] = sendQ[u] /\ posted'[u] = posted[u]
<1>1. PICK next : next = NextState(s) OBVIOUS
<1>2. /\ job[t].step = "sended" /\ cs[s] = NoWorker
      /\ sendQ' = [sendQ EXCEPT ![s] = Tail(sendQ[s])]
      /\ posted' = [posted EXCEPT ![s] = Len(sendQ[s]) > 1]
      /\ result' = result /\ port' = port /\ phase' = phase
  BY DEF OnSendCompleted, At, clientVars
<1>3. /\ next \in States /\ state' = [state EXCEPT ![s] = next]
      /\ \/ /\ next = state[s] /\ cs' = cs
            /\ Does(t, "wait", Free.of, Free.req, Free.res, Free.in)
         \/ /\ next # state[s] /\ cs' = [cs EXCEPT ![s] = t]
            /\ Does(t, "changed", s, job[t].req, job[t].res, next)
  BY <1>1, OnSendCompletedDoes
<1>4. /\ \A u \in Workers : u # t => job'[u] = job[u]
      /\ ~Works(t, s)' /\ ~Pops(t, s)'
  BY <1>3 DEF Does, Works, Pops, Handler
<1>5. Pops(t, s) /\ ~Works(t, s) BY <1>2 DEF Pops, Works, Handler
<1>6. \A u \in Workers : ~Changes(u, s)
  BY <1>2, SignAssumption DEF Session, OneChange, SignAssumption
<1>7. /\ ~posted[s] /\ sendQ[s] # <<>> /\ (\A i \in DOMAIN port : ~Sent(i, s))
      /\ \A u \in Workers : Pops(u, s) => u = t
  BY <1>5 DEF Session, OneCompletion
<1>8. /\ sendQ' \in [Sessions -> Seq(Result)] /\ posted' \in [Sessions -> BOOLEAN]
      /\ Untold(s)' = Untold(s) /\ (posted'[s] => sendQ'[s] # <<>>)
      /\ \A u \in Sessions : u # s => sendQ'[u] = sendQ[u] /\ posted'[u] = posted[u]
  BY <1>2, <1>7, UntoldPopped
<1>9. \A u \in Workers : (Works(u, s)' <=> Works(u, s)) /\ ~Pops(u, s)'
  BY <1>4, <1>5, <1>7 DEF Works, Pops
<1>10. OneRequest(s)' BY <1>2, <1>9 DEF Session, OneRequest, Asks
<1>11. OneCompletion(s)' BY <1>2, <1>7, <1>8, <1>9 DEF OneCompletion, Sent
<1>12. state \in [Sessions -> States] /\ cs \in [Sessions -> Workers \cup {NoWorker}]
  BY DEF Types, TypeOK
<1>13. CASE next = state[s]
  <2>1. state' = state /\ cs' = cs BY <1>3, <1>12, <1>13
  <2>2. ~Changes(t, s)' BY <1>3, <1>13 DEF Does, Changes
  <2>3. \A u \in Workers : ~Changes(u, s)' BY <1>4, <1>6, <2>2 DEF Changes
  <2>4. WorkKept(s) BY <1>4, <1>5, <1>6, <1>9, <2>3 DEF WorkKept, Works
  <2>5. AsksKept(s) BY <1>2 DEF AsksKept, Asks
  <2>6. Stage(s)' BY <1>2, <1>8, <2>1, <2>4, <2>5, StageFrame DEF StageKept, Session
  <2>7. OneChange(s)' BY <2>3 DEF OneChange
  <2> QED BY <1>8, <1>10, <1>11, <2>6, <2>7 DEF Session
<1>14. CASE next # state[s]
  <2>1. /\ state'[s] = next /\ cs'[s] = t /\ job'[t].in = next
    BY <1>3, <1>12, <1>14 DEF Does
  <2>2. \A u \in Workers : Changes(u, s)' => u = t BY <1>4, <1>6 DEF Changes
  <2>3. OneChange(s)' BY <2>1, <2>2 DEF OneChange
  <2>4. \/ state[s] = "sign" /\ result[s].sign \in SignSuccess /\ next = "select"
        \/ state[s] = "select" /\ result[s].select = "Success_CharacterSelect" /\ next = "village"
    BY <1>1, <1>14 DEF NextState
  <2>5. ~Signing(s) /\ ~Selecting(s) /\ ~AskStage(s) BY <2>4 DEF Signing, Selecting, AskStage
  <2>6. /\ VillageStage(s) => next = "village"
        /\ \A rest : ListStage(s, rest) => /\ rest = <<>> /\ next = "select"
                                           /\ result[s].select # "Success_CharacterSelect"
                                           /\ \A u \in Workers : ~Works(u, s)
    BY <2>4 DEF VillageStage, ListStage
  <2>7. VillageStage(s) => VillageStage(s)'
    BY <1>4, <1>8, <1>9, <2>1, <2>2, <2>6 DEF VillageStage, Works
  <2>8. ListStage(s, Untold(s)) => ListStage(s, Untold(s))'
    BY <1>2, <1>8, <1>9, <2>1, <2>2, <2>6 DEF ListStage
  <2>9. ListStage(s, Tail(Untold(s))) => ListStage(s, Tail(Untold(s)))'
    BY <1>2, <1>8, <1>9, <2>1, <2>2, <2>6 DEF ListStage
  <2>10. AnswerStage(s) => AnswerStage(s)'
    BY <1>8, <2>5, <2>7, <2>9 DEF AnswerStage
  <2>11. Unanswered(s)' => Unanswered(s)
    BY <1>2, <1>4, <1>9 DEF Unanswered, Asks, Works
  <2>12. ~Unanswered(s) /\ phase[s] \in {"answer", "list", "village"}
    BY <2>5 DEF Session, Stage, Types, TypeOK, States
  <2>13. Stage(s)'
    BY <1>2, <2>7, <2>8, <2>10, <2>11, <2>12 DEF Session, Stage
  <2> QED BY <1>8, <1>10, <1>11, <2>3, <2>13 DEF Session
<1> QED BY <1>13, <1>14

LEMMA OnChangedSession ==
  ASSUME Types, NEW t \in Workers, NEW s \in Sessions, OnChangedToThis(t), job[t].of = s, Session(s)
  PROVE  /\ Session(s)'
         /\ sendQ' \in [Sessions -> Seq(Result)] /\ posted' \in [Sessions -> BOOLEAN]
         /\ \A u \in Sessions : u # s => sendQ'[u] = sendQ[u] /\ posted'[u] = posted[u]
         /\ result' \in [Sessions -> [sign : SignResult, select : SelectResult]]
         /\ \A u \in Sessions : u # s => result'[u] = result[u]
<1>1. /\ job[t].step = "changed" /\ cs' = [cs EXCEPT ![s] = NoWorker]
      /\ state' = state /\ port' = port /\ phase' = phase
  BY DEF OnChangedToThis, At, clientVars
<1>2. PICK in : in = job[t].in OBVIOUS
<1>3. result \in [Sessions -> [sign : SignResult, select : SelectResult]] BY DEF Types
<1>4. PICK e \in {"CharaterInfos", "EnterVillage"} :
        /\ Push(s, e) /\ e \in Result
        /\ \/ /\ in = "select" /\ e = "CharaterInfos"
              /\ result' = [result EXCEPT ![s].select = "CharaterInfos"]
           \/ in = "village" /\ e = "EnterVillage" /\ result' = result
  BY <1>2 DEF OnChangedToThis, Result, SelectResult
<1>5. /\ result' \in [Sessions -> [sign : SignResult, select : SelectResult]]
      /\ result[s].select # "Success_CharacterSelect" =>
           result'[s].select # "Success_CharacterSelect"
      /\ \A u \in Sessions : u # s => result'[u] = result[u]
  BY <1>3, <1>4 DEF SelectResult
<1>6. Does(t, "wait", Free.of, Free.req, Free.res, Free.in) BY FreeDoes DEF OnChangedToThis
<1>7. /\ \A u \in Workers : u # t => job'[u] = job[u]
      /\ ~Works(t, s)' /\ ~Pops(t, s)' /\ ~Changes(t, s)'
  BY <1>6 DEF Does, Works, Pops, Changes, Handler
<1>8. Changes(t, s) /\ ~Works(t, s) /\ ~Pops(t, s) BY <1>1 DEF Works, Pops, Changes, Handler
<1>9. \A u \in Workers : Changes(u, s) => u = t BY <1>8 DEF Session, OneChange
<1>10. \A u \in Workers : /\ Works(u, s)' <=> Works(u, s)
                          /\ Pops(u, s)' <=> Pops(u, s)
                          /\ ~Changes(u, s)'
  BY <1>7, <1>8, <1>9 DEF Works, Pops, Changes
<1>11. OneRequest(s)' BY <1>1, <1>10 DEF Session, OneRequest, Asks
<1>12. OneCompletion(s)' BY <1>1, <1>4, <1>10, PushCompletion DEF Session
<1>13. OneChange(s)' BY <1>10 DEF OneChange
<1>14. /\ Untold(s) \in Seq(Result) /\ Untold(s)' = Append(Untold(s), e)
       /\ sendQ' \in [Sessions -> Seq(Result)] /\ posted' \in [Sessions -> BOOLEAN]
       /\ \A u \in Sessions : u # s => sendQ'[u] = sendQ[u] /\ posted'[u] = posted[u]
  BY <1>4, UntoldPushed
<1>15. PICK q \in Seq(Result) : q = Untold(s) BY <1>14
<1>16. Untold(s)' = Append(q, e) BY <1>14, <1>15
<1>17. ~Settled(s) /\ Settled(s)' BY <1>8, <1>10 DEF Settled
<1>18. Unanswered(s)' => Unanswered(s) BY <1>1, <1>7, <1>10 DEF Unanswered, Asks, Works
<1>19. ~Unanswered(s) /\ phase[s] \in {"answer", "list", "village"}
  BY <1>17 DEF Session, Stage, AskStage, Types, TypeOK, States
<1>20. VillageStage(s) => in = "village" /\ VillageStage(s)'
  <2>1. VillageStage(s) => in = "village" BY <1>2, <1>8 DEF VillageStage
  <2>2. \A i \in DOMAIN Append(q, e) : (i \in DOMAIN q /\ Append(q, e)[i] = q[i]) \/ Append(q, e)[i] = e
    BY <1>4, SeqFacts
  <2> QED BY <1>1, <1>4, <1>7, <1>10, <1>15, <1>16, <2>1, <2>2 DEF VillageStage, Works
<1>21. \A rest : ListStage(s, rest) =>
         /\ rest = <<>> /\ in = "select" /\ state[s] = "select"
         /\ result[s].select # "Success_CharacterSelect" /\ \A u \in Workers : ~Works(u, s)
  BY <1>2, <1>8, <1>17 DEF ListStage
<1>22. ASSUME NEW rest, ListStage(s, rest) PROVE ListStage(s, <<"CharaterInfos">>)' /\ e = "CharaterInfos"
  BY <1>1, <1>4, <1>5, <1>10, <1>17, <1>21, <1>22 DEF ListStage
<1>23. ListStage(s, Untold(s)) => ListStage(s, Untold(s))'
  <2> SUFFICES ASSUME ListStage(s, Untold(s)) PROVE ListStage(s, Untold(s))' OBVIOUS
  <2>1. q = <<>> /\ e = "CharaterInfos" /\ ListStage(s, <<"CharaterInfos">>)'
    BY <1>15, <1>21, <1>22
  <2>2. Untold(s)' = <<"CharaterInfos">>
    <3>1. Append(<<>>, "CharaterInfos") = <<"CharaterInfos">> OBVIOUS
    <3> QED BY <1>16, <2>1, <3>1
  <2> QED BY <2>1, <2>2
<1>24. AnswerStage(s) => AnswerStage(s)'
  <2> SUFFICES ASSUME AnswerStage(s) PROVE AnswerStage(s)' OBVIOUS
  <2>1. q # <<>> BY <1>15 DEF AnswerStage
  <2>2. PICK told : told = Head(q) OBVIOUS
  <2>3. /\ Append(q, e) # <<>> /\ Head(Append(q, e)) = told
        /\ Tail(Append(q, e)) = Append(Tail(q), e)
    BY <1>4, <2>1, <2>2, SeqFacts
  <2>4. \/ told \in SignSuccess /\ ListStage(s, Tail(q))
        \/ told = "Success_CharacterSelect" /\ VillageStage(s)
    BY <1>15, <1>17, <2>2 DEF AnswerStage
  <2>5. CASE told \in SignSuccess /\ ListStage(s, Tail(q))
    <3>1. Tail(q) = <<>> /\ e = "CharaterInfos" /\ ListStage(s, <<"CharaterInfos">>)'
      BY <1>21, <1>22, <2>5
    <3>2. Tail(Append(q, e)) = <<"CharaterInfos">>
      <4>1. Append(<<>>, "CharaterInfos") = <<"CharaterInfos">> OBVIOUS
      <4> QED BY <2>3, <3>1, <4>1
    <3>3. Tail(Untold(s))' = <<"CharaterInfos">> BY <1>16, <3>2
    <3> QED BY <1>16, <2>3, <2>5, <3>1, <3>3 DEF AnswerStage
  <2>6. CASE told = "Success_CharacterSelect" /\ VillageStage(s)
    BY <1>16, <1>20, <2>3, <2>6 DEF AnswerStage
  <2> QED BY <2>4, <2>5, <2>6
<1>25. Stage(s)' BY <1>1, <1>18, <1>19, <1>20, <1>23, <1>24 DEF Session, Stage
<1> QED BY <1>5, <1>11, <1>12, <1>13, <1>14, <1>25 DEF Session

\* The list is not sent: its client waits as before.
LEMMA ListThrowsSession ==
  ASSUME Types, NEW t \in Workers, NEW s \in Sessions, ListThrows(t), job[t].of = s, Session(s)
  PROVE  Session(s)'
<1>1. /\ job[t].step = "changed" /\ job[t].in = "select" /\ cs' = [cs EXCEPT ![s] = NoWorker]
      /\ state' = state /\ port' = port /\ phase' = phase /\ result' = result
      /\ sendQ' = sendQ /\ posted' = posted
  BY DEF ListThrows, At, sessionVars, clientVars
<1>2. Does(t, "wait", Free.of, Free.req, Free.res, Free.in) BY FreeDoes DEF ListThrows
<1>3. /\ \A u \in Workers : u # t => job'[u] = job[u]
      /\ ~Works(t, s)' /\ ~Pops(t, s)' /\ ~Changes(t, s)'
  BY <1>2 DEF Does, Works, Pops, Changes, Handler
<1>4. Changes(t, s) /\ ~Works(t, s) /\ ~Pops(t, s) BY <1>1 DEF Works, Pops, Changes, Handler
<1>5. \A u \in Workers : Changes(u, s) => u = t BY <1>4 DEF Session, OneChange
<1>6. \A u \in Workers : /\ Works(u, s)' <=> Works(u, s)
                         /\ Pops(u, s)' <=> Pops(u, s)
                         /\ ~Changes(u, s)'
  BY <1>3, <1>4, <1>5 DEF Works, Pops, Changes
<1>7. OneRequest(s)' BY <1>1, <1>6 DEF Session, OneRequest, Asks
<1>8. OneCompletion(s)' BY <1>1, <1>6 DEF Session, OneCompletion, Sent
<1>9. OneChange(s)' BY <1>6 DEF OneChange
<1>10. ~Settled(s) /\ Settled(s)' BY <1>4, <1>6 DEF Settled
<1>11. Untold(s)' = Untold(s) BY <1>1 DEF Untold
<1>12. Unanswered(s)' => Unanswered(s) BY <1>1, <1>3, <1>6 DEF Unanswered, Asks, Works
<1>13. ~Unanswered(s) /\ phase[s] \in {"answer", "list", "village"}
  BY <1>10 DEF Session, Stage, AskStage, Types, TypeOK, States
<1>14. ~VillageStage(s) BY <1>1, <1>4 DEF VillageStage
<1>15. ListStage(s, Untold(s)) => ListStage(s, Untold(s))'
  BY <1>1, <1>6, <1>10, <1>11 DEF ListStage
<1>16. ListStage(s, Tail(Untold(s))) => ListStage(s, Tail(Untold(s)))'
  BY <1>1, <1>6, <1>10, <1>11 DEF ListStage
<1>17. AnswerStage(s) => AnswerStage(s)'
  BY <1>10, <1>11, <1>14, <1>16 DEF AnswerStage
<1>18. Stage(s)' BY <1>1, <1>12, <1>13, <1>14, <1>15, <1>17 DEF Session, Stage
<1> QED BY <1>7, <1>8, <1>9, <1>18 DEF Session

-------------------------------------------------------------------------------
(* Every step *)

LEMMA FlowInit == Init => FlowInv
<1> SUFFICES ASSUME Init, NEW s \in Sessions PROVE Session(s) BY DEF FlowInv
<1>1. /\ port = <<>> /\ \A t \in Workers : job[t].step = "wait"
  BY FreeTyped DEF Init
<1>2. /\ sendQ[s] = <<>> /\ ~posted[s] /\ phase[s] = "sign" /\ state[s] = "sign"
      /\ result[s].sign = "None" /\ result[s].select = "None"
  BY DEF Init
<1>3. /\ \A t \in Workers : ~Works(t, s) /\ ~Pops(t, s) /\ ~Changes(t, s)
      /\ \A i \in DOMAIN port : FALSE
  BY <1>1 DEF Works, Pops, Changes, Handler
<1>4. OneRequest(s) /\ OneCompletion(s) /\ OneChange(s)
  BY <1>2, <1>3 DEF OneRequest, OneCompletion, OneChange
<1>5. Stage(s) BY <1>2, <1>3 DEF Stage, Signing, Settled, Untold, Unanswered, SignSuccess
<1> QED BY <1>4, <1>5 DEF Session

LEMMA TypesParts ==
  ASSUME signinfo' \in Seq(IDs), state' \in [Sessions -> States],
         result' \in [Sessions -> [sign : SignResult, select : SelectResult]],
         isSigned' \in [Sessions -> BOOLEAN], chosen' \in [Sessions -> Characters \cup {"none"}],
         cs' \in [Sessions -> Workers \cup {NoWorker}], sendQ' \in [Sessions -> Seq(Result)],
         posted' \in [Sessions -> BOOLEAN], port' \in Seq(Entry), job' \in [Workers -> Job],
         phase' \in [Sessions -> States \cup {"answer", "list", "ended"}],
         asked' \in [Sessions -> 0 .. MaxAsk], \A t \in Workers : JobOK(t)'
  PROVE  Types'
<1>1. \A s \in Sessions : result'[s].sign \in SignResult /\ result'[s].select \in SelectResult
  OBVIOUS
<1> QED BY <1>1 DEF Types, TypeOK, Entry, Job

LEMMA PartsTyped ==
  ASSUME Types
  PROVE  /\ signinfo \in Seq(IDs) /\ state \in [Sessions -> States]
         /\ result \in [Sessions -> [sign : SignResult, select : SelectResult]]
         /\ isSigned \in [Sessions -> BOOLEAN] /\ chosen \in [Sessions -> Characters \cup {"none"}]
         /\ cs \in [Sessions -> Workers \cup {NoWorker}] /\ sendQ \in [Sessions -> Seq(Result)]
         /\ posted \in [Sessions -> BOOLEAN] /\ port \in Seq(Entry) /\ job \in [Workers -> Job]
         /\ phase \in [Sessions -> States \cup {"answer", "list", "ended"}]
         /\ asked \in [Sessions -> 0 .. MaxAsk] /\ \A t \in Workers : JobOK(t)
BY DEF Types, TypeOK, Entry, Job

LEMMA JobsOK ==
  ASSUME Types, NEW t \in Workers, NEW x, NEW of, NEW req, NEW res, NEW in,
         Does(t, x, of, req, res, in), JobOK(t)'
  PROVE  job' \in [Workers -> Job] /\ \A u \in Workers : JobOK(u)'
BY DEF Does, Types, JobOK

LEMMA AskStep ==
  ASSUME Types, FlowInv, NEW s \in Sessions, Ask(s) PROVE Types' /\ FlowInv'
<1>1. PICK r \in Request : port' = Append(port, [of |-> s, kind |-> "recv", req |-> r])
  BY DEF Ask, Request
<1>2. PICK c \in Entry : port' = Append(port, c) /\ c.of = s BY <1>1 DEF Entry
<1>3. port' \in Seq(Entry) BY <1>2, PortAppended
<1>4. /\ job' = job /\ signinfo' = signinfo /\ state' = state /\ result' = result
      /\ isSigned' = isSigned /\ chosen' = chosen /\ cs' = cs /\ sendQ' = sendQ /\ posted' = posted
      /\ phase' = [phase EXCEPT ![s] = "answer"] /\ asked' = [asked EXCEPT ![s] = asked[s] + 1]
      /\ asked[s] < MaxAsk
  BY DEF Ask, sessionVars, sendVars
<1>5. phase' \in [Sessions -> States \cup {"answer", "list", "ended"}] BY <1>4, PartsTyped
<1>6. asked' \in [Sessions -> 0 .. MaxAsk]
  <2>1. asked[s] + 1 \in 0 .. MaxAsk BY <1>4, PartsTyped, SignAssumption DEF SignAssumption
  <2> QED BY <1>4, <2>1, PartsTyped
<1>7. \A t \in Workers : JobOK(t)' BY <1>4, PartsTyped DEF JobOK
<1>8. Types' BY <1>3, <1>4, <1>5, <1>6, <1>7, PartsTyped, TypesParts
<1>9. ASSUME NEW u \in Sessions PROVE Session(u)'
  <2>1. CASE u = s BY <2>1, AskSession DEF FlowInv
  <2>2. CASE u # s
    <3>1. PortKept(u) BY <1>2, <2>2 DEF PortKept
    <3>2. JobsKept(u) BY <1>4 DEF JobsKept, WorkKept, Works, Pops, Changes
    <3>3. ValuesKept(u) BY <1>4, <2>2, PartsTyped DEF ValuesKept, StageKept
    <3> QED BY <3>1, <3>2, <3>3, SessionFrame DEF FlowInv
  <2> QED BY <2>1, <2>2
<1> QED BY <1>8, <1>9 DEF FlowInv

LEMMA TransmitStep ==
  ASSUME Types, FlowInv, NEW s \in Sessions, Transmit(s) PROVE Types' /\ FlowInv'
<1>1. PICK c \in Entry : port' = Append(port, c) /\ c.of = s
  <2>1. [of |-> s, kind |-> "send", req |-> NoRequest] \in Entry BY RequestsExist DEF Entry
  <2>2. port' = Append(port, [of |-> s, kind |-> "send", req |-> NoRequest]) BY DEF Transmit
  <2> QED BY <2>1, <2>2
<1>2. port' \in Seq(Entry) BY <1>1, PortAppended
<1>3. PICK p \in {"list", "select", "village", "sign"} : phase' = [phase EXCEPT ![s] = p]
  <2> DEFINE told == Head(sendQ[s])
             p == CASE told \in SignSuccess -> "list"
                    [] told \in {"CharaterInfos", "UndefinedCharacter"} -> "select"
                    [] told \in {"Success_CharacterSelect", "EnterVillage"} -> "village"
                    [] OTHER -> "sign"
  <2>1. phase' = [phase EXCEPT ![s] = p] BY DEF Transmit
  <2>2. p \in {"list", "select", "village", "sign"} OBVIOUS
  <2> QED BY <2>1, <2>2
<1>4. /\ job' = job /\ signinfo' = signinfo /\ state' = state /\ result' = result
      /\ isSigned' = isSigned /\ chosen' = chosen /\ cs' = cs /\ sendQ' = sendQ
      /\ posted' = [posted EXCEPT ![s] = FALSE] /\ asked' = asked
  BY DEF Transmit, sessionVars
<1>5. /\ phase' \in [Sessions -> States \cup {"answer", "list", "ended"}]
      /\ posted' \in [Sessions -> BOOLEAN]
  BY <1>3, <1>4, PartsTyped DEF States
<1>6. \A t \in Workers : JobOK(t)' BY <1>4, PartsTyped DEF JobOK
<1>7. Types' BY <1>2, <1>4, <1>5, <1>6, PartsTyped, TypesParts
<1>8. ASSUME NEW u \in Sessions PROVE Session(u)'
  <2>1. CASE u = s BY <2>1, TransmitSession DEF FlowInv
  <2>2. CASE u # s
    <3>1. PortKept(u) BY <1>1, <2>2 DEF PortKept
    <3>2. JobsKept(u) BY <1>4 DEF JobsKept, WorkKept, Works, Pops, Changes
    <3>3. ValuesKept(u) BY <1>3, <1>4, <2>2, PartsTyped DEF ValuesKept, StageKept
    <3> QED BY <3>1, <3>2, <3>3, SessionFrame DEF FlowInv
  <2> QED BY <2>1, <2>2
<1> QED BY <1>7, <1>8 DEF FlowInv

LEMMA DequeueStep ==
  ASSUME Types, FlowInv, NEW t \in Workers, Dequeue(t) PROVE Types' /\ FlowInv'
<1>1. PICK c : c = Head(port) OBVIOUS
<1>2. /\ port # <<>> /\ c \in Entry /\ port' = Tail(port) /\ job[t].step = "wait"
      /\ Does(t, IF c.kind = "recv" THEN "load" ELSE "sended", c.of, c.req, Free.res, state[c.of])
  BY <1>1, DequeueDoes
<1>3. c.of \in Sessions BY <1>2 DEF Entry
<1>4. JobOK(t)' BY <1>1, <1>3, DequeueSession DEF FlowInv
<1>5. /\ signinfo' = signinfo /\ state' = state /\ result' = result
      /\ isSigned' = isSigned /\ chosen' = chosen /\ cs' = cs /\ sendQ' = sendQ /\ posted' = posted
      /\ phase' = phase /\ asked' = asked
  BY DEF Dequeue, sessionVars, sendVars, clientVars
<1>6. job' \in [Workers -> Job] /\ \A u \in Workers : JobOK(u)' BY <1>2, <1>4, JobsOK
<1>7. port' \in Seq(Entry) BY <1>2, PortTaken
<1>8. Types' BY <1>5, <1>6, <1>7, PartsTyped, TypesParts
<1>9. ASSUME NEW u \in Sessions PROVE Session(u)'
  <2>1. CASE u = c.of BY <1>1, <2>1, DequeueSession DEF FlowInv
  <2>2. CASE u # c.of
    <3>1. PortKept(u) BY <1>1, <1>2, <2>2 DEF PortKept
    <3>2. JobsKept(u) BY <1>2, <2>2, OthersKept
    <3>3. ValuesKept(u) BY <1>5 DEF ValuesKept, StageKept
    <3> QED BY <3>1, <3>2, <3>3, SessionFrame DEF FlowInv
  <2> QED BY <2>1, <2>2
<1> QED BY <1>8, <1>9 DEF FlowInv

LEMMA SignLoadStep ==
  ASSUME Types, FlowInv, NEW t \in Workers, SignLoad(t) PROVE Types' /\ FlowInv'
<1>1. PICK res \in SignResult :
        /\ \/ Does(t, "send", job[t].of, job[t].req, res, job[t].in)
           \/ Does(t, "save", job[t].of, job[t].req, res, job[t].in)
        /\ job[t].req \in SignRequest /\ job[t].step = "load"
        /\ isSigned' = [isSigned EXCEPT ![job[t].of] =
             IF res \in SignSuccess THEN res = "Success_SignIn" ELSE @]
  BY SignLoadDoes
<1>2. PICK x \in {"send", "save"} : Does(t, x, job[t].of, job[t].req, res, job[t].in)
  BY <1>1
<1>3. isSigned' \in [Sessions -> BOOLEAN] BY <1>1, PartsTyped DEF Job
<1>4. JobOK(t)' BY <1>1, <1>2, PartsTyped DEF Does, JobOK, Handler
<1>5. /\ signinfo' = signinfo /\ state' = state /\ result' = result /\ port' = port
      /\ chosen' = chosen /\ cs' = cs /\ sendQ' = sendQ /\ posted' = posted
      /\ phase' = phase /\ asked' = asked
  BY DEF SignLoad, sendVars, clientVars
<1>6. job' \in [Workers -> Job] /\ \A u \in Workers : JobOK(u)' BY <1>2, <1>4, JobsOK
<1>7. Types' BY <1>3, <1>5, <1>6, PartsTyped, TypesParts
<1>8. ASSUME NEW u \in Sessions PROVE Session(u)'
  BY <1>1, <1>2, <1>5, HandlingKept, SessionFrame DEF PortKept, ValuesKept, StageKept, FlowInv
<1> QED BY <1>7, <1>8 DEF FlowInv

LEMMA SaveInfoStep ==
  ASSUME Types, FlowInv, NEW t \in Workers, SaveInfo(t) PROVE Types' /\ FlowInv'
<1>1. /\ job[t].step = "save" /\ Does(t, "send", job[t].of, job[t].req, job[t].res, job[t].in)
  BY StepDoes DEF SaveInfo, At, Go, Steps
<1>2. signinfo' \in Seq(IDs)
  <2>1. job[t].req.key \in IDs
    BY <1>1, PartsTyped DEF JobOK, SignRequest
  <2> QED BY <2>1, PartsTyped DEF SaveInfo
<1>3. JobOK(t)' BY <1>1, PartsTyped DEF Does, JobOK, Handler
<1>4. /\ state' = state /\ result' = result /\ port' = port /\ isSigned' = isSigned
      /\ chosen' = chosen /\ cs' = cs /\ sendQ' = sendQ /\ posted' = posted
      /\ phase' = phase /\ asked' = asked
  BY DEF SaveInfo, sessionVars, sendVars, clientVars
<1>5. job' \in [Workers -> Job] /\ \A u \in Workers : JobOK(u)' BY <1>1, <1>3, JobsOK
<1>6. Types' BY <1>2, <1>4, <1>5, PartsTyped, TypesParts
<1>7. ASSUME NEW u \in Sessions PROVE Session(u)'
  BY <1>1, <1>4, HandlingKept, SessionFrame DEF PortKept, ValuesKept, StageKept, FlowInv
<1> QED BY <1>6, <1>7 DEF FlowInv

LEMMA SelectLoadStep ==
  ASSUME Types, FlowInv, NEW t \in Workers, SelectLoad(t) PROVE Types' /\ FlowInv'
<1>1. PICK res \in {"UndefinedCharacter", "Success_CharacterSelect"} :
        /\ Does(t, "send", job[t].of, job[t].req, res, job[t].in)
        /\ job[t].req \notin SignRequest /\ job[t].step = "load"
        /\ job[t].req.key \in Characters
  BY SelectLoadDoes
<1>2. chosen' \in [Sessions -> Characters \cup {"none"}]
  BY <1>1, PartsTyped DEF SelectLoad
<1>3. JobOK(t)' BY <1>1, PartsTyped DEF Does, JobOK, Handler
<1>4. /\ signinfo' = signinfo /\ state' = state /\ result' = result /\ port' = port
      /\ isSigned' = isSigned /\ cs' = cs /\ sendQ' = sendQ /\ posted' = posted
      /\ phase' = phase /\ asked' = asked
  BY DEF SelectLoad, sendVars, clientVars
<1>5. job' \in [Workers -> Job] /\ \A u \in Workers : JobOK(u)' BY <1>1, <1>3, JobsOK
<1>6. Types' BY <1>2, <1>4, <1>5, PartsTyped, TypesParts
<1>7. ASSUME NEW u \in Sessions PROVE Session(u)'
  BY <1>1, <1>4, HandlingKept, SessionFrame DEF PortKept, ValuesKept, StageKept, FlowInv
<1> QED BY <1>6, <1>7 DEF FlowInv

\* A step of a handler that ends with no answer.
LEMMA NoAnswerStep ==
  ASSUME Types, FlowInv, NEW t \in Workers, NEW p \in {"select", "ended"},
         job[t].step \in {"load", "save"}, p = "select" => job[t].req \notin SignRequest,
         job' = [job EXCEPT ![t] = Free], phase' = [phase EXCEPT ![job[t].of] = p],
         chosen' \in [Sessions -> Characters \cup {"none"}],
         signinfo' = signinfo, state' = state, result' = result, port' = port,
         isSigned' = isSigned, cs' = cs, sendQ' = sendQ, posted' = posted, asked' = asked
  PROVE  Types' /\ FlowInv'
<1>1. PICK s \in Sessions : s = job[t].of BY PartsTyped DEF Job
<1>2. Does(t, "wait", Free.of, Free.req, Free.res, Free.in) BY FreeDoes
<1>3. JobOK(t)' BY <1>2 DEF Does, JobOK, Handler
<1>4. job' \in [Workers -> Job] /\ \A u \in Workers : JobOK(u)' BY <1>2, <1>3, JobsOK
<1>5. phase' \in [Sessions -> States \cup {"answer", "list", "ended"}]
  BY PartsTyped DEF States
<1>6. Types' BY <1>4, <1>5, PartsTyped, TypesParts
<1>7. ASSUME NEW u \in Sessions PROVE Session(u)'
  <2>1. CASE u = s BY <1>1, <1>2, <2>1, NoAnswerSession DEF FlowInv
  <2>2. CASE u # s
    <3>1. JobsKept(u) BY <1>1, <1>2, <2>2, OthersKept
    <3>2. phase'[u] = phase[u] BY <1>1, <2>2, PartsTyped
    <3> QED BY <3>1, <3>2, SessionFrame DEF PortKept, ValuesKept, StageKept, FlowInv
  <2> QED BY <2>1, <2>2
<1> QED BY <1>6, <1>7 DEF FlowInv

LEMMA SelectSignOutStep ==
  ASSUME Types, FlowInv, NEW t \in Workers, SelectSignOut(t) PROVE Types' /\ FlowInv'
<1>1. job[t].step = "load" /\ job[t].req \notin SignRequest
  BY DEF SelectSignOut, At, SignRequest
<1>2. /\ job' = [job EXCEPT ![t] = Free] /\ phase' = [phase EXCEPT ![job[t].of] = "select"]
      /\ signinfo' = signinfo /\ state' = state /\ result' = result /\ port' = port
      /\ isSigned' = isSigned /\ cs' = cs /\ sendQ' = sendQ /\ posted' = posted
      /\ asked' = asked /\ chosen' = chosen
  BY DEF SelectSignOut, sessionVars, sendVars
<1> QED BY <1>1, <1>2, NoAnswerStep, PartsTyped

LEMMA ThrowsStep ==
  ASSUME Types, FlowInv, NEW t \in Workers, Throws(t) PROVE Types' /\ FlowInv'
<1>1. /\ job[t].step \in {"load", "save"}
      /\ job' = [job EXCEPT ![t] = Free] /\ phase' = [phase EXCEPT ![job[t].of] = "ended"]
      /\ signinfo' = signinfo /\ state' = state /\ result' = result /\ port' = port
      /\ isSigned' = isSigned /\ cs' = cs /\ sendQ' = sendQ /\ posted' = posted
      /\ asked' = asked
  BY DEF Throws, sendVars
<1>2. chosen' \in [Sessions -> Characters \cup {"none"}]
  <2>1. CASE chosen' = chosen BY <2>1, PartsTyped
  <2>2. CASE /\ job[t].req.what = "CharacterSelect"
             /\ chosen' = [chosen EXCEPT ![job[t].of] = job[t].req.key]
    <3>1. job[t].req \in Request BY PartsTyped DEF Job
    <3>2. job[t].req.key \in Characters
      BY <2>2, <3>1 DEF Request, SignRequest, SelectRequest
    <3> QED BY <2>2, <3>2, PartsTyped
  <2> QED BY <2>1, <2>2 DEF Throws
<1> QED BY <1>1, <1>2, NoAnswerStep

LEMMA SendAnswerStep ==
  ASSUME Types, FlowInv, NEW t \in Workers, SendAnswer(t) PROVE Types' /\ FlowInv'
<1>1. PICK s \in Sessions : s = job[t].of BY PartsTyped DEF Job
<1>2. /\ job[t].step = "send" /\ Push(s, job[t].res) /\ job[t].res \in Result
      /\ Does(t, "assign", s, job[t].req, job[t].res, job[t].in)
  BY <1>1, StepDoes, PartsTyped DEF SendAnswer, At, Go, Steps, Job
<1>3. /\ sendQ' \in [Sessions -> Seq(Result)] /\ posted' \in [Sessions -> BOOLEAN]
      /\ \A u \in Sessions : u # s => sendQ'[u] = sendQ[u] /\ posted'[u] = posted[u]
  BY <1>2, UntoldPushed
<1>4. JobOK(t)' BY <1>2, PartsTyped DEF Does, JobOK, Handler
<1>5. /\ signinfo' = signinfo /\ state' = state /\ result' = result /\ port' = port
      /\ isSigned' = isSigned /\ chosen' = chosen /\ cs' = cs /\ phase' = phase /\ asked' = asked
  BY DEF SendAnswer, sessionVars, clientVars
<1>6. job' \in [Workers -> Job] /\ \A u \in Workers : JobOK(u)' BY <1>2, <1>4, JobsOK
<1>7. Types' BY <1>3, <1>5, <1>6, PartsTyped, TypesParts
<1>8. ASSUME NEW u \in Sessions PROVE Session(u)'
  <2>1. CASE u = s BY <1>1, <2>1, SendAnswerSession DEF FlowInv
  <2>2. CASE u # s
    <3>1. JobsKept(u) BY <1>1, <1>2, <2>2, OthersKept
    <3> QED BY <1>3, <1>5, <2>2, <3>1, SessionFrame DEF PortKept, ValuesKept, StageKept, FlowInv
  <2> QED BY <2>1, <2>2
<1> QED BY <1>7, <1>8 DEF FlowInv

LEMMA AssignResultStep ==
  ASSUME Types, FlowInv, NEW t \in Workers, AssignResult(t) PROVE Types' /\ FlowInv'
<1>1. PICK s \in Sessions : s = job[t].of BY PartsTyped DEF Job
<1>2. Session(s)' /\ result' \in [Sessions -> [sign : SignResult, select : SelectResult]]
  BY <1>1, AssignResultSession DEF FlowInv
<1>3. Does(t, "wait", Free.of, Free.req, Free.res, Free.in) BY FreeDoes DEF AssignResult
<1>4. \A u \in Sessions : u # s => result'[u] = result[u]
  BY <1>1, PartsTyped DEF AssignResult
<1>5. /\ signinfo' = signinfo /\ state' = state /\ port' = port /\ sendQ' = sendQ
      /\ posted' = posted /\ isSigned' = isSigned /\ chosen' = chosen /\ cs' = cs
      /\ phase' = phase /\ asked' = asked
  BY DEF AssignResult, sendVars, clientVars
<1>6. JobOK(t)' BY <1>3 DEF Does, JobOK, Handler
<1>7. job' \in [Workers -> Job] /\ \A u \in Workers : JobOK(u)' BY <1>3, <1>6, JobsOK
<1>8. Types' BY <1>2, <1>5, <1>7, PartsTyped, TypesParts
<1>9. ASSUME NEW u \in Sessions PROVE Session(u)'
  <2>1. CASE u = s BY <1>2, <2>1
  <2>2. CASE u # s
    <3>1. JobsKept(u) BY <1>1, <1>3, <2>2, OthersKept
    <3> QED BY <1>4, <1>5, <2>2, <3>1, SessionFrame DEF PortKept, ValuesKept, StageKept, FlowInv
  <2> QED BY <2>1, <2>2
<1> QED BY <1>8, <1>9 DEF FlowInv

LEMMA OnSendCompletedStep ==
  ASSUME Types, FlowInv, NEW t \in Workers, OnSendCompleted(t) PROVE Types' /\ FlowInv'
<1>1. PICK s \in Sessions : s = job[t].of BY PartsTyped DEF Job
<1>2. PICK next \in States :
        /\ state' = [state EXCEPT ![s] = next]
        /\ \/ cs' = cs /\ Does(t, "wait", Free.of, Free.req, Free.res, Free.in)
           \/ /\ cs' = [cs EXCEPT ![s] = t]
              /\ Does(t, "changed", s, job[t].req, job[t].res, next)
  BY <1>1, OnSendCompletedDoes
<1>3. /\ Session(s)' /\ sendQ' \in [Sessions -> Seq(Result)] /\ posted' \in [Sessions -> BOOLEAN]
      /\ \A u \in Sessions : u # s => sendQ'[u] = sendQ[u] /\ posted'[u] = posted[u]
  BY <1>1, OnSendCompletedSession DEF FlowInv
<1>4. /\ signinfo' = signinfo /\ result' = result /\ port' = port /\ chosen' = chosen
      /\ phase' = phase /\ asked' = asked
      /\ isSigned' = [isSigned EXCEPT ![s] =
           isSigned[s] \/ (state[s] = "sign" /\ result[s].sign = "Success_SignIn")]
  BY <1>1 DEF OnSendCompleted, clientVars
<1>5. isSigned' \in [Sessions -> BOOLEAN] BY <1>4, PartsTyped
<1>6. /\ state' \in [Sessions -> States] /\ cs' \in [Sessions -> Workers \cup {NoWorker}]
      /\ \A u \in Sessions : u # s => state'[u] = state[u] /\ cs'[u] = cs[u]
  <2>1. cs' = cs \/ cs' = [cs EXCEPT ![s] = t] BY <1>2
  <2>2. state' \in [Sessions -> States] /\ \A u \in Sessions : u # s => state'[u] = state[u]
    BY <1>2, PartsTyped
  <2>3. cs' \in [Sessions -> Workers \cup {NoWorker}] /\ \A u \in Sessions : u # s => cs'[u] = cs[u]
    <3>1. cs \in [Sessions -> Workers \cup {NoWorker}] BY PartsTyped
    <3>2. CASE cs' = cs BY <3>1, <3>2
    <3>3. CASE cs' = [cs EXCEPT ![s] = t] BY <3>1, <3>3
    <3> QED BY <2>1, <3>2, <3>3
  <2> QED BY <2>2, <2>3
<1>7. JobOK(t)' BY <1>2 DEF Does, JobOK, Handler
<1>8. job' \in [Workers -> Job] /\ \A u \in Workers : JobOK(u)' BY <1>2, <1>7, JobsOK
<1>9. Types' BY <1>3, <1>4, <1>5, <1>6, <1>8, PartsTyped, TypesParts
<1>10. ASSUME NEW u \in Sessions PROVE Session(u)'
  <2>1. CASE u = s BY <1>3, <2>1
  <2>2. CASE u # s
    <3>1. JobsKept(u) BY <1>1, <1>2, <2>2, OthersKept
    <3> QED BY <1>3, <1>4, <1>6, <2>2, <3>1, SessionFrame
            DEF PortKept, ValuesKept, StageKept, FlowInv
  <2> QED BY <2>1, <2>2
<1> QED BY <1>9, <1>10 DEF FlowInv

LEMMA OnChangedStep ==
  ASSUME Types, FlowInv, NEW t \in Workers, OnChangedToThis(t) PROVE Types' /\ FlowInv'
<1>1. PICK s \in Sessions : s = job[t].of BY PartsTyped DEF Job
<1>2. /\ Session(s)' /\ sendQ' \in [Sessions -> Seq(Result)] /\ posted' \in [Sessions -> BOOLEAN]
      /\ \A u \in Sessions : u # s => sendQ'[u] = sendQ[u] /\ posted'[u] = posted[u]
      /\ result' \in [Sessions -> [sign : SignResult, select : SelectResult]]
      /\ \A u \in Sessions : u # s => result'[u] = result[u]
  BY <1>1, OnChangedSession DEF FlowInv
<1>3. Does(t, "wait", Free.of, Free.req, Free.res, Free.in) BY FreeDoes DEF OnChangedToThis
<1>4. /\ signinfo' = signinfo /\ state' = state /\ port' = port /\ isSigned' = isSigned
      /\ chosen' = chosen /\ phase' = phase /\ asked' = asked
      /\ cs' = [cs EXCEPT ![s] = NoWorker]
  BY <1>1 DEF OnChangedToThis, clientVars
<1>5. /\ cs' \in [Sessions -> Workers \cup {NoWorker}]
      /\ \A u \in Sessions : u # s => cs'[u] = cs[u]
  BY <1>4, PartsTyped
<1>6. JobOK(t)' BY <1>3 DEF Does, JobOK, Handler
<1>7. job' \in [Workers -> Job] /\ \A u \in Workers : JobOK(u)' BY <1>3, <1>6, JobsOK
<1>8. Types' BY <1>2, <1>4, <1>5, <1>7, PartsTyped, TypesParts
<1>9. ASSUME NEW u \in Sessions PROVE Session(u)'
  <2>1. CASE u = s BY <1>2, <2>1
  <2>2. CASE u # s
    <3>1. JobsKept(u) BY <1>1, <1>3, <2>2, OthersKept
    <3> QED BY <1>2, <1>4, <1>5, <2>2, <3>1, SessionFrame
            DEF PortKept, ValuesKept, StageKept, FlowInv
  <2> QED BY <2>1, <2>2
<1> QED BY <1>8, <1>9 DEF FlowInv

LEMMA ListThrowsStep ==
  ASSUME Types, FlowInv, NEW t \in Workers, ListThrows(t) PROVE Types' /\ FlowInv'
<1>1. PICK s \in Sessions : s = job[t].of BY PartsTyped DEF Job
<1>2. Session(s)' BY <1>1, ListThrowsSession DEF FlowInv
<1>3. Does(t, "wait", Free.of, Free.req, Free.res, Free.in) BY FreeDoes DEF ListThrows
<1>4. /\ signinfo' = signinfo /\ state' = state /\ port' = port /\ isSigned' = isSigned
      /\ chosen' = chosen /\ phase' = phase /\ asked' = asked /\ result' = result
      /\ sendQ' = sendQ /\ posted' = posted /\ cs' = [cs EXCEPT ![s] = NoWorker]
  BY <1>1 DEF ListThrows, sessionVars, clientVars
<1>5. /\ cs' \in [Sessions -> Workers \cup {NoWorker}]
      /\ \A u \in Sessions : u # s => cs'[u] = cs[u]
  BY <1>4, PartsTyped
<1>6. JobOK(t)' BY <1>3 DEF Does, JobOK, Handler
<1>7. job' \in [Workers -> Job] /\ \A u \in Workers : JobOK(u)' BY <1>3, <1>6, JobsOK
<1>8. Types' BY <1>4, <1>5, <1>7, PartsTyped, TypesParts
<1>9. ASSUME NEW u \in Sessions PROVE Session(u)'
  <2>1. CASE u = s BY <1>2, <2>1
  <2>2. CASE u # s
    <3>1. JobsKept(u) BY <1>1, <1>3, <2>2, OthersKept
    <3> QED BY <1>4, <1>5, <2>2, <3>1, SessionFrame
            DEF PortKept, ValuesKept, StageKept, FlowInv
  <2> QED BY <2>1, <2>2
<1> QED BY <1>8, <1>9 DEF FlowInv

LEMMA FlowStep == Types /\ FlowInv /\ [Next]_vars => Types' /\ FlowInv'
<1> SUFFICES ASSUME Types, FlowInv, [Next]_vars PROVE Types' /\ FlowInv' OBVIOUS
<1>1. ASSUME NEW s \in Sessions, Ask(s) \/ Transmit(s) PROVE Types' /\ FlowInv'
  BY <1>1, AskStep, TransmitStep
<1>2. ASSUME NEW t \in Workers, Work(t) PROVE Types' /\ FlowInv'
  BY <1>2, DequeueStep, SignLoadStep, SaveInfoStep, SelectLoadStep, SelectSignOutStep,
     ThrowsStep, SendAnswerStep, AssignResultStep, OnSendCompletedStep, OnChangedStep,
     ListThrowsStep DEF Work
<1>3. CASE UNCHANGED vars
  <2>1. /\ signinfo' = signinfo /\ state' = state /\ port' = port /\ isSigned' = isSigned
        /\ chosen' = chosen /\ phase' = phase /\ asked' = asked /\ cs' = cs /\ result' = result
        /\ sendQ' = sendQ /\ posted' = posted /\ job' = job
    BY <1>3 DEF vars, sessionVars, sendVars, clientVars
  <2>2. \A t \in Workers : JobOK(t)' BY <2>1, PartsTyped DEF JobOK
  <2>3. Types' BY <2>1, <2>2, PartsTyped, TypesParts
  <2>4. ASSUME NEW u \in Sessions PROVE Session(u)'
    <3>1. JobsKept(u) BY <2>1 DEF JobsKept, WorkKept, Works, Pops, Changes
    <3> QED BY <2>1, <3>1, SessionFrame DEF PortKept, ValuesKept, StageKept, FlowInv
  <2> QED BY <2>3, <2>4 DEF FlowInv
<1> QED BY <1>1, <1>2, <1>3 DEF Next

LEMMA FlowHolds == Spec => [](Types /\ FlowInv)
<1>1. Init => Types /\ FlowInv BY TypesInit, FlowInit
<1> QED BY <1>1, FlowStep, PTL DEF Spec

\* SignFlow's variables keep their types: what each state stores as a result is
\* one of its own (SignState.cpp, CharacterSelectState.cpp).
THEOREM SignTypes == Spec => []TypeOK
<1>1. Types /\ FlowInv => TypeOK BY DEF Types
<1> QED BY <1>1, FlowHolds, PTL

\* Whichever workers dequeue the completions, a packet is handled by the state
\* its client wrote it for, although OnCompleteRecv reads m_current_state
\* outside the lock.
THEOREM HandledInStateCorrect == Spec => []HandledInState
<1>1. Types /\ FlowInv => HandledInState BY DEF Types, JobOK, HandledInState
<1> QED BY <1>1, FlowHolds, PTL

================================================================================
