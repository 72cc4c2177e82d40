-------------------------------- MODULE SignFlow --------------------------------
(***************************************************************************)
(* From the connection to the village: the states of a session             *)
(* (SignState.cpp, CharacterSelectState.cpp), the managers they call       *)
(* (SignManager.cpp, CharacterSelectManager.cpp), IOCPSession::ChangeState *)
(* and the tables they keep.                                               *)
(*                                                                         *)
(* A handler sends its answer, then stores its result in the state; when   *)
(* the answer has been sent, OnSendCompleted looks at the stored result to *)
(* change the state.  The two run on whichever workers dequeue them.       *)
(*                                                                         *)
(* A client waits for the answer before it asks again and, after an answer *)
(* that changes the state, for the list of its characters.  The database,  *)
(* the kernel and the clients are external; a query is one step, and may   *)
(* fail.                                                                   *)
(***************************************************************************)
EXTENDS Naturals, Sequences, SequencesExt

CONSTANTS
  Sessions, Workers,
  IDs,            \* the IDs the clients choose from
  Characters,     \* the characters they may select
  Stored,         \* those the table usercharacter has
  MaxAsk,         \* bound: requests of a client
  NoWorker        \* m_cs has no owner

ASSUME SignAssumption ==
  /\ Stored \subseteq Characters
  /\ MaxAsk \in Nat
  /\ NoWorker \notin Workers
  /\ Sessions # {} /\ IDs # {}

VARIABLES
  signinfo,  \* the IDs of the rows of the table signinfo
  state,     \* m_current_state
  result,    \* m_current_result of both states
  isSigned,  \* m_isSigned
  chosen,    \* SetCharacterInfo
  cs,        \* owner of m_cs
  sendQ,     \* results in the packets of m_sendPacketQueue
  posted,    \* whether the front packet still is at the kernel
  port,      \* the completion port
  job,       \* what each worker does
  phase,     \* where each client believes to be, what it waits for, or that
             \* its session ended
  asked      \* number of its requests

vars == <<signinfo, state, result, isSigned, chosen, cs, sendQ, posted, port, job,
          phase, asked>>
sessionVars == <<state, result, isSigned, chosen>>
sendVars == <<cs, sendQ, posted>>
clientVars == <<phase, asked>>

SignRequest == [what : {"SignIn", "SignOut", "SignUp", "DeleteAccount"},
                key : IDs, pw : BOOLEAN]   \* pw: the password is that of the row
SelectRequest == [what : {"CharacterSelect"}, key : Characters, pw : {TRUE}]
                 \cup [what : {"SelectSignOut"}, key : IDs, pw : {TRUE}]
Request == SignRequest \cup SelectRequest

SignSuccess == {"Success_SignIn", "Success_SignOut", "Success_DeleteAccount"}
SignResult == {"None", "ExistID", "NotExistID", "WrongPW", "Success_SignUp"} \cup SignSuccess
SelectResult == {"None", "CharaterInfos", "UndefinedCharacter", "Success_CharacterSelect"}
Result == SignResult \cup SelectResult \cup {"EnterVillage"}

States == {"sign", "select", "village"}
NoRequest == CHOOSE r \in Request : TRUE
Free == [step |-> "wait", of |-> CHOOSE s \in Sessions : TRUE, req |-> NoRequest,
         res |-> "None", in |-> "sign"]

\* Every variable keeps its type: each state's result is one of its own.
TypeOK ==
  /\ signinfo \in Seq(IDs)
  /\ state \in [Sessions -> States]
  /\ \A s \in Sessions : result[s].sign \in SignResult /\ result[s].select \in SelectResult
  /\ isSigned \in [Sessions -> BOOLEAN]
  /\ chosen \in [Sessions -> Characters \cup {"none"}]
  /\ cs \in [Sessions -> Workers \cup {NoWorker}]
  /\ sendQ \in [Sessions -> Seq(Result)]
  /\ posted \in [Sessions -> BOOLEAN]
  /\ port \in Seq([of : Sessions, kind : {"recv", "send"}, req : Request])
  /\ job \in [Workers -> [step : {"wait", "load", "save", "send", "assign", "sended",
                                  "changed"},
                          of : Sessions, req : Request, res : Result, in : States]]
  /\ phase \in [Sessions -> States \cup {"answer", "list", "ended"}]
  /\ asked \in [Sessions -> 0 .. MaxAsk]

Init ==
  /\ signinfo = <<>>
  /\ state = [s \in Sessions |-> "sign"]
  /\ result = [s \in Sessions |-> [sign |-> "None", select |-> "None"]]
  /\ isSigned = [s \in Sessions |-> FALSE]
  /\ chosen = [s \in Sessions |-> "none"]
  /\ cs = [s \in Sessions |-> NoWorker]
  /\ sendQ = [s \in Sessions |-> <<>>]
  /\ posted = [s \in Sessions |-> FALSE]
  /\ port = <<>>
  /\ job = [t \in Workers |-> Free]
  /\ phase = [s \in Sessions |-> "sign"]
  /\ asked = [s \in Sessions |-> 0]

-------------------------------------------------------------------------------
(* The client and the kernel *)

At(t, step) == job[t].step = step
Go(t, step) == job' = [job EXCEPT ![t].step = step]
Handler == {"load", "save", "send", "assign"}

\* The client asks; its packet completes the pending WSARecv, which the handler
\* of the packet before posts when it returns.
Ask(s) ==
  /\ phase[s] \in {"sign", "select"} /\ asked[s] < MaxAsk
  /\ \A t \in Workers : job[t].of = s => job[t].step \notin Handler
  /\ \E r \in IF phase[s] = "sign" THEN SignRequest ELSE SelectRequest :
       port' = Append(port, [of |-> s, kind |-> "recv", req |-> r])
  /\ phase' = [phase EXCEPT ![s] = "answer"]
  /\ asked' = [asked EXCEPT ![s] = @ + 1]
  /\ UNCHANGED <<signinfo, sessionVars, sendVars, job>>

\* The front packet reaches the client, and its WSASend completes.
Transmit(s) ==
  LET told == Head(sendQ[s]) IN
  /\ posted[s]
  /\ posted' = [posted EXCEPT ![s] = FALSE]
  /\ port' = Append(port, [of |-> s, kind |-> "send", req |-> NoRequest])
  /\ phase' = [phase EXCEPT ![s] =
       CASE told \in SignSuccess -> "list"
         [] told \in {"CharaterInfos", "UndefinedCharacter"} -> "select"
         [] told \in {"Success_CharacterSelect", "EnterVillage"} -> "village"
         [] OTHER -> "sign"]
  /\ UNCHANGED <<signinfo, sessionVars, cs, sendQ, job, asked>>

-------------------------------------------------------------------------------
(* OnRecvCompleted *)

\* Mutant: the size is tested before the packet is in the queue.
Push_TestsFirst(s, res) ==
  /\ sendQ' = [sendQ EXCEPT ![s] = Append(@, res)]
  /\ posted' = [posted EXCEPT ![s] = @ \/ Len(sendQ[s]) = 1]

\* Send: the packet is posted when it is alone in the queue.
Push(s, res) ==
  /\ sendQ' = [sendQ EXCEPT ![s] = Append(@, res)]
  /\ posted' = [posted EXCEPT ![s] = @ \/ sendQ[s] = <<>>]

\* A worker dequeues a completion.
Dequeue(t) ==
  /\ At(t, "wait") /\ port # <<>>
  /\ port' = Tail(port)
  /\ LET c == Head(port) IN
     job' = [job EXCEPT ![t] =
       [Free EXCEPT !.step = IF c.kind = "recv" THEN "load" ELSE "sended",
                    !.of = c.of, !.req = c.req, !.in = state[c.of]]]
  /\ UNCHANGED <<signinfo, sessionVars, sendVars, clientVars>>

Exists(id) == id \in ToSet(signinfo)

\* What the handlers decide from the row LoadInfo found.
SignDecision(r) ==
  CASE r.what = "SignUp" /\ Exists(r.key)   -> "ExistID"
    [] r.what = "SignUp" /\ ~Exists(r.key)  -> "Success_SignUp"
    [] r.what # "SignUp" /\ ~Exists(r.key)  -> "NotExistID"
    [] r.what # "SignUp" /\ Exists(r.key) /\ ~r.pw -> "WrongPW"
    [] r.what = "SignIn" /\ Exists(r.key) /\ r.pw  -> "Success_SignIn"
    [] r.what = "SignOut" /\ Exists(r.key) /\ r.pw -> "Success_SignOut"
    [] OTHER -> "Success_DeleteAccount"

\* LoadInfo, the decision, and SetSign.
SignLoad(t) ==
  LET s == job[t].of  r == job[t].req  res == SignDecision(r) IN
  /\ At(t, "load") /\ r \in SignRequest
  /\ job' = [job EXCEPT ![t].step = IF res = "Success_SignUp" THEN "save" ELSE "send",
                        ![t].res = res]
  /\ isSigned' = [isSigned EXCEPT ![s] = IF res \in SignSuccess
                                         THEN res = "Success_SignIn" ELSE @]
  /\ UNCHANGED <<signinfo, state, result, chosen, sendVars, port, clientVars>>

\* SaveInfo of a SignUp.  DeleteInfo is empty.
SaveInfo(t) ==
  /\ At(t, "save")
  /\ signinfo' = Append(signinfo, job[t].req.key)
  /\ Go(t, "send")
  /\ UNCHANGED <<sessionVars, sendVars, port, clientVars>>

SelectDecision(c) ==
  IF c \in Stored THEN "Success_CharacterSelect" ELSE "UndefinedCharacter"

\* CharacterSelectProcess up to its answer.
SelectLoad(t) ==
  LET c == job[t].req.key IN
  /\ At(t, "load") /\ job[t].req.what = "CharacterSelect"
  /\ chosen' = [chosen EXCEPT ![job[t].of] = c]
  /\ job' = [job EXCEPT ![t].step = "send", ![t].res = SelectDecision(c)]
  /\ UNCHANGED <<signinfo, state, result, isSigned, sendVars, port, clientVars>>

\* The selection's SignOut is to do: no answer is sent and no result stored,
\* the client is where it was.
SelectSignOut(t) ==
  /\ At(t, "load") /\ job[t].req.what = "SelectSignOut"
  /\ job' = [job EXCEPT ![t] = Free]
  /\ phase' = [phase EXCEPT ![job[t].of] = "select"]
  /\ UNCHANGED <<signinfo, sessionVars, sendVars, port, asked>>

\* The protocol is none of the state's or a query fails: the exception leaves
\* the handler and WorkerThread ends the session.
Throws(t) ==
  LET s == job[t].of  r == job[t].req IN
  /\ job[t].step \in {"load", "save"}
  /\ \/ UNCHANGED chosen
     \/ r.what = "CharacterSelect" /\ chosen' = [chosen EXCEPT ![s] = r.key]
  /\ job' = [job EXCEPT ![t] = Free]
  /\ phase' = [phase EXCEPT ![s] = "ended"]
  /\ UNCHANGED <<signinfo, state, result, isSigned, sendVars, port, asked>>

\* The answer of every handler.
SendAnswer(t) ==
  /\ At(t, "send") /\ cs[job[t].of] = NoWorker
  /\ Push(job[t].of, job[t].res)
  /\ Go(t, "assign")
  /\ UNCHANGED <<signinfo, sessionVars, cs, port, clientVars>>

\* Mutant: one result for all states.
Results_Shared(old, in, res) == [sign |-> res, select |-> res]

Results(old, in, res) ==
  IF in = "sign" THEN [old EXCEPT !.sign = res] ELSE [old EXCEPT !.select = res]

\* The result comes back to the state that handled the packet.
AssignResult(t) ==
  /\ At(t, "assign")
  /\ result' = [result EXCEPT ![job[t].of] = Results(@, job[t].in, job[t].res)]
  /\ job' = [job EXCEPT ![t] = Free]
  /\ UNCHANGED <<signinfo, state, isSigned, chosen, sendVars, port, clientVars>>

-------------------------------------------------------------------------------
(* OnCompleteSend and OnSendCompleted *)

\* The state OnSendCompleted changes to.
NextState(s) ==
  CASE state[s] = "sign" /\ result[s].sign \in SignSuccess -> "select"
    [] state[s] = "select" /\ result[s].select = "Success_CharacterSelect" -> "village"
    [] OTHER -> state[s]

\* Mutant: the next state starts without becoming the current one.
ChangeState_KeepsOld(s, next) == UNCHANGED state

ChangeState(s, next) == state' = [state EXCEPT ![s] = next]

\* OnCompleteSend takes m_cs, pops, posts the next packet and asks the state.
OnSendCompleted(t) ==
  LET s == job[t].of  next == NextState(s) IN
  /\ At(t, "sended") /\ cs[s] = NoWorker
  /\ sendQ' = [sendQ EXCEPT ![s] = Tail(@)]
  /\ posted' = [posted EXCEPT ![s] = Len(sendQ[s]) > 1]
  /\ ChangeState(s, next)
  /\ isSigned' = [isSigned EXCEPT ![s] =
       @ \/ (state[s] = "sign" /\ result[s].sign = "Success_SignIn")]
  /\ \/ next = state[s] /\ job' = [job EXCEPT ![t] = Free] /\ UNCHANGED cs
     \/ /\ next # state[s]
        /\ job' = [job EXCEPT ![t].step = "changed", ![t].in = next]
        /\ cs' = [cs EXCEPT ![s] = t]
  /\ UNCHANGED <<signinfo, result, chosen, port, clientVars>>

\* OnChangedToThis sends the list (or that there are no characters), or
\* EnterVillage, still inside m_cs.
OnChangedToThis(t) ==
  LET s == job[t].of IN
  /\ At(t, "changed")
  /\ \/ /\ job[t].in = "select"
        /\ Push(s, "CharaterInfos")
        /\ result' = [result EXCEPT ![s].select = "CharaterInfos"]
     \/ job[t].in = "village" /\ Push(s, "EnterVillage") /\ UNCHANGED result
  /\ cs' = [cs EXCEPT ![s] = NoWorker]
  /\ job' = [job EXCEPT ![t] = Free]
  /\ UNCHANGED <<signinfo, state, isSigned, chosen, port, clientVars>>

\* LoadInfos fails: the session leaves the set, but its receive is pending and
\* the client, still connected, goes on waiting for the list.
ListThrows(t) ==
  /\ At(t, "changed") /\ job[t].in = "select"
  /\ cs' = [cs EXCEPT ![job[t].of] = NoWorker]
  /\ job' = [job EXCEPT ![t] = Free]
  /\ UNCHANGED <<signinfo, sessionVars, sendQ, posted, port, clientVars>>

Work(t) ==
  \/ Dequeue(t) \/ SignLoad(t) \/ SaveInfo(t) \/ SelectLoad(t) \/ SelectSignOut(t)
  \/ Throws(t) \/ SendAnswer(t) \/ AssignResult(t) \/ OnSendCompleted(t)
  \/ OnChangedToThis(t) \/ ListThrows(t)

Next ==
  \/ \E s \in Sessions : Ask(s) \/ Transmit(s)
  \/ \E t \in Workers : Work(t)

Spec == Init /\ [][Next]_vars

FairSpec ==
  /\ Spec
  /\ \A t \in Workers : WF_vars(Work(t))
  /\ \A s \in Sessions : WF_vars(Transmit(s))

-------------------------------------------------------------------------------
(* Properties *)

\* No two rows of signinfo have the same ID, as SignInfo.h:9 says of it.  Not
\* so: SignUpProcess looks and then inserts, with no lock around the two.
UniqueIDs ==
  \A i, j \in DOMAIN signinfo : signinfo[i] = signinfo[j] => i = j

\* A packet is handled by the state its client wrote it for: the client hears
\* of a new state only after ChangeState made it the current one, although
\* OnCompleteRecv reads m_current_state without the lock.
HandledInState ==
  \A t \in Workers :
    job[t].step \in Handler =>
      (job[t].in = "sign" <=> job[t].req \in SignRequest)

\* A client that was told of its success gets the list of its characters: the
\* state changes when the answer has been sent (SignState::OnSendCompleted).
\* Not so: see the README.
ListComes == \A s \in Sessions : phase[s] = "list" ~> phase[s] = "select"

\* Every request is answered, or the session ends by an exception of its
\* handler; only the SignOut of the selection is dropped, which is to do
\* (CharacterSelectState.cpp:27).
Answered == \A s \in Sessions : phase[s] = "answer" ~> phase[s] # "answer"

\* Only a signed-in session is past the sign state.  Not so: a SignOut with the
\* right password changes the state too.
SignedIn == \A s \in Sessions : state[s] # "sign" => isSigned[s]
================================================================================
