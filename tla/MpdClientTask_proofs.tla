------------------------ MODULE MpdClientTask_proofs ------------------------
(***************************************************************************)
(* Proofs about MpdClientTask, for every number and kind of requests and   *)
(* every bound on the faults.                                              *)
(***************************************************************************)
EXTENDS MpdClientTask, TLAPS, SequenceTheorems

USE DEF Requests, run

ThreadsAreOff == idlePc \in {"off", "done"} /\ workPc \in {"off", "done"}

\* Which phase of main the threads run in: they run only while main waits for
\* the first confirmation (the idle thread alone) or for their end.
Phases ==
    /\ mainPc \in {"start", "take", "check", "giveBack", "lost"} => ThreadsAreOff
    /\ mainPc = "awaitIdle" => workPc \in {"off", "done"}

\* Phases and OneClient need each other: what main does in "check" and
\* "giveBack" is harmless because no thread runs.
TokenInv == Phases /\ OneClient

LEMMA TokenInit == Init => TokenInv
  BY DEF Init, TokenInv, Phases, ThreadsAreOff, OneClient, MainHolds, IdleHolds, WorkHolds

LEMMA TokenStep == TokenInv /\ [Next]_vars => TokenInv'
<1> SUFFICES ASSUME TokenInv, [Next]_vars PROVE TokenInv'
  OBVIOUS
<1> USE DEF TokenInv, Phases, ThreadsAreOff, OneClient, MainHolds, IdleHolds, WorkHolds
<1>1. CASE UNCHANGED vars
  BY <1>1 DEF vars
<1>2. CASE Environment \/ ServerReturns
  BY <1>2 DEF Environment, ServerReturns, Submit, MpdEvent, LinkBreaks, task
<1>3. CASE Rendezvous
  BY <1>3 DEF Rendezvous, IdleConfirmsToMain, IdleConfirmsToWork, WorkConfirms,
              IdleSends, IdleAwaits, WorkSends, WorkAwaits
<1>4. CASE MainNext
  BY <1>4 DEF MainNext, MainStart, MainTake, MainFirstCheck, MainReconnect,
              MainReconnectFails, MainGiveBack, MainJoin, MainLost, StartIdle
<1>5. CASE IdleNext
  <2> USE DEF IdleBreak, IdleSends, IdleAwaits, WorkSends, WorkAwaits
  <2>1. CASE IdleTake \/ IdleTaken \/ IdleEnter \/ IdleEnterFails
    BY <2>1 DEF IdleTake, IdleTaken, IdleEnter, IdleEnterFails
  <2>2. CASE IdleConfirm \/ IdleConfirmUnhealthy \/ IdleConfirmTimeout
    BY <2>2 DEF IdleConfirm, IdleConfirmUnhealthy, IdleConfirmTimeout
  <2>3. CASE IdleRead \/ IdleReadFails \/ IdleReadTimesOut
    BY <2>3 DEF IdleRead, IdleReadFails, IdleReadTimesOut
  <2>4. CASE IdleAwait \/ IdleAwaitTimeout
    BY <2>4 DEF IdleAwait, IdleAwaitTimeout
  <2>5. QED
    BY <1>5, <2>1, <2>2, <2>3, <2>4 DEF IdleNext, IdleSteps
<1>6. CASE WorkNext
  <2> USE DEF IdleSends, IdleAwaits, WorkSends, WorkAwaits
  <2>1. CASE WorkRequest \/ WorkClient \/ WorkPass
    BY <2>1 DEF WorkRequest, WorkClient, WorkPass
  <2>2. CASE WorkNoidle \/ WorkNoidleFails \/ WorkNoidleTimesOut
    BY <2>2 DEF WorkNoidle, WorkNoidleFails, WorkNoidleTimesOut
  <2>3. CASE WorkTake \/ WorkTaken \/ WorkConfirm \/ WorkConfirmUnhealthy \/ WorkConfirmTimeout
    BY <2>3 DEF WorkTake, WorkTaken, WorkConfirm, WorkConfirmUnhealthy, WorkConfirmTimeout
  <2>4. CASE WorkHandle \/ WorkPop \/ WorkPopEmpty
    BY <2>4 DEF WorkHandle, WorkPop, WorkPopEmpty, Start
  <2>5. CASE WorkExchange
    BY <2>5 DEF WorkExchange, WorkAnswered, WorkRequestFails, WorkRequestTimesOut,
                WorkTimeoutIsIgnored, WorkReconnect, WorkReconnectFails, GoOn, task, Finish
  <2>6. CASE WorkRelease \/ WorkAwait \/ WorkAwaitTimeout \/ WorkEnd
    BY <2>6 DEF WorkRelease, WorkAwait, WorkAwaitTimeout, WorkEnd
  <2>7. QED
    BY <1>6, <2>1, <2>2, <2>3, <2>4, <2>5, <2>6 DEF WorkNext
<1>7. QED
  BY <1>1, <1>2, <1>3, <1>4, <1>5, <1>6 DEF Next

THEOREM TokenInvariant == Spec => []TokenInv
  BY TokenInit, TokenStep, PTL DEF Spec

\* The client is in exactly one place, whatever breaks or times out.
THEOREM ClientHasOneHolder == Spec => []OneClient
<1>1. TokenInv => OneClient
  BY DEF TokenInv
<1>2. QED
  BY <1>1, TokenInvariant, PTL

----------------------------------------------------------------------------
(* Type correctness, one part at a time.                                   *)

LEMMA TypeInit == Init => TypeOK
<1> SUFFICES ASSUME Init PROVE TypeOK
  OBVIOUS
<1>1. ControlType
  BY DEF Init, ControlType, MainPcs, IdlePcs, WorkPcs
<1>2. RequestType
  BY EmptySeq DEF Init, RequestType, Pending
<1>3. MaxFaults \in Nat /\ MaxTimeouts \in Nat
  BY ClientConstants
<1>5. <<>> \in Seq(Responses)
  BY EmptySeq
<1>6. faults \in 0 .. MaxFaults /\ timeouts \in 0 .. MaxTimeouts
  BY <1>3 DEF Init
<1>7. ui \in {"connected", "lost"} /\ link \in {"ok", "broken"} /\ server \in {"up", "down"}
  BY DEF Init
<1>8. mode \in {"command", "idle"} /\ ignored \in BOOLEAN /\ crossed \in BOOLEAN
  BY DEF Init
<1>4. ConnType
  BY <1>5, <1>6, <1>7, <1>8 DEF Init, ConnType
<1> QED
  BY <1>1, <1>2, <1>4 DEF TypeOK

LEMMA ControlTypeStep == ControlType /\ [Next]_vars => ControlType'
<1> SUFFICES ASSUME ControlType, [Next]_vars PROVE ControlType'
  OBVIOUS
<1> USE DEF ControlType, task, MainPcs, IdlePcs, WorkPcs
<1>1. CASE UNCHANGED vars
  BY <1>1 DEF vars
<1>2. CASE Environment \/ ServerReturns
  BY <1>2 DEF Environment, ServerReturns, Submit, MpdEvent, LinkBreaks
<1>3. CASE Rendezvous
  BY <1>3 DEF Rendezvous, IdleConfirmsToMain, IdleConfirmsToWork, WorkConfirms
<1>4. CASE MainNext
  BY <1>4 DEF MainNext, MainStart, MainTake, MainFirstCheck, MainReconnect,
              MainReconnectFails, MainGiveBack, MainJoin, MainLost, StartIdle
<1>5. CASE IdleNext
  BY <1>5 DEF IdleNext, IdleSteps, IdleTake, IdleTaken, IdleEnter, IdleEnterFails, IdleConfirm,
     IdleConfirmUnhealthy, IdleConfirmTimeout, IdleRead, IdleReadFails, IdleReadTimesOut,
     IdleAwait, IdleAwaitTimeout, IdleBreak
<1>6. CASE WorkNext
  <2>1. CASE WorkRequest \/ WorkClient \/ WorkPass \/ WorkNoidle \/ WorkNoidleFails
    BY <2>1 DEF WorkRequest, WorkClient, WorkPass, WorkNoidle, WorkNoidleFails
  <2>2. CASE WorkNoidleTimesOut \/ WorkTake \/ WorkTaken \/ WorkConfirm
    BY <2>2 DEF WorkNoidleTimesOut, WorkTake, WorkTaken, WorkConfirm
  <2>3. CASE WorkConfirmUnhealthy \/ WorkConfirmTimeout \/ WorkHandle \/ WorkPop \/ WorkPopEmpty
    BY <2>3 DEF WorkConfirmUnhealthy, WorkConfirmTimeout, WorkHandle, WorkPop, WorkPopEmpty, Start
  <2>4. CASE WorkExchange
    BY <2>4 DEF WorkExchange, WorkAnswered, WorkRequestFails, Finish, GoOn,
       WorkRequestTimesOut, WorkTimeoutIsIgnored, WorkReconnect, WorkReconnectFails,
       task, NewConnection
  <2>5. CASE WorkRelease \/ WorkAwait \/ WorkAwaitTimeout \/ WorkEnd
    BY <2>5 DEF WorkRelease, WorkAwait, WorkAwaitTimeout, WorkEnd
  <2>6. QED
    BY <1>6, <2>1, <2>2, <2>3, <2>4, <2>5 DEF WorkNext
<1>7. QED
  BY <1>1, <1>2, <1>3, <1>4, <1>5, <1>6 DEF Next

\* Settle keeps the status function in type, whatever requests it names.
LEMMA SettleType ==
  ASSUME RequestType, NEW rs, NEW o \in Outcomes, Settle(rs, o)
  PROVE  status' \in [Requests -> Pending \cup Outcomes]
  BY DEF RequestType, Settle

\* The only steps that touch the requests are these; every other one moves the
\* work thread between program counters at which it runs no request.
LEMMA RequestTypeKept ==
  ASSUME RequestType, UNCHANGED work,
         workPc' = "execute" <=> workPc = "execute"
  PROVE  RequestType'
  BY DEF RequestType, work, run

\* A request has at least one exchange.
LEMMA ExchangesType ==
  ASSUME NEW r \in Requests PROVE Len(Exchanges(r)) \in Nat \ {0}
<1>1. Steps[r] \in Seq({"must", "may"}) /\ Steps[r] # <<>>
  BY ClientConstants
<1>2. Len(Steps[r]) \in Nat /\ Len(Steps[r]) # 0
  BY <1>1, EmptySeq, LenProperties
<1>3. Len(Append(Steps[r], "may")) = Len(Steps[r]) + 1
  BY <1>1, AppendProperties
<1> QED
  BY <1>2, <1>3 DEF Exchanges

LEMMA FinishType ==
  ASSUME RequestType, workPc = "execute", NEW o \in Outcomes, Finish(o)
  PROVE  RequestType'
<1>1. status' \in [Requests -> Pending \cup Outcomes]
  BY SettleType DEF Finish
<1> QED
  BY <1>1 DEF Finish, RequestType

LEMMA GoOnType ==
  ASSUME RequestType, workPc = "execute", GoOn
  PROVE  RequestType'
<1>1. CASE step < Len(Exchanges(current))
  <2>1. current \in Requests /\ Len(Exchanges(current)) \in Nat
    BY ExchangesType DEF RequestType
  <2> QED
    BY <1>1, <2>1 DEF RequestType, GoOn, task
<1>2. CASE ~(step < Len(Exchanges(current)))
  BY <1>2, FinishType DEF GoOn, Outcomes
<1> QED
  BY <1>1, <1>2

\* What an exchange can mean for its request.
LEMMA ExchangeEnds ==
  ASSUME WorkAnswered \/ WorkRequestFails \/ WorkTimeoutIsIgnored
  PROVE  workPc = "execute" /\ (GoOn \/ Finish("failed"))
  BY DEF WorkAnswered, WorkRequestFails, WorkTimeoutIsIgnored

LEMMA RequestTypeStep == Phases /\ RequestType /\ [Next]_vars => RequestType'
<1> SUFFICES ASSUME Phases, RequestType, [Next]_vars PROVE RequestType'
  OBVIOUS
<1>1. CASE UNCHANGED vars
  BY <1>1, RequestTypeKept DEF vars, work
<1>2. CASE Environment \/ ServerReturns
  <2>1. CASE \E r \in Requests : Submit(r)
    BY <2>1 DEF Submit, RequestType, Pending, task
  <2>2. CASE MpdEvent \/ LinkBreaks \/ ServerReturns
    BY <2>2, RequestTypeKept DEF MpdEvent, LinkBreaks, ServerReturns, task
  <2>3. QED
    BY <1>2, <2>1, <2>2 DEF Environment
<1>3. CASE Rendezvous
  BY <1>3, RequestTypeKept DEF Rendezvous, IdleConfirmsToMain, IdleConfirmsToWork,
     WorkConfirms, WorkSends, WorkAwaits, IdleSends, IdleAwaits, Phases
<1>4. CASE MainNext
  <2>1. CASE MainReconnect
    <3>1. status' \in [Requests -> Pending \cup Outcomes]
      BY <2>1, SettleType DEF MainReconnect, Outcomes
    <3>2. QED
      BY <2>1, <3>1 DEF MainReconnect, RequestType
  <2>2. CASE MainNext /\ ~MainReconnect
    BY <2>2, RequestTypeKept DEF MainNext, MainStart, MainTake, MainFirstCheck,
       MainReconnectFails, MainGiveBack, MainJoin, MainLost
  <2>3. QED
    BY <1>4, <2>1, <2>2
<1>5. CASE IdleNext
  BY <1>5, RequestTypeKept DEF IdleNext, IdleSteps, IdleTake, IdleTaken, IdleEnter, IdleEnterFails,
     IdleConfirm, IdleConfirmUnhealthy, IdleConfirmTimeout, IdleRead, IdleReadFails,
     IdleReadTimesOut, IdleAwait, IdleAwaitTimeout
<1>6. CASE WorkNext
  <2>1. CASE WorkRequest
    <3>1. Head(rx) \in Requests /\ Tail(rx) \in Seq(Requests)
      BY <2>1, HeadTailProperties DEF WorkRequest, RequestType
    <3>2. Append(buffer, Head(rx)) \in Seq(Requests)
      BY <3>1, AppendProperties DEF RequestType
    <3>3. CASE healthy
      BY <2>1, <3>1, <3>2, <3>3 DEF WorkRequest, RequestType
    <3>4. CASE ~healthy
      <4>1. status' \in [Requests -> Pending \cup Outcomes]
        BY <2>1, <3>4, SettleType DEF WorkRequest, Outcomes
      <4>2. QED
        BY <2>1, <3>1, <3>4, <4>1 DEF WorkRequest, RequestType
    <3>5. QED
      BY <3>3, <3>4
  <2>2. CASE WorkPop
    <3>1. Head(buffer) \in Requests /\ Tail(buffer) \in Seq(Requests)
      BY <2>2, HeadTailProperties DEF WorkPop, RequestType
    <3>2. Tail(buffer) \o rx \in Seq(Requests) /\ <<>> \in Seq(Requests)
      BY <3>1, ConcatProperties DEF RequestType
    <3>3. CASE ShouldSkip(Head(buffer), Tail(buffer) \o rx)
      <4>1. status' \in [Requests -> Pending \cup Outcomes]
        BY <2>2, <3>3, SettleType DEF WorkPop, Outcomes
      <4>2. QED
        BY <2>2, <3>2, <3>3, <4>1 DEF WorkPop, RequestType
    <3>4. CASE ~ShouldSkip(Head(buffer), Tail(buffer) \o rx)
      <4>1. 1 \in 1 .. Len(Exchanges(Head(buffer)))
        BY <3>1, ExchangesType
      <4>2. QED
        BY <2>2, <3>1, <3>2, <3>4, <4>1, ClientConstants DEF WorkPop, Start, RequestType
    <3>5. QED
      BY <3>3, <3>4
  <2>3. CASE WorkExchange
    <3>1. CASE WorkAnswered \/ WorkRequestFails \/ WorkTimeoutIsIgnored
      BY <3>1, ExchangeEnds, GoOnType, FinishType DEF Outcomes
    <3>2. CASE WorkRequestTimesOut
      <4>1. status' \in [Requests -> Pending \cup Outcomes]
        BY <3>2, SettleType DEF WorkRequestTimesOut, Outcomes
      <4>2. QED
        BY <3>2, <4>1 DEF WorkRequestTimesOut, RequestType
    <3>3. CASE WorkReconnect \/ WorkReconnectFails
      BY <3>3, RequestTypeKept DEF WorkReconnect, WorkReconnectFails
    <3>4. QED
      BY <2>3, <3>1, <3>2, <3>3 DEF WorkExchange
  <2>4. CASE WorkEnd
    <3>1. status' \in [Requests -> Pending \cup Outcomes]
      BY <2>4, SettleType DEF WorkEnd, Outcomes
    <3>2. QED
      BY <2>4, <3>1 DEF WorkEnd, RequestType
  <2>5. CASE WorkClient \/ WorkPass \/ WorkNoidle \/ WorkNoidleFails \/ WorkNoidleTimesOut
    BY <2>5, RequestTypeKept DEF WorkClient, WorkPass, WorkNoidle, WorkNoidleFails,
       WorkNoidleTimesOut
  <2>6. CASE WorkTake \/ WorkTaken \/ WorkConfirm \/ WorkConfirmUnhealthy \/ WorkConfirmTimeout
    BY <2>6, RequestTypeKept DEF WorkTake, WorkTaken, WorkConfirm, WorkConfirmUnhealthy,
       WorkConfirmTimeout, WorkSends
  <2>7. CASE WorkHandle \/ WorkPopEmpty \/ WorkRelease \/ WorkAwait \/ WorkAwaitTimeout
    BY <2>7, RequestTypeKept DEF WorkHandle, WorkPopEmpty, WorkRelease, WorkAwait,
       WorkAwaitTimeout, WorkAwaits
  <2>8. QED
    BY <1>6, <2>1, <2>2, <2>3, <2>4, <2>5, <2>6, <2>7 DEF WorkNext
<1>7. QED
  BY <1>1, <1>2, <1>3, <1>4, <1>5, <1>6 DEF Next

LEMMA OwnType ==
  ASSUME RequestType, ConnType, workPc = "execute"
  PROVE  Own \in Responses /\ Sent \in Seq(Responses) /\ Len(Sent) = Len(inbox) + 1
<1>1. Own \in Responses
  BY ClientConstants, ExchangesType DEF RequestType, Responses, Own
<1> QED
  BY <1>1, AppendProperties DEF ConnType, Sent

\* What an exchange leaves of the connection.
ExchangeLeaves ==
    /\ inbox' \in Seq(Responses) /\ crossed' \in BOOLEAN
    /\ link' \in {"ok", "broken"} /\ mode' \in {"command", "idle"}

LEMMA AnsweredType ==
  ASSUME RequestType, ConnType, workPc = "execute", Answered \/ Garbled
  PROVE  ExchangeLeaves
<1>1. Sent \in Seq(Responses) /\ Len(Sent) = Len(inbox) + 1 /\ Len(inbox) \in Nat
  BY OwnType, LenProperties DEF ConnType
<1>2. Sent # <<>>
  BY <1>1, EmptySeq
<1>3. CASE Answered
  BY <1>1, <1>2, <1>3, HeadTailProperties DEF ConnType, Answered, ExchangeLeaves
<1>4. CASE Garbled
  <2>1. PICK n \in 1 .. Len(Sent) + 1 : inbox' = SubSeq(Sent, n, Len(Sent))
    BY <1>4 DEF Garbled
  <2>2. \A i \in n .. Len(Sent) : i \in 1 .. Len(Sent)
    BY <1>1
  <2>3. SubSeq(Sent, n, Len(Sent)) \in Seq(Responses)
    BY <1>1, <2>2, SubSeqProperties
  <2> QED
    BY <1>4, <2>1, <2>3 DEF ConnType, Garbled, ExchangeLeaves
<1> QED
  BY <1>3, <1>4

LEMMA RefusedType ==
  ASSUME ConnType, Refused PROVE ExchangeLeaves
  BY DEF ConnType, Refused, ExchangeLeaves

LEMMA LateType ==
  ASSUME RequestType, ConnType, workPc = "execute", Late,
         ui' = ui, ignored' \in BOOLEAN
  PROVE  ConnType'
<1>1. timeouts' \in 0 .. MaxTimeouts
  BY ClientConstants DEF ConnType, Late
<1>2. inbox' \in Seq(Responses)
  BY OwnType DEF Late
<1>3. QED
  BY <1>1, <1>2 DEF ConnType, Late

LEMMA UiKept ==
  ASSUME GoOn \/ Finish("failed") PROVE ui' = ui
  BY DEF GoOn, Finish

LEMMA ConnTypeStep == RequestType /\ ConnType /\ [Next]_vars => ConnType'
<1> SUFFICES ASSUME RequestType, ConnType, [Next]_vars PROVE ConnType'
  OBVIOUS
<1> USE DEF conn, env
<1>0. <<>> \in Seq(Responses)
  BY EmptySeq
<1>1. CASE UNCHANGED vars
  BY <1>1 DEF vars, ConnType
<1>2. CASE Environment \/ ServerReturns
  <2>1. CASE (\E r \in Requests : Submit(r)) \/ ServerReturns
    BY <2>1 DEF Submit, ServerReturns, ConnType
  <2>2. CASE MpdEvent
    BY <2>2, ClientConstants DEF MpdEvent, ConnType, Responses, IdleResponse
  <2>3. CASE LinkBreaks
    BY <2>3, ClientConstants DEF LinkBreaks, ConnType
  <2>4. QED
    BY <1>2, <2>1, <2>2, <2>3 DEF Environment
<1>3. CASE Rendezvous
  BY <1>3 DEF Rendezvous, IdleConfirmsToMain, IdleConfirmsToWork, WorkConfirms, ConnType
<1>4. CASE MainNext
  BY <1>0, <1>4 DEF MainNext, MainStart, MainTake, MainFirstCheck, MainReconnect,
     MainReconnectFails, MainGiveBack, MainJoin, MainLost, NewConnection, ConnType
<1>5. CASE IdleNext
  <2>1. CASE IdleRead
    BY <2>1, HeadTailProperties DEF IdleRead, ConnType
  <2>2. CASE IdleNext /\ ~IdleRead
    BY <2>2 DEF IdleNext, IdleSteps, IdleTake, IdleTaken, IdleEnter, IdleEnterFails, IdleConfirm,
       IdleConfirmUnhealthy, IdleConfirmTimeout, IdleReadFails, IdleReadTimesOut,
       IdleAwait, IdleAwaitTimeout, ConnType
  <2>3. QED
    BY <1>5, <2>1, <2>2
<1>6. CASE WorkNext
  <2>1. CASE WorkNoidle
    <3>1. Append(inbox, IdleResponse) \in Seq(Responses)
      BY AppendProperties, ClientConstants DEF ConnType, Responses, IdleResponse
    <3>2. QED
      BY <2>1, <3>1 DEF WorkNoidle, ConnType
  <2>2. CASE WorkNoidleTimesOut
    BY <2>2, ClientConstants DEF WorkNoidleTimesOut, ConnType
  <2>3. CASE WorkExchange
    <3>1. CASE WorkReconnect \/ WorkReconnectFails
      BY <1>0, <3>1 DEF WorkReconnect, WorkReconnectFails, NewConnection, ConnType
    <3>2. CASE WorkExchange /\ ~(WorkReconnect \/ WorkReconnectFails)
      <4>1. CASE WorkRequestTimesOut
        BY <4>1, LateType DEF WorkRequestTimesOut, ConnType
      <4>2. CASE WorkTimeoutIsIgnored
        BY <4>2, LateType, UiKept DEF WorkTimeoutIsIgnored
      <4>3. CASE WorkAnswered \/ WorkRequestFails
        <5>1. ui' = ui /\ workPc = "execute"
          BY <4>3, ExchangeEnds, UiKept
        <5>2. ExchangeLeaves
          BY <4>3, <5>1, AnsweredType, RefusedType DEF WorkAnswered, WorkRequestFails
        <5>3. QED
          BY <4>3, <5>1, <5>2 DEF WorkAnswered, WorkRequestFails, ExchangeLeaves, ConnType
      <4>4. QED
        BY <3>2, <4>1, <4>2, <4>3 DEF WorkExchange
    <3>3. QED
      BY <2>3, <3>1, <3>2
  <2>4. CASE WorkRequest \/ WorkClient \/ WorkPass \/ WorkNoidleFails \/ WorkTake \/ WorkTaken
    BY <2>4 DEF WorkRequest, WorkClient, WorkPass, WorkNoidleFails, WorkTake, WorkTaken, ConnType
  <2>5. CASE WorkConfirm \/ WorkConfirmUnhealthy \/ WorkConfirmTimeout \/ WorkHandle
    BY <2>5 DEF WorkConfirm, WorkConfirmUnhealthy, WorkConfirmTimeout, WorkHandle, ConnType
  <2>6. CASE WorkPop \/ WorkPopEmpty \/ WorkRelease \/ WorkAwait \/ WorkAwaitTimeout \/ WorkEnd
    BY <2>6 DEF WorkPop, WorkPopEmpty, Start, WorkRelease, WorkAwait, WorkAwaitTimeout, WorkEnd, ConnType
  <2>7. QED
    BY <1>6, <2>1, <2>2, <2>3, <2>4, <2>5, <2>6 DEF WorkNext
<1>7. QED
  BY <1>1, <1>2, <1>3, <1>4, <1>5, <1>6 DEF Next

THEOREM TypeCorrect == Spec => []TypeOK
<1>1. TokenInv /\ TypeOK /\ [Next]_vars => TypeOK'
  BY ControlTypeStep, RequestTypeStep, ConnTypeStep DEF TypeOK, TokenInv
<1>2. QED
  BY TypeInit, TokenInvariant, <1>1, PTL DEF Spec

----------------------------------------------------------------------------
(* What the threads know of each other, and what is on the wire.           *)

Handling == workPc \in {"handle", "pop", "execute", "reconnect"}

\* Where the idle thread can be while the work thread has the client after a
\* confirmed hand-over, or waits for the confirmation of the next one.
Handover ==
    /\ Handling => healthy /\ idlePc \in {"take", "taking"}
    /\ workPc \in {"passed", "release"} => idlePc \in {"take", "taking", "done"}
    /\ workPc \in {"await", "awaiting"} =>
          idlePc \in {"take", "taking", "enter", "confirm", "confirming", "done"}
    /\ IdleAwaits /\ WorkSends => healthy

LEMMA HandoverInit == Init => Handover
  BY DEF Init, Handover, Handling, IdleAwaits, WorkSends

LEMMA HandoverStep == TokenInv /\ Handover /\ [Next]_vars => Handover'
<1> SUFFICES ASSUME TokenInv, Handover, [Next]_vars PROVE Handover'
  OBVIOUS
<1> USE DEF TokenInv, Phases, ThreadsAreOff, OneClient, MainHolds, IdleHolds, WorkHolds,
            Handover, Handling, IdleSends, IdleAwaits, WorkSends, WorkAwaits
<1>1. CASE UNCHANGED vars
  BY <1>1 DEF vars
<1>2. CASE Environment \/ ServerReturns
  BY <1>2 DEF Environment, ServerReturns, Submit, MpdEvent, LinkBreaks, task
<1>3. CASE Rendezvous
  BY <1>3 DEF Rendezvous, IdleConfirmsToMain, IdleConfirmsToWork, WorkConfirms
<1>4. CASE MainNext
  BY <1>4 DEF MainNext, MainStart, MainTake, MainFirstCheck, MainReconnect,
              MainReconnectFails, MainGiveBack, MainJoin, MainLost, StartIdle, NewConnection
<1>5. CASE IdleNext
  <2> USE DEF IdleBreak
  <2>1. CASE IdleTake \/ IdleTaken \/ IdleEnter \/ IdleEnterFails
    BY <2>1 DEF IdleTake, IdleTaken, IdleEnter, IdleEnterFails
  <2>2. CASE IdleConfirm \/ IdleConfirmUnhealthy \/ IdleConfirmTimeout
    BY <2>2 DEF IdleConfirm, IdleConfirmUnhealthy, IdleConfirmTimeout
  <2>3. CASE IdleRead \/ IdleReadFails \/ IdleReadTimesOut
    BY <2>3 DEF IdleRead, IdleReadFails, IdleReadTimesOut
  <2>4. CASE IdleAwait \/ IdleAwaitTimeout
    BY <2>4 DEF IdleAwait, IdleAwaitTimeout
  <2>5. QED
    BY <1>5, <2>1, <2>2, <2>3, <2>4 DEF IdleNext, IdleSteps
<1>6. CASE WorkNext
  <2>1. CASE WorkRequest \/ WorkClient \/ WorkPass
    BY <2>1 DEF WorkRequest, WorkClient, WorkPass
  <2>2. CASE WorkNoidle \/ WorkNoidleFails \/ WorkNoidleTimesOut
    BY <2>2 DEF WorkNoidle, WorkNoidleFails, WorkNoidleTimesOut
  <2>3. CASE WorkTake \/ WorkTaken \/ WorkConfirm \/ WorkConfirmUnhealthy \/ WorkConfirmTimeout
    BY <2>3 DEF WorkTake, WorkTaken, WorkConfirm, WorkConfirmUnhealthy, WorkConfirmTimeout
  <2>4. CASE WorkHandle \/ WorkPop \/ WorkPopEmpty
    BY <2>4 DEF WorkHandle, WorkPop, WorkPopEmpty, Start
  <2>5. CASE WorkExchange
    BY <2>5 DEF WorkExchange, WorkAnswered, WorkRequestFails, WorkRequestTimesOut,
                WorkTimeoutIsIgnored, WorkReconnect, WorkReconnectFails, GoOn, task, Finish
  <2>6. CASE WorkRelease \/ WorkAwait \/ WorkAwaitTimeout \/ WorkEnd
    BY <2>6 DEF WorkRelease, WorkAwait, WorkAwaitTimeout, WorkEnd
  <2>7. QED
    BY <1>6, <2>1, <2>2, <2>3, <2>4, <2>5, <2>6 DEF WorkNext
<1>7. QED
  BY <1>1, <1>2, <1>3, <1>4, <1>5, <1>6 DEF Next

THEOREM HandoverInvariant == Spec => [](TokenInv /\ Handover)
<1>1. TokenInv /\ Handover /\ [Next]_vars => (TokenInv /\ Handover)'
  BY TokenStep, HandoverStep
<1>2. QED
  BY TokenInit, HandoverInit, <1>1, PTL DEF Spec

\* A confirmation reaches the thread it is meant for.
THEOREM ConfirmationsReachPartner == Spec => []ConfirmationsMatch
<1>1. TokenInv /\ Handover => ConfirmationsMatch
  BY DEF TokenInv, Phases, OneClient, Handover, ConfirmationsMatch, IdleHolds, WorkHolds,
         IdleSends, IdleAwaits, WorkSends, WorkAwaits
<1>2. QED
  BY <1>1, HandoverInvariant, PTL

\* A request runs on MPD only in a healthy task.
THEOREM RequestsRunHealthy == Spec => []RunsHealthy
<1>1. Handover => RunsHealthy
  BY DEF Handover, Handling, RunsHealthy
<1>2. QED
  BY <1>1, HandoverInvariant, PTL

\* HEALTHY is set again only after both threads of the lost connection ended.
THEOREM HealthyAgainOnlyAfterJoin == Spec => HealthyAgainAfterBothEnd
<1> DEFINE Again == ~healthy /\ healthy' => /\ idlePc \in {"off", "done"}
                                            /\ workPc \in {"off", "done"}
<1>1. ASSUME TokenInv, [Next]_vars PROVE [Again]_vars
  <2> SUFFICES ASSUME Next, ~healthy, healthy' PROVE ThreadsAreOff
    BY <1>1 DEF ThreadsAreOff
  <2>1. CASE MainStart
    BY <1>1, <2>1 DEF MainStart, TokenInv, Phases
  <2>2. CASE Environment \/ ServerReturns \/ Rendezvous
    BY <2>2 DEF Environment, ServerReturns, Submit, MpdEvent, LinkBreaks, task,
       Rendezvous, IdleConfirmsToMain, IdleConfirmsToWork, WorkConfirms
  <2>3. CASE MainNext /\ ~MainStart
    BY <2>3 DEF MainNext, MainTake, MainFirstCheck, MainReconnect, MainReconnectFails,
       MainGiveBack, MainJoin, MainLost
  <2>4. CASE IdleNext
    BY <2>4 DEF IdleNext, IdleSteps, IdleTake, IdleTaken, IdleEnter, IdleEnterFails, IdleConfirm,
       IdleConfirmUnhealthy, IdleConfirmTimeout, IdleRead, IdleReadFails,
       IdleReadTimesOut, IdleAwait, IdleAwaitTimeout
  <2>5. CASE WorkNext
    BY <2>5 DEF WorkNext, WorkRequest, WorkClient, WorkPass, WorkNoidle, WorkNoidleFails,
       WorkNoidleTimesOut, WorkTake, WorkTaken, WorkConfirm, WorkConfirmUnhealthy,
       WorkConfirmTimeout, WorkHandle, WorkPop, WorkPopEmpty, Start, WorkExchange, WorkAnswered, WorkRequestFails, WorkRequestTimesOut,
                WorkTimeoutIsIgnored, WorkReconnect, WorkReconnectFails, GoOn, task, WorkRelease, WorkAwait, WorkAwaitTimeout,
       WorkEnd, Finish
  <2>6. QED
    BY <2>1, <2>2, <2>3, <2>4, <2>5 DEF Next
<1>2. QED
  BY <1>1, TokenInvariant, PTL DEF Spec, HealthyAgainAfterBothEnd

----------------------------------------------------------------------------
(* No request meets an idling MPD, nor an unread response before a closure   *)
(* has ignored a time-out.                                                 *)

Quiet == mode = "command" /\ inbox = <<>>
Idling == \/ mode = "idle" /\ inbox = <<>>
          \/ mode = "command" /\ inbox = <<IdleResponse>>

AskedToStop == workPc \in {"take", "taking", "confirm", "confirming"} \/ Handling

\* What is on the wire follows from where the idle thread is, except between a
\* late answer and the reconnect; nothing is known of a connection that is lost
\* or about to be given up.  After an ignored time-out only this is left: an MPD
\* that was told to stop idling is told to idle again by the idle thread alone,
\* which cannot come to it before the client is returned.
Wire ==
    /\ mode \in {"command", "idle"}
    /\ first => mainPc \in {"start", "take", "check"} /\ Quiet /\ ~ignored
    /\ workPc \in {"select", "noidle", "take", "taking", "confirm", "confirming", "passing"} =>
          idlePc \in {"read", "await", "awaiting", "done"}
    /\ healthy /\ link = "ok" /\ workPc # "reconnect" =>
          /\ AskedToStop => mode = "command"
          /\ ~ignored /\ idlePc \in {"take", "taking", "enter", "await", "awaiting"} => Quiet
          /\ ~ignored /\ idlePc \in {"confirm", "confirming", "read"} => Idling

LEMMA OneResponse ==
  ASSUME NEW x
  PROVE  /\ Append(<<>>, x) = <<x>>
         /\ Head(<<x>>) = x /\ Tail(<<x>>) = <<>>
         /\ <<x>> # <<>>
  OBVIOUS

LEMMA WireInit == Init => Wire
  BY DEF Init, Wire, Quiet

LEMMA WireStep == TokenInv /\ Handover /\ Wire /\ [Next]_vars => Wire'
<1> SUFFICES ASSUME TokenInv, Handover, Wire, [Next]_vars PROVE Wire'
  OBVIOUS
<1> USE DEF TokenInv, Phases, ThreadsAreOff, OneClient, MainHolds, IdleHolds, WorkHolds,
            Handover, Handling, IdleSends, IdleAwaits, WorkSends, WorkAwaits,
            Wire, Quiet, Idling, AskedToStop, conn
<1>0. inbox = <<>> => Append(inbox, IdleResponse) = <<IdleResponse>>
  BY OneResponse
<1>1. CASE UNCHANGED vars
  BY <1>1 DEF vars
<1>2. CASE Environment \/ ServerReturns
  <2>1. CASE MpdEvent
    BY <1>0, <2>1 DEF MpdEvent, task
  <2>2. CASE (\E r \in Requests : Submit(r)) \/ LinkBreaks \/ ServerReturns
    BY <2>2 DEF ServerReturns, Submit, LinkBreaks, task
  <2> QED
    BY <1>2, <2>1, <2>2 DEF Environment
<1>3. CASE Rendezvous
  BY <1>3 DEF Rendezvous, IdleConfirmsToMain, IdleConfirmsToWork, WorkConfirms
<1>4. CASE MainNext
  BY <1>4 DEF MainNext, MainStart, MainTake, MainFirstCheck, MainReconnect,
              MainReconnectFails, MainGiveBack, MainJoin, MainLost, StartIdle, NewConnection
<1>5. CASE IdleNext
  <2> USE DEF IdleBreak
  <2>1. CASE IdleTake \/ IdleTaken \/ IdleEnter \/ IdleEnterFails
    BY <2>1 DEF IdleTake, IdleTaken, IdleEnter, IdleEnterFails
  <2>2. CASE IdleConfirm \/ IdleConfirmUnhealthy \/ IdleConfirmTimeout
    BY <2>2 DEF IdleConfirm, IdleConfirmUnhealthy, IdleConfirmTimeout
  <2>3. CASE IdleRead
    BY <2>3, OneResponse DEF IdleRead
  <2>4. CASE IdleReadFails \/ IdleReadTimesOut \/ IdleAwait \/ IdleAwaitTimeout
    BY <2>4 DEF IdleReadFails, IdleReadTimesOut, IdleAwait, IdleAwaitTimeout
  <2>5. QED
    BY <1>5, <2>1, <2>2, <2>3, <2>4 DEF IdleNext, IdleSteps
<1>6. CASE WorkNext
  <2>1. CASE WorkRequest \/ WorkClient \/ WorkPass
    BY <2>1 DEF WorkRequest, WorkClient, WorkPass
  <2>2. CASE WorkNoidle \/ WorkNoidleFails \/ WorkNoidleTimesOut
    <3>1. CASE WorkNoidle /\ link = "ok" /\ mode = "idle"
      BY <1>0, <3>1 DEF WorkNoidle
    <3>2. CASE WorkNoidle /\ ~(link = "ok" /\ mode = "idle")
      BY <3>2 DEF WorkNoidle
    <3>3. CASE WorkNoidleFails \/ WorkNoidleTimesOut
      BY <3>3 DEF WorkNoidleFails, WorkNoidleTimesOut
    <3>4. QED
      BY <2>2, <3>1, <3>2, <3>3
  <2>3. CASE WorkTake \/ WorkTaken \/ WorkConfirm \/ WorkConfirmUnhealthy \/ WorkConfirmTimeout
    BY <2>3 DEF WorkTake, WorkTaken, WorkConfirm, WorkConfirmUnhealthy, WorkConfirmTimeout
  <2>4. CASE WorkHandle \/ WorkPop \/ WorkPopEmpty
    BY <2>4 DEF WorkHandle, WorkPop, WorkPopEmpty, Start
  <2>5. CASE WorkAnswered \/ WorkRequestFails
    <3>1. workPc = "execute" /\ (GoOn \/ Finish("failed"))
      BY <2>5, ExchangeEnds
    <3>2. /\ workPc' \in {"execute", "pop"}
          /\ UNCHANGED <<healthy, first, mainPc, idlePc, ignored>>
      BY <2>5, <3>1 DEF WorkAnswered, WorkRequestFails, GoOn, Finish, task
    <3>3. mode' = mode /\ (link' = "ok" => link = "ok")
      BY <2>5 DEF WorkAnswered, WorkRequestFails, Answered, Garbled, Refused
    <3>4. ~ignored /\ link' = "ok" => inbox' = <<>>
      <4>1. SUFFICES ASSUME ~ignored, link' = "ok" PROVE inbox' = <<>>
        OBVIOUS
      <4>2. inbox = <<>>
        BY <3>1, <3>3, <4>1
      <4>3. Sent = <<Own>>
        BY <4>2, OneResponse DEF Sent
      <4> QED
        BY <2>5, <4>1, <4>3, OneResponse DEF WorkAnswered, WorkRequestFails, Answered,
           Garbled, Refused
    <3> QED
      BY <3>1, <3>2, <3>3, <3>4
  <2>6. CASE WorkTimeoutIsIgnored
    <3>1. workPc = "execute" /\ (GoOn \/ Finish("failed"))
      BY <2>6, ExchangeEnds
    <3>2. workPc' \in {"execute", "pop"} /\ UNCHANGED <<healthy, first, mainPc, idlePc>>
      BY <3>1 DEF GoOn, Finish, task
    <3> QED
      BY <2>6, <3>1, <3>2 DEF WorkTimeoutIsIgnored, Late
  <2>9. CASE WorkRequestTimesOut \/ WorkReconnect \/ WorkReconnectFails
    BY <2>9 DEF WorkRequestTimesOut, WorkReconnect, WorkReconnectFails, Late, NewConnection
  <2>7. CASE WorkRelease \/ WorkAwait \/ WorkAwaitTimeout \/ WorkEnd
    BY <2>7 DEF WorkRelease, WorkAwait, WorkAwaitTimeout, WorkEnd
  <2>8. QED
    BY <1>6, <2>1, <2>2, <2>3, <2>4, <2>5, <2>6, <2>7, <2>9 DEF WorkNext, WorkExchange
<1>7. QED
  BY <1>1, <1>2, <1>3, <1>4, <1>5, <1>6 DEF Next

WireInv == TokenInv /\ Handover /\ Wire

LEMMA WireInvariant == Spec => []WireInv
<1>1. Init => WireInv
  BY TokenInit, HandoverInit, WireInit DEF WireInv
<1>2. WireInv /\ [Next]_vars => WireInv'
  BY TokenStep, HandoverStep, WireStep DEF WireInv
<1>3. QED
  BY <1>1, <1>2, PTL DEF Spec

LEMMA WireIsClean == WireInv => CleanExchange
  BY DEF WireInv, Wire, AskedToStop, Handover, Handling, CleanExchange, Quiet

\* A command is sent only while MPD awaits one, and meets nothing unread unless a
\* closure ignored a time-out on this connection: whatever else breaks, is late or
\* is lost, no exchange leaves its answer to the next.
THEOREM RequestsMeetCleanConnection == Spec => []CleanExchange
  BY WireInvariant, WireIsClean, PTL

LEMMA NoMixedStep == WireInv /\ NoMixedAnswers /\ [Next]_vars => NoMixedAnswers'
<1> SUFFICES ASSUME WireInv, NoMixedAnswers, [Next]_vars PROVE NoMixedAnswers'
  OBVIOUS
<1> USE DEF NoMixedAnswers, conn
<1>1. CASE UNCHANGED <<ignored, crossed>>
  BY <1>1
<1>2. CASE MainReconnect \/ WorkReconnect
  BY <1>2 DEF MainReconnect, WorkReconnect, NewConnection
<1>3. CASE WorkRequestTimesOut \/ WorkTimeoutIsIgnored
  BY <1>3 DEF WorkRequestTimesOut, WorkTimeoutIsIgnored, Late
<1>4. CASE WorkAnswered \/ WorkRequestFails
  <2>1. SUFFICES ASSUME ~ignored PROVE ~crossed'
    BY <1>4 DEF WorkAnswered, WorkRequestFails
  <2>2. CASE Refused
    BY <1>4, <2>1, <2>2 DEF WorkAnswered, WorkRequestFails, Refused, Answered, CanExchange
  <2>3. CASE ~Refused
    <3>1. inbox = <<>>
      BY <1>4, <2>1, <2>3, WireIsClean
         DEF CleanExchange, WorkAnswered, WorkRequestFails, Answered, Garbled, CanExchange
    <3>2. Head(Sent) = Own
      BY <3>1, OneResponse DEF Sent
    <3> QED
      BY <1>4, <2>1, <2>3, <3>2 DEF WorkAnswered, WorkRequestFails, Answered, Garbled
  <2> QED
    BY <2>2, <2>3
<1>5. CASE Next /\ ~UNCHANGED <<ignored, crossed>>
  BY <1>2, <1>3, <1>4, <1>5 DEF Next, Environment, Submit, MpdEvent, LinkBreaks, ServerReturns,
     Rendezvous, IdleConfirmsToMain, IdleConfirmsToWork, WorkConfirms, MainNext, MainStart,
     MainTake, MainFirstCheck, MainReconnectFails, MainGiveBack, MainJoin, MainLost,
     IdleNext, IdleSteps, IdleTake, IdleTaken, IdleEnter, IdleEnterFails, IdleConfirm,
     IdleConfirmUnhealthy, IdleConfirmTimeout, IdleRead, IdleReadFails, IdleReadTimesOut,
     IdleAwait, IdleAwaitTimeout, WorkNext, WorkRequest, WorkClient, WorkPass, WorkNoidle,
     WorkNoidleFails, WorkNoidleTimesOut, WorkTake, WorkTaken, WorkConfirm,
     WorkConfirmUnhealthy, WorkConfirmTimeout, WorkHandle, WorkPop, WorkPopEmpty, WorkExchange,
     WorkReconnectFails, WorkRelease, WorkAwait, WorkAwaitTimeout, WorkEnd
<1>6. QED
  BY <1>1, <1>5 DEF vars

\* A request reads the response to another exchange only on a connection on which a
\* closure has ignored a time-out.
THEOREM AnswersAreNotMixed == Spec => []NoMixedAnswers
<1>1. Init => NoMixedAnswers
  BY DEF Init, NoMixedAnswers
<1>2. QED
  BY <1>1, NoMixedStep, WireInvariant, PTL DEF Spec

----------------------------------------------------------------------------
(* The requests: each is in one place, and they leave in the order in which *)
(* they came.                                                              *)

Ascending(s) == \A i, j \in DOMAIN s : i < j => s[i] < s[j]

\* The requests that wait for an outcome are the one that runs, those of the
\* batch and those of the channel, oldest first.
InLine ==
    /\ Ascending(buffer) /\ Ascending(rx)
    /\ \A b \in Elements(buffer), x \in Elements(rx) : b < x
    /\ current # 0 => \A x \in Elements(buffer) \cup Elements(rx) : current < x
    /\ \A r \in Requests :
         status[r] = "sent" <=> r = current \/ r \in Elements(buffer) \/ r \in Elements(rx)

SubmittedInOrder == \A q, r \in Requests : q < r /\ status[r] # "unsent" => status[q] # "unsent"

\* Nothing is left of a batch when the next request is taken: what a failed
\* reconnect leaves in it is given up with the thread.
BatchIsDone ==
    /\ workPc \in {"off", "done", "select", "passing", "passed", "awaiting"} => buffer = <<>>
    /\ workPc \in {"release", "await"} /\ healthy => buffer = <<>>

QueueInv == InLine /\ SubmittedInOrder /\ BatchIsDone /\ SettledInOrder /\ SkippedIsReplaced

LEMMA EmptyElements == Elements(<<>>) = {} /\ Ascending(<<>>)
  BY DEF Elements, Ascending

LEMMA ElementsType ==
  ASSUME NEW s \in Seq(Requests)
  PROVE  Elements(s) \subseteq Requests
<1>1. \A i \in DOMAIN s : s[i] \in Requests
  BY ElementOfSeq, LenProperties
<1> QED
  BY <1>1 DEF Elements

\* The first of an ascending sequence is less than the others.
LEMMA HeadIsLeast ==
  ASSUME NEW s \in Seq(Requests), s # <<>>, Ascending(s)
  PROVE  /\ Head(s) \in Requests
         /\ Elements(s) = {Head(s)} \cup Elements(Tail(s))
         /\ Ascending(Tail(s))
         /\ \A x \in Elements(Tail(s)) : Head(s) < x
<1>1. /\ Len(s) \in Nat \ {0} /\ DOMAIN s = 1 .. Len(s) /\ Head(s) = s[1]
      /\ \A i \in DOMAIN s : s[i] \in Requests
  <2>1. Len(s) \in Nat \ {0}
    BY EmptySeq
  <2>2. DOMAIN s = 1 .. Len(s) /\ \A i \in 1 .. Len(s) : s[i] \in Requests
    BY LenProperties, ElementOfSeq
  <2>3. Head(s) = s[1]
    OBVIOUS
  <2> QED
    BY <2>1, <2>2, <2>3
<1>2. /\ DOMAIN Tail(s) = 1 .. Len(s) - 1
      /\ \A i \in 1 .. Len(s) - 1 : Tail(s)[i] = s[i + 1]
  BY <1>1
<1>3. ASSUME NEW x \in Elements(s)
      PROVE  x = Head(s) \/ x \in Elements(Tail(s))
  <2>1. PICK i \in DOMAIN s : x = s[i]
    BY DEF Elements
  <2>2. CASE i = 1
    BY <1>1, <2>1, <2>2
  <2>3. CASE i # 1
    <3>1. i - 1 \in 1 .. Len(s) - 1 /\ x = Tail(s)[i - 1]
      BY <1>1, <1>2, <2>1, <2>3
    <3> QED
      BY <1>2, <3>1 DEF Elements
  <2> QED
    BY <2>2, <2>3
<1>4. ASSUME NEW x \in Elements(Tail(s))
      PROVE  x \in Elements(s) /\ Head(s) < x
  <2>1. PICK i \in DOMAIN Tail(s) : x = Tail(s)[i]
    BY DEF Elements
  <2>2. i + 1 \in DOMAIN s /\ x = s[i + 1] /\ 1 < i + 1 /\ 1 \in DOMAIN s
    BY <1>1, <1>2, <2>1
  <2> QED
    BY <1>1, <2>2 DEF Elements, Ascending
<1>5. Ascending(Tail(s))
  <2> SUFFICES ASSUME NEW i \in 1 .. Len(s) - 1, NEW j \in 1 .. Len(s) - 1, i < j
               PROVE  Tail(s)[i] < Tail(s)[j]
    BY <1>2 DEF Ascending
  <2>1. i + 1 \in DOMAIN s /\ j + 1 \in DOMAIN s /\ i + 1 < j + 1
    BY <1>1
  <2> QED
    BY <1>2, <2>1 DEF Ascending
<1>6. Head(s) \in Elements(s) /\ Head(s) \in Requests
  BY <1>1 DEF Elements
<1> QED
  BY <1>3, <1>4, <1>5, <1>6

\* Later requests behind earlier ones.
LEMMA ConcatAscends ==
  ASSUME NEW s \in Seq(Requests), NEW t \in Seq(Requests), Ascending(s), Ascending(t),
         \A x \in Elements(s), y \in Elements(t) : x < y
  PROVE  Ascending(s \o t) /\ Elements(s \o t) = Elements(s) \cup Elements(t)
<1>1. /\ Len(s) \in Nat /\ Len(t) \in Nat
      /\ DOMAIN s = 1 .. Len(s) /\ DOMAIN t = 1 .. Len(t)
      /\ DOMAIN (s \o t) = 1 .. Len(s) + Len(t)
      /\ \A i \in 1 .. Len(s) : (s \o t)[i] = s[i]
      /\ \A i \in 1 .. Len(s) + Len(t) : i > Len(s) => (s \o t)[i] = t[i - Len(s)]
  OBVIOUS
<1> DEFINE u == s \o t
<1> HIDE DEF u
<1>2. ASSUME NEW i \in 1 .. Len(s) + Len(t)
      PROVE  \/ i \in DOMAIN s /\ u[i] = s[i]
             \/ i > Len(s) /\ i - Len(s) \in DOMAIN t /\ u[i] = t[i - Len(s)]
  BY <1>1 DEF u
<1>3. Ascending(u)
  <2> SUFFICES ASSUME NEW i \in DOMAIN u, NEW j \in DOMAIN u, i < j
               PROVE  u[i] < u[j]
    BY DEF Ascending
  <2>0. i \in 1 .. Len(s) + Len(t) /\ j \in 1 .. Len(s) + Len(t)
    BY <1>1 DEF u
  <2>1. CASE j \in DOMAIN s /\ u[j] = s[j]
    <3>1. i \in DOMAIN s /\ u[i] = s[i]
      BY <1>1, <1>2, <2>0, <2>1
    <3> QED
      BY <2>1, <3>1 DEF Ascending
  <2>2. CASE j > Len(s) /\ j - Len(s) \in DOMAIN t /\ u[j] = t[j - Len(s)]
    <3>1. CASE i \in DOMAIN s /\ u[i] = s[i]
      BY <2>2, <3>1 DEF Elements
    <3>2. CASE i > Len(s) /\ i - Len(s) \in DOMAIN t /\ u[i] = t[i - Len(s)]
      <4>1. i - Len(s) < j - Len(s)
        BY <1>1, <2>0
      <4> QED
        BY <2>2, <3>2, <4>1 DEF Ascending
    <3> QED
      BY <1>2, <2>0, <3>1, <3>2
  <2> QED
    BY <1>2, <2>0, <2>1, <2>2
<1>4. Elements(u) = Elements(s) \cup Elements(t)
  <2>1. ASSUME NEW x \in Elements(u)
        PROVE  x \in Elements(s) \/ x \in Elements(t)
    <3>1. PICK i \in 1 .. Len(s) + Len(t) : x = u[i]
      BY <1>1 DEF Elements, u
    <3> QED
      BY <1>2, <3>1 DEF Elements
  <2>2. ASSUME NEW x \in Elements(s)
        PROVE  x \in Elements(u)
    <3>1. PICK i \in 1 .. Len(s) : x = s[i]
      BY <1>1 DEF Elements
    <3>2. i \in 1 .. Len(s) + Len(t) /\ u[i] = s[i]
      BY <1>1 DEF u
    <3> QED
      BY <1>1, <3>1, <3>2 DEF Elements, u
  <2>3. ASSUME NEW x \in Elements(t)
        PROVE  x \in Elements(u)
    <3>1. PICK i \in 1 .. Len(t) : x = t[i]
      BY <1>1 DEF Elements
    <3>2. /\ i + Len(s) \in 1 .. Len(s) + Len(t) /\ i + Len(s) > Len(s)
          /\ i + Len(s) - Len(s) = i
      BY <1>1
    <3>3. u[i + Len(s)] = t[i]
      BY <1>1, <3>2 DEF u
    <3> QED
      BY <1>1, <3>1, <3>2, <3>3 DEF Elements, u
  <2> QED
    BY <2>1, <2>2, <2>3
<1> QED
  BY <1>3, <1>4 DEF u

\* One more request at the end.
LEMMA AppendAscends ==
  ASSUME NEW s \in Seq(Requests), NEW r \in Requests, Ascending(s),
         \A x \in Elements(s) : x < r
  PROVE  Ascending(Append(s, r)) /\ Elements(Append(s, r)) = Elements(s) \cup {r}
<1>1. <<r>> \in Seq(Requests) /\ Ascending(<<r>>) /\ Elements(<<r>>) = {r}
  BY DEF Ascending, Elements
<1>2. Append(s, r) = s \o <<r>>
  OBVIOUS
<1>3. \A x \in Elements(s), y \in Elements(<<r>>) : x < y
  BY <1>1
<1> QED
  BY <1>1, <1>2, <1>3, ConcatAscends

\* Of waiting requests that are older than all others that wait, an outcome
\* keeps the order, and the skipped ones keep a replacement.
LEMMA SettleKeeps ==
  ASSUME RequestType, SubmittedInOrder, SettledInOrder, SkippedIsReplaced,
         NEW rs \in SUBSET Requests, NEW o \in Outcomes, Settle(rs, o),
         \A r \in rs : status[r] = "sent",
         \A r \in rs, q \in Requests : status[q] = "sent" /\ q \notin rs => r < q,
         o = "skipped" => \A r \in rs : \E q \in Requests :
             q > r /\ q \notin rs /\ status[q] = "sent" /\ ReplaceId[q] = ReplaceId[r]
  PROVE  /\ SubmittedInOrder' /\ SettledInOrder' /\ SkippedIsReplaced'
         /\ \A r \in Requests : status'[r] = "sent" <=> status[r] = "sent" /\ r \notin rs
<1>1. \A r \in Requests : status'[r] = IF r \in rs THEN o ELSE status[r]
  BY DEF Settle
<1>2. /\ o \notin {"sent", "unsent"} /\ "sent" \notin Outcomes /\ "unsent" \notin Outcomes
      /\ \A r \in Requests : status[r] \in {"sent", "unsent"} \cup Outcomes
  BY DEF Outcomes, RequestType, Pending
<1>3. SubmittedInOrder'
  BY <1>1, <1>2 DEF SubmittedInOrder
<1>4. SettledInOrder'
  <2> SUFFICES ASSUME NEW q \in Requests, NEW r \in Requests, q < r, status'[r] \in Outcomes
               PROVE  status'[q] \in Outcomes
    BY DEF SettledInOrder
  <2>1. CASE r \in rs
    <3>1. status[q] # "unsent"
      BY <1>2, <2>1 DEF SubmittedInOrder
    <3>2. status[q] = "sent" => q \in rs
      BY <2>1
    <3> QED
      BY <1>1, <1>2, <3>1, <3>2
  <2>2. CASE r \notin rs
    BY <1>1, <1>2, <2>2 DEF SettledInOrder
  <2> QED
    BY <2>1, <2>2
<1>5. SkippedIsReplaced'
  <2> SUFFICES ASSUME NEW r \in Requests, status'[r] = "skipped"
               PROVE  \E q \in Requests : /\ q > r /\ ReplaceId[q] = ReplaceId[r]
                                          /\ status'[q] \notin {"skipped", "unsent"}
    BY DEF SkippedIsReplaced
  <2>1. CASE r \in rs
    BY <1>1, <2>1
  <2>2. CASE r \notin rs
    <3>1. PICK q \in Requests : /\ q > r /\ ReplaceId[q] = ReplaceId[r]
                                /\ status[q] \notin {"skipped", "unsent"}
      BY <1>1, <2>2 DEF SkippedIsReplaced
    <3>2. CASE status'[q] # "skipped"
      BY <1>1, <1>2, <3>1, <3>2
    <3>3. CASE status'[q] = "skipped"
      <4>1. q \in rs /\ o = "skipped"
        BY <1>1, <3>1, <3>3
      <4>2. PICK p \in Requests : /\ p > q /\ p \notin rs /\ status[p] = "sent"
                                  /\ ReplaceId[p] = ReplaceId[q]
        BY <4>1
      <4> QED
        BY <1>1, <3>1, <4>2
    <3> QED
      BY <3>2, <3>3
  <2> QED
    BY <2>1, <2>2
<1> QED
  BY <1>1, <1>2, <1>3, <1>4, <1>5

LEMMA QueueInit == Init => QueueInv
  BY EmptyElements DEF Init, QueueInv, InLine, SubmittedInOrder, BatchIsDone, SettledInOrder,
     SkippedIsReplaced, Outcomes

\* Steps that leave the requests alone.
LEMMA QueueKept ==
  ASSUME QueueInv, UNCHANGED <<rx, buffer, current, status>>, BatchIsDone'
  PROVE  QueueInv'
  BY DEF QueueInv, InLine, SubmittedInOrder, SettledInOrder, SkippedIsReplaced, work, Elements,
     Ascending

\* The oldest request of the channel is dropped by an unhealthy task, or starts a batch.
LEMMA WorkRequestQueue == ASSUME RequestType, QueueInv, WorkRequest PROVE QueueInv'
<1>1. /\ rx \in Seq(Requests) /\ rx # <<>> /\ rx' = Tail(rx) /\ buffer = <<>>
      /\ current = 0 /\ current' = 0 /\ Ascending(rx)
  BY DEF WorkRequest, RequestType, QueueInv, BatchIsDone, InLine
<1>2. /\ Head(rx) \in Requests /\ Elements(rx) = {Head(rx)} \cup Elements(rx')
      /\ Ascending(rx') /\ \A x \in Elements(rx') : Head(rx) < x
  BY <1>1, HeadIsLeast
<1>3. CASE healthy
  <2>1. /\ buffer' = Append(buffer, Head(rx)) /\ status' = status /\ workPc' = "noidle"
    BY <1>3 DEF WorkRequest
  <2>2. Ascending(buffer') /\ Elements(buffer') = {Head(rx)}
    <3>1. buffer \in Seq(Requests) /\ Ascending(buffer) /\ Elements(buffer) = {}
      BY <1>1, EmptyElements, EmptySeq
    <3>2. /\ Ascending(Append(buffer, Head(rx)))
          /\ Elements(Append(buffer, Head(rx))) = Elements(buffer) \cup {Head(rx)}
      BY <1>2, <3>1, AppendAscends
    <3> QED
      BY <2>1, <3>1, <3>2
  <2>3. InLine'
    BY <1>1, <1>2, <2>1, <2>2, EmptyElements DEF QueueInv, InLine
  <2> QED
    BY <2>1, <2>3 DEF QueueInv, SubmittedInOrder, BatchIsDone, SettledInOrder, SkippedIsReplaced
<1>4. CASE ~healthy
  <2>1. Settle({Head(rx)}, "dropped") /\ workPc' = "ending" /\ buffer' = buffer
    BY <1>4 DEF WorkRequest
  <2>2. /\ {Head(rx)} \in SUBSET Requests /\ "dropped" \in Outcomes
        /\ \A r \in {Head(rx)} : status[r] = "sent"
        /\ \A r \in {Head(rx)}, q \in Requests :
             status[q] = "sent" /\ q \notin {Head(rx)} => r < q
    BY <1>1, <1>2, EmptyElements, ClientConstants DEF QueueInv, InLine, Outcomes
  <2>3. /\ SubmittedInOrder' /\ SettledInOrder' /\ SkippedIsReplaced'
        /\ \A r \in Requests : status'[r] = "sent" <=> status[r] = "sent" /\ r \notin {Head(rx)}
    BY <2>1, <2>2, SettleKeeps DEF QueueInv
  <2>4. Head(rx) \notin Elements(rx')
    BY <1>2, ClientConstants
  <2>5. InLine'
    BY <1>1, <1>2, <2>1, <2>3, <2>4, EmptyElements DEF QueueInv, InLine
  <2> QED
    BY <2>1, <2>3, <2>5 DEF QueueInv, BatchIsDone
<1> QED
  BY <1>3, <1>4

\* The oldest request of the batch runs, or is left out for a later one; all that
\* have come meanwhile line up behind the batch.
LEMMA WorkPopQueue == ASSUME RequestType, QueueInv, WorkPop PROVE QueueInv'
<1> DEFINE h == Head(buffer)
           later == Tail(buffer) \o rx
<1>1. /\ buffer \in Seq(Requests) /\ buffer # <<>> /\ rx \in Seq(Requests)
      /\ Ascending(buffer) /\ Ascending(rx) /\ current = 0 /\ workPc = "pop"
  BY DEF WorkPop, RequestType, QueueInv, InLine
<1>2. /\ h \in Requests /\ Elements(buffer) = {h} \cup Elements(Tail(buffer))
      /\ Ascending(Tail(buffer)) /\ \A x \in Elements(Tail(buffer)) : h < x
      /\ Tail(buffer) \in Seq(Requests)
  BY <1>1, HeadIsLeast, HeadTailProperties
<1>3. Ascending(later) /\ Elements(later) = Elements(Tail(buffer)) \cup Elements(rx)
  BY <1>1, <1>2, ConcatAscends DEF QueueInv, InLine
<1>4. later \in Seq(Requests)
  BY <1>1, <1>2, ConcatProperties
<1>5. /\ \A x \in Elements(later) : x \in Requests /\ h < x /\ status[x] = "sent"
      /\ status[h] = "sent"
  <2>1. \A x \in Elements(later) : x \in Requests
    BY <1>4, ElementsType
  <2> QED
    BY <1>2, <1>3, <2>1 DEF QueueInv, InLine
<1>6. \A q \in Requests : status[q] = "sent" <=> q = h \/ q \in Elements(later)
  <2>1. 0 \notin Requests
    BY ClientConstants
  <2>2. \A q \in Requests :
          status[q] = "sent" <=> q = current \/ q \in Elements(buffer) \/ q \in Elements(rx)
    BY DEF QueueInv, InLine
  <2> HIDE DEF h, later
  <2> QED
    BY <1>1, <1>2, <1>3, <2>1, <2>2
<1>7. buffer' = later /\ rx' = <<>>
  BY DEF WorkPop
<1>8. CASE ShouldSkip(h, later)
  <2>1. Settle({h}, "skipped") /\ workPc' = "pop" /\ current' = 0
    BY <1>1, <1>8 DEF WorkPop
  <2>2. PICK q \in Elements(later) : ReplaceId[q] = ReplaceId[h]
    BY <1>8 DEF ShouldSkip, Elements
  <2> HIDE DEF h, later
  <2>3. /\ {h} \in SUBSET Requests /\ "skipped" \in Outcomes
        /\ \A r \in {h} : status[r] = "sent"
        /\ \A r \in {h}, p \in Requests : status[p] = "sent" /\ p \notin {h} => r < p
        /\ \A r \in {h} : \E p \in Requests :
             p > r /\ p \notin {h} /\ status[p] = "sent" /\ ReplaceId[p] = ReplaceId[r]
    <3>1. "skipped" \in Outcomes
      BY DEF Outcomes
    <3>2. q \in Requests /\ h < q /\ status[q] = "sent" /\ h \in Requests
      BY <1>2, <1>5, <2>2
    <3>3. q > h /\ q # h
      BY <3>2, ClientConstants
    <3>4. \A p \in Requests : status[p] = "sent" /\ p # h => h < p
      BY <1>5, <1>6
    <3> QED
      BY <1>5, <2>2, <3>1, <3>2, <3>3, <3>4
  <2>4. /\ SubmittedInOrder' /\ SettledInOrder' /\ SkippedIsReplaced'
        /\ \A r \in Requests : status'[r] = "sent" <=> status[r] = "sent" /\ r \notin {h}
    BY <2>1, <2>3, SettleKeeps DEF QueueInv
  <2>5. h \notin Elements(later)
    BY <1>2, <1>5, ClientConstants
  <2>6. InLine'
    BY <1>3, <1>6, <1>7, <2>1, <2>4, <2>5, EmptyElements, ClientConstants DEF InLine
  <2> QED
    BY <2>1, <2>4, <2>6 DEF QueueInv, BatchIsDone
<1>9. CASE ~ShouldSkip(h, later)
  <2>1. current' = h /\ workPc' = "execute" /\ status' = status
    BY <1>9 DEF WorkPop, Start
  <2> HIDE DEF h, later
  <2>2. InLine'
    BY <1>3, <1>5, <1>6, <1>7, <2>1, EmptyElements DEF InLine
  <2> QED
    BY <2>1, <2>2 DEF QueueInv, SubmittedInOrder, BatchIsDone, SettledInOrder, SkippedIsReplaced
<1> QED
  BY <1>8, <1>9

\* The request that runs has its outcome.
LEMMA RunSettles ==
  ASSUME RequestType, QueueInv, current # 0, NEW o \in Outcomes, o # "skipped",
         Settle({current}, o), current' = 0, UNCHANGED <<rx, buffer>>, BatchIsDone'
  PROVE  QueueInv'
<1>1. /\ current \in Requests /\ status[current] = "sent"
      /\ \A q \in Requests : status[q] = "sent" /\ q # current => current < q
      /\ current \notin Elements(buffer) /\ current \notin Elements(rx)
  <2>1. current \in Requests /\ Elements(buffer) \subseteq Requests /\ Elements(rx) \subseteq Requests
    BY ElementsType DEF RequestType
  <2>2. status[current] = "sent"
    BY <2>1 DEF QueueInv, InLine
  <2>3. \A x \in Elements(buffer) \cup Elements(rx) : current < x
    BY DEF QueueInv, InLine
  <2>4. \A q \in Requests : status[q] = "sent" => q = current \/ q \in Elements(buffer) \/ q \in Elements(rx)
    BY DEF QueueInv, InLine
  <2> QED
    BY <2>1, <2>2, <2>3, <2>4
<1>2. /\ SubmittedInOrder' /\ SettledInOrder' /\ SkippedIsReplaced'
      /\ \A r \in Requests : status'[r] = "sent" <=> status[r] = "sent" /\ r \notin {current}
  BY <1>1, SettleKeeps DEF QueueInv
<1>3. InLine'
  BY <1>1, <1>2, ClientConstants DEF QueueInv, InLine, Elements, Ascending
<1> QED
  BY <1>2, <1>3 DEF QueueInv

\* A thread that gives up drops its batch, which is older than the channel.
LEMMA WorkEndQueue == ASSUME RequestType, QueueInv, WorkEnd PROVE QueueInv'
<1>1. /\ current = 0 /\ current' = 0 /\ Settle(Elements(buffer), "dropped")
      /\ buffer' = <<>> /\ rx' = rx
  BY DEF WorkEnd, RequestType
<1>2. /\ Elements(buffer) \in SUBSET Requests /\ "dropped" \in Outcomes
      /\ \A r \in Elements(buffer) : status[r] = "sent"
      /\ \A r \in Elements(buffer), q \in Requests :
           status[q] = "sent" /\ q \notin Elements(buffer) => r < q
  <2>1. Elements(buffer) \subseteq Requests
    BY ElementsType DEF RequestType
  <2> QED
    BY <1>1, <2>1, ClientConstants DEF QueueInv, InLine, Outcomes
<1>3. /\ SubmittedInOrder' /\ SettledInOrder' /\ SkippedIsReplaced'
      /\ \A r \in Requests :
           status'[r] = "sent" <=> status[r] = "sent" /\ r \notin Elements(buffer)
  BY <1>1, <1>2, SettleKeeps DEF QueueInv
<1>4. /\ Ascending(rx') /\ Elements(rx') = Elements(rx)
      /\ Ascending(buffer') /\ Elements(buffer') = {}
  BY <1>1, EmptyElements DEF QueueInv, InLine
<1>5. \A x \in Elements(rx) : x \notin Elements(buffer)
  <2>1. Elements(rx) \subseteq Nat
    BY ElementsType DEF RequestType
  <2> QED
    BY <2>1 DEF QueueInv, InLine
<1>6. InLine'
  BY <1>1, <1>3, <1>4, <1>5, ClientConstants DEF QueueInv, InLine
<1> QED
  BY <1>1, <1>3, <1>6 DEF QueueInv, BatchIsDone

\* A reconnect drops what is in the channel; both threads have ended by then.
LEMMA MainReconnectQueue ==
  ASSUME Phases, RequestType, QueueInv, MainReconnect PROVE QueueInv'
<1>1. /\ current = 0 /\ current' = 0 /\ Settle(Elements(rx), "dropped")
      /\ buffer = <<>> /\ buffer' = <<>> /\ rx' = <<>>
  BY DEF MainReconnect, RequestType, Phases, ThreadsAreOff, QueueInv, BatchIsDone
<1>2. /\ Elements(rx) \in SUBSET Requests /\ "dropped" \in Outcomes
      /\ \A r \in Elements(rx) : status[r] = "sent"
      /\ \A r \in Elements(rx), q \in Requests :
           status[q] = "sent" /\ q \notin Elements(rx) => r < q
  <2>1. Elements(rx) \subseteq Requests
    BY ElementsType DEF RequestType
  <2> QED
    BY <1>1, <2>1, EmptyElements, ClientConstants DEF QueueInv, InLine, Outcomes
<1>3. /\ SubmittedInOrder' /\ SettledInOrder' /\ SkippedIsReplaced'
      /\ \A r \in Requests : status'[r] = "sent" <=> status[r] = "sent" /\ r \notin Elements(rx)
  BY <1>1, <1>2, SettleKeeps DEF QueueInv
<1>4. InLine'
  BY <1>1, <1>3, EmptyElements, ClientConstants DEF QueueInv, InLine
<1> QED
  BY <1>1, <1>3, <1>4 DEF QueueInv, BatchIsDone

\* A new request is later than all that have been submitted.
LEMMA SubmitQueue ==
  ASSUME RequestType, QueueInv, NEW r \in Requests, Submit(r) PROVE QueueInv'
<1>1. /\ status[r] = "unsent" /\ \A q \in Requests : q < r => status[q] # "unsent"
      /\ rx' = Append(rx, r) /\ status' = [status EXCEPT ![r] = "sent"]
      /\ UNCHANGED <<buffer, current, workPc, healthy>>
      /\ rx \in Seq(Requests) /\ Ascending(rx)
  BY DEF Submit, task, RequestType, QueueInv, InLine
<1>2. \A q \in Requests : status'[q] = IF q = r THEN "sent" ELSE status[q]
  BY <1>1 DEF RequestType
<1>3. \A q \in Requests : status[q] # "unsent" => q < r
  BY <1>1, ClientConstants DEF QueueInv, SubmittedInOrder
<1>4. /\ Elements(rx) \subseteq Requests /\ Elements(buffer) \subseteq Requests
      /\ current \in Requests \cup {0}
  BY ElementsType DEF RequestType
<1>5. \A q \in Requests : status[q] = "sent" => q < r
  BY <1>3
<1>6. Ascending(rx') /\ Elements(rx') = Elements(rx) \cup {r}
  BY <1>1, <1>4, <1>5, AppendAscends DEF QueueInv, InLine
<1>7. InLine'
  <2>1. Elements(buffer)' = Elements(buffer) /\ Ascending(buffer)'
    BY <1>1 DEF QueueInv, InLine
  <2> QED
    BY <1>1, <1>2, <1>4, <1>5, <1>6, <2>1 DEF QueueInv, InLine
<1>8. SubmittedInOrder' /\ SettledInOrder'
  BY <1>1, <1>2, <1>3 DEF QueueInv, SubmittedInOrder, SettledInOrder, Outcomes
<1>9. SkippedIsReplaced'
  <2> SUFFICES ASSUME NEW p \in Requests, status'[p] = "skipped"
               PROVE  \E q \in Requests : /\ q > p /\ ReplaceId[q] = ReplaceId[p]
                                          /\ status'[q] \notin {"skipped", "unsent"}
    BY DEF SkippedIsReplaced
  <2>1. PICK q \in Requests : /\ q > p /\ ReplaceId[q] = ReplaceId[p]
                              /\ status[q] \notin {"skipped", "unsent"}
    BY <1>2 DEF QueueInv, SkippedIsReplaced
  <2> QED
    BY <1>2, <2>1
<1> QED
  BY <1>1, <1>7, <1>8, <1>9 DEF QueueInv, BatchIsDone

LEMMA FinishSettles ==
  ASSUME RequestType, QueueInv, workPc = "execute", NEW o \in {"answered", "failed"}, Finish(o)
  PROVE  QueueInv'
<1>1. /\ Settle({current}, o) /\ current' = 0 /\ UNCHANGED <<rx, buffer>> /\ workPc' = "pop"
      /\ o \in Outcomes /\ o # "skipped"
  BY DEF Finish, Outcomes
<1>2. current # 0 /\ BatchIsDone'
  BY <1>1 DEF RequestType, BatchIsDone
<1> QED
  BY <1>1, <1>2, RunSettles

LEMMA QueueStep ==
  ASSUME TokenInv, Handover, RequestType, QueueInv, [Next]_vars PROVE QueueInv'
<1> USE DEF work, run, task
<1>1. CASE UNCHANGED vars
  BY <1>1, QueueKept DEF vars, QueueInv, BatchIsDone
<1>2. CASE Environment \/ ServerReturns
  BY <1>2, SubmitQueue, QueueKept DEF Environment, MpdEvent, LinkBreaks, ServerReturns,
     QueueInv, BatchIsDone
<1>3. CASE Rendezvous
  <2>1. BatchIsDone'
    BY <1>3 DEF QueueInv, BatchIsDone, Rendezvous, IdleConfirmsToMain, IdleConfirmsToWork,
       WorkConfirms, WorkAwaits, WorkSends, TokenInv, Phases
  <2> QED
    BY <1>3, <2>1, QueueKept DEF Rendezvous, IdleConfirmsToMain, IdleConfirmsToWork, WorkConfirms
<1>4. CASE MainNext
  <2>1. CASE MainReconnect
    BY <2>1, MainReconnectQueue DEF TokenInv
  <2>2. CASE MainNext /\ ~MainReconnect
    <3>1. UNCHANGED work
      BY <2>2 DEF MainNext, MainStart, MainTake, MainFirstCheck, MainReconnectFails,
         MainGiveBack, MainJoin, MainLost
    <3>2. BatchIsDone'
      BY <2>2 DEF QueueInv, BatchIsDone, MainNext, MainStart, MainTake, MainFirstCheck,
         MainReconnectFails, MainGiveBack, MainJoin, MainLost, TokenInv, Phases, ThreadsAreOff
    <3> QED
      BY <3>1, <3>2, QueueKept
  <2> QED
    BY <1>4, <2>1, <2>2
<1>5. CASE IdleNext
  <2>1. UNCHANGED <<work, workPc>> /\ (healthy' => healthy)
    BY <1>5 DEF IdleNext, IdleSteps, IdleTake, IdleTaken, IdleEnter, IdleEnterFails, IdleConfirm,
       IdleConfirmUnhealthy, IdleConfirmTimeout, IdleRead, IdleReadFails, IdleReadTimesOut,
       IdleAwait, IdleAwaitTimeout
  <2> QED
    BY <2>1, QueueKept DEF QueueInv, BatchIsDone
<1>6. CASE WorkNext
  <2>1. CASE WorkRequest \/ WorkPop \/ WorkEnd
    BY <2>1, WorkRequestQueue, WorkPopQueue, WorkEndQueue
  <2>2. CASE WorkAnswered \/ WorkRequestFails \/ WorkTimeoutIsIgnored
    <3>1. workPc = "execute" /\ (GoOn \/ Finish("failed"))
      BY <2>2, ExchangeEnds
    <3>2. CASE \E o \in {"answered", "failed"} : Finish(o)
      <4>1. PICK o \in {"answered", "failed"} : Finish(o)
        BY <3>2
      <4> QED
        BY <3>1, <4>1, FinishSettles
    <3>3. CASE GoOn /\ step < Len(Exchanges(current))
      <4>1. UNCHANGED <<rx, buffer, current, status, workPc, healthy>>
        BY <3>3 DEF GoOn
      <4> QED
        BY <4>1, QueueKept DEF QueueInv, BatchIsDone
    <3> QED
      BY <3>1, <3>2, <3>3 DEF GoOn
  <2>8. CASE WorkRequestTimesOut
    <3>1. /\ Settle({current}, "dropped") /\ current' = 0 /\ UNCHANGED <<rx, buffer>>
          /\ workPc' = "reconnect" /\ workPc = "execute"
      BY <2>8 DEF WorkRequestTimesOut
    <3>2. current # 0 /\ BatchIsDone'
      BY <3>1 DEF RequestType, BatchIsDone
    <3> QED
      BY <3>1, <3>2, RunSettles DEF Outcomes
  <2>3. CASE WorkReconnect \/ WorkReconnectFails
    BY <2>3, QueueKept DEF WorkReconnect, WorkReconnectFails, QueueInv, BatchIsDone
  <2>4. CASE WorkClient \/ WorkPass \/ WorkNoidle \/ WorkNoidleFails \/ WorkNoidleTimesOut
    BY <2>4, QueueKept DEF WorkClient, WorkPass, WorkNoidle, WorkNoidleFails,
       WorkNoidleTimesOut, QueueInv, BatchIsDone
  <2>5. CASE WorkTake \/ WorkTaken \/ WorkConfirm \/ WorkConfirmUnhealthy \/ WorkConfirmTimeout
    BY <2>5, QueueKept DEF WorkTake, WorkTaken, WorkConfirm, WorkConfirmUnhealthy,
       WorkConfirmTimeout, WorkSends, QueueInv, BatchIsDone
  <2>6. CASE WorkHandle \/ WorkPopEmpty \/ WorkRelease \/ WorkAwait \/ WorkAwaitTimeout
    BY <2>6, QueueKept DEF WorkHandle, WorkPopEmpty, WorkRelease, WorkAwait,
       WorkAwaitTimeout, WorkAwaits, QueueInv, BatchIsDone
  <2> QED
    BY <1>6, <2>1, <2>2, <2>3, <2>4, <2>5, <2>6, <2>8 DEF WorkNext, WorkExchange
<1> QED
  BY <1>1, <1>2, <1>3, <1>4, <1>5, <1>6 DEF Next

LEMMA QueueInvariant == Spec => []QueueInv
<1>1. TypeOK => RequestType
  BY DEF TypeOK
<1>2. TokenInv /\ Handover /\ RequestType /\ QueueInv /\ [Next]_vars => QueueInv'
  BY QueueStep
<1> QED
  BY <1>1, <1>2, QueueInit, HandoverInvariant, TypeCorrect, PTL DEF Spec

\* Requests come to their outcomes in the order of their submission: neither the
\* batch that drains the channel, nor a late answer, a failed reconnect or the
\* end of a thread lets a later one overtake.
THEOREM OutcomesKeepOrder == Spec => []SettledInOrder
<1>1. QueueInv => SettledInOrder
  BY DEF QueueInv
<1> QED
  BY <1>1, QueueInvariant, PTL

\* A query is left out only for a later one with its replace_id, and of each chain
\* of replacements one is not left out.
THEOREM SkippedAreReplaced == Spec => []SkippedIsReplaced
<1>1. QueueInv => SkippedIsReplaced
  BY DEF QueueInv
<1> QED
  BY <1>1, QueueInvariant, PTL

=============================================================================
