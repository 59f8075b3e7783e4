------------------------ MODULE FeedbackEvent_proofs ------------------------
(***************************************************************************)
(* Requests for feedback keep their promise for any number of requests,    *)
(* handlers and values, with and without timeouts, and on both sides of    *)
(* Python 3.12.                                                            *)
(***************************************************************************)
EXTENDS FeedbackEvent, TLAPS

LEMMA InitInv == Init => IInv
<1> SUFFICES ASSUME Init PROVE IInv
  OBVIOUS
<1> USE FeedbackAssumption DEF Init
<1>1. TypeOK
  BY DEF TypeOK
<1>2. OnlyWhatWasSent
  BY DEF OnlyWhatWasSent
<1>3. EndsFit
  BY DEF EndsFit
<1>4. SilenceBefore312
  BY DEF SilenceBefore312, TimeoutMeansSilence
<1> QED BY <1>1, <1>2, <1>3, <1>4 DEF IInv

-----------------------------------------------------------------------------
(***************************************************************************)
(* Every step keeps the invariant.                                         *)
(***************************************************************************)
LEMMA HandleInv ==
  ASSUME IInv, NEW kinds \in SUBSET HandlerKinds, Handle(kinds)
  PROVE  IInv'
BY FeedbackAssumption
   DEF Handle, IInv, TypeOK, OnlyWhatWasSent, EndsFit, SilenceBefore312, TimeoutMeansSilence

LEMMA RequestInv ==
  ASSUME IInv, NEW r \in Requests, RequestFeedback(r)
  PROVE  IInv'
<1> USE FeedbackAssumption DEF RequestFeedback, GoTo, IInv
<1>1. TypeOK'
  BY DEF TypeOK
<1>2. OnlyWhatWasSent'
  BY DEF TypeOK, OnlyWhatWasSent
<1>3. EndsFit'
  BY DEF TypeOK, EndsFit
<1>4. SilenceBefore312'
  BY DEF TypeOK, SilenceBefore312, TimeoutMeansSilence
<1> QED BY <1>1, <1>2, <1>3, <1>4

LEMMA RequestAsyncInv ==
  ASSUME IInv, NEW r \in Requests, RequestFeedbackAsync(r)
  PROVE  IInv'
<1> USE FeedbackAssumption DEF IInv
<1>1. PICK reply \in [handlers -> Values \union {NoValue}] :
        LET sent == {reply[k] : k \in handlers} \ {NoValue}
            first == IF sent = {} THEN NoValue
                     ELSE IF "typed" \in handlers /\ reply["typed"] # NoValue
                          THEN reply["typed"] ELSE reply["default"]
        IN  /\ future' = [future EXCEPT ![r] = first]
            /\ offered' = [offered EXCEPT ![r] = @ \union sent]
            /\ GoTo(r, IF first # NoValue /\ (modern \/ r \notin Limited)
                       THEN "returned" ELSE "waiting")
  BY DEF RequestFeedbackAsync
<1> DEFINE sent == {reply[k] : k \in handlers} \ {NoValue}
           first == IF sent = {} THEN NoValue
                    ELSE IF "typed" \in handlers /\ reply["typed"] # NoValue
                         THEN reply["typed"] ELSE reply["default"]
           how == IF first # NoValue /\ (modern \/ r \notin Limited)
                  THEN "returned" ELSE "waiting"
<1>2. sent \subseteq Values /\ (first = NoValue \/ (first \in sent /\ first \in Values))
  <2>1. handlers \subseteq HandlerKinds
    BY DEF TypeOK
  <2>2. /\ sent = {reply[k] : k \in handlers} \ {NoValue}
        /\ first = IF sent = {} THEN NoValue
                   ELSE IF "typed" \in handlers /\ reply["typed"] # NoValue
                        THEN reply["typed"] ELSE reply["default"]
    OBVIOUS
  <2>3. sent \subseteq Values
    BY <2>2
  <2>4. CASE "typed" \in handlers /\ reply["typed"] # NoValue
    <3>1. reply["typed"] \in sent
      BY <2>2, <2>4
    <3> QED BY <2>2, <2>3, <2>4, <3>1
  <2>5. CASE ~ ("typed" \in handlers /\ reply["typed"] # NoValue) /\ sent # {}
    <3>1. PICK k \in handlers : reply[k] # NoValue
      BY <2>2, <2>5
    <3>2. k = "default"
      BY <2>1, <2>5, <3>1 DEF HandlerKinds
    <3>3. reply["default"] \in sent
      BY <2>2, <3>1, <3>2
    <3> QED BY <2>2, <2>3, <2>5, <3>3
  <2>6. CASE sent = {}
    BY <2>2, <2>6
  <2> HIDE DEF sent, first
  <2> QED BY <2>3, <2>4, <2>5, <2>6
<1> HIDE DEF sent, first
<1>3. /\ future' = [future EXCEPT ![r] = first]
      /\ offered' = [offered EXCEPT ![r] = @ \union sent]
      /\ state' = [state EXCEPT ![r] = how]
  BY <1>1 DEF GoTo, sent, first
<1>4. /\ handlers' = handlers /\ fired' = fired /\ ready' = ready
      /\ complaints' = complaints /\ modern' = modern
      /\ given \subseteq given' /\ given' \subseteq given \union {r}
      /\ state[r] \in {"new", "scheduled"}
  BY DEF RequestFeedbackAsync, Starts
<1>5. TypeOK'
  BY <1>2, <1>3, <1>4 DEF TypeOK
<1>6. OnlyWhatWasSent'
  BY <1>2, <1>3, <1>4 DEF TypeOK, OnlyWhatWasSent
<1>7. EndsFit'
  BY <1>2, <1>3, <1>4 DEF TypeOK, EndsFit
<1>8. SilenceBefore312'
  BY <1>2, <1>3, <1>4 DEF TypeOK, SilenceBefore312, TimeoutMeansSilence
<1> QED BY <1>5, <1>6, <1>7, <1>8

LEMMA RaisesInv ==
  ASSUME IInv, NEW r \in Requests, HandlerRaises(r)
  PROVE  IInv'
<1> USE FeedbackAssumption DEF HandlerRaises, GoTo, IInv
<1>1. TypeOK'
  BY DEF TypeOK
<1>2. OnlyWhatWasSent'
  BY DEF TypeOK, OnlyWhatWasSent
<1>3. EndsFit'
  BY DEF TypeOK, EndsFit
<1>4. SilenceBefore312'
  BY DEF TypeOK, SilenceBefore312, TimeoutMeansSilence
<1> QED BY <1>1, <1>2, <1>3, <1>4

LEMMA SendInLoopInv ==
  ASSUME IInv, NEW r \in Requests, NEW v \in Values, SendInLoop(r, v)
  PROVE  IInv'
<1> USE FeedbackAssumption DEF SendInLoop, Sends, IInv
<1>1. TypeOK'
  BY DEF TypeOK
<1>2. OnlyWhatWasSent'
  BY DEF TypeOK, OnlyWhatWasSent
<1>3. EndsFit'
  BY DEF TypeOK, EndsFit
<1>4. SilenceBefore312'
  BY DEF TypeOK, EndsFit, SilenceBefore312, TimeoutMeansSilence
<1> QED BY <1>1, <1>2, <1>3, <1>4

LEMMA SendFromThreadInv ==
  ASSUME IInv, NEW r \in Requests, NEW v \in Values, SendFromThread(r, v)
  PROVE  IInv'
<1> USE FeedbackAssumption DEF SendFromThread, Sends, IInv
<1>0. /\ ready \in Seq(Requests \X Values) /\ <<r, v>> \in Requests \X Values
      /\ ready' = Append(ready, <<r, v>>) /\ r \in given
  BY DEF TypeOK
<1>1. TypeOK'
  BY <1>0 DEF TypeOK
<1>2. OnlyWhatWasSent'
  <2>1. ASSUME NEW n \in DOMAIN ready'
        PROVE  ready'[n][1] \in given' /\ ready'[n][2] \in offered'[ready'[n][1]]
    <3>1. CASE n \in DOMAIN ready
      <4>1. ready'[n] = ready[n] /\ ready[n] \in Requests \X Values
        BY <1>0, <3>1
      <4> QED BY <3>1, <4>1 DEF TypeOK, OnlyWhatWasSent
    <3>2. CASE n = Len(ready) + 1
      <4>1. ready'[n] = <<r, v>>
        BY <1>0, <3>2
      <4> QED BY <1>0, <4>1 DEF TypeOK
    <3> QED BY <1>0, <2>1, <3>1, <3>2
  <2>2. \A s \in Requests : future'[s] \in Values => future'[s] \in offered'[s]
    BY DEF TypeOK, OnlyWhatWasSent
  <2>3. \A s \in Requests : state'[s] \in {"new", "scheduled"} => s \notin given' /\ future'[s] = NoValue
    BY DEF OnlyWhatWasSent
  <2> QED BY <2>1, <2>2, <2>3 DEF OnlyWhatWasSent
<1>3. EndsFit'
  BY DEF EndsFit
<1>4. SilenceBefore312'
  BY DEF SilenceBefore312, TimeoutMeansSilence
<1> QED BY <1>1, <1>2, <1>3, <1>4

\* A callback belongs to a request that has started.
LEMMA FirstCallback ==
  ASSUME IInv, ready # <<>>
  PROVE  /\ Head(ready)[1] \in Requests \intersect given /\ Head(ready)[2] \in Values
         /\ Head(ready)[2] \in offered[Head(ready)[1]]
         /\ state[Head(ready)[1]] \notin {"new", "scheduled"}
         /\ Head(ready) \in Requests \X Values
         /\ Tail(ready) \in Seq(Requests \X Values)
         /\ \A n \in DOMAIN Tail(ready) : n + 1 \in DOMAIN ready /\ Tail(ready)[n] = ready[n + 1]
<1>1. ready \in Seq(Requests \X Values) /\ 1 \in DOMAIN ready /\ Head(ready) = ready[1]
  BY DEF IInv, TypeOK
<1>2. /\ Tail(ready) \in Seq(Requests \X Values)
      /\ \A n \in DOMAIN Tail(ready) : n + 1 \in DOMAIN ready /\ Tail(ready)[n] = ready[n + 1]
  BY <1>1
<1> QED BY <1>1, <1>2 DEF IInv, OnlyWhatWasSent

LEMMA DeliverInv ==
  ASSUME IInv, Deliver
  PROVE  IInv'
<1> USE FeedbackAssumption DEF IInv
<1> DEFINE r == Head(ready)[1]
           v == Head(ready)[2]
<1>1. /\ r \in Requests /\ v \in Values /\ v \in offered[r] /\ r \in given
      /\ state[r] \notin {"new", "scheduled"}
      /\ Head(ready) \in Requests \X Values /\ Tail(ready) \in Seq(Requests \X Values)
      /\ \A n \in DOMAIN Tail(ready) : n + 1 \in DOMAIN ready /\ Tail(ready)[n] = ready[n + 1]
  BY FirstCallback DEF Deliver
<1>2. /\ ready' = Tail(ready)
      /\ \/ future[r] = NoValue /\ future' = [future EXCEPT ![r] = v] /\ complaints' = complaints
         \/ future' = future /\ complaints' = complaints \union {Head(ready)}
      /\ UNCHANGED <<handlers, state, given, fired, offered, modern>>
  BY DEF Deliver
<1> HIDE DEF r, v
<1>3. TypeOK'
  BY <1>1, <1>2 DEF TypeOK
<1>4. OnlyWhatWasSent'
  <2>1. \A s \in Requests : future'[s] \in Values => future'[s] \in offered'[s]
    BY <1>1, <1>2 DEF TypeOK, OnlyWhatWasSent
  <2>2. \A n \in DOMAIN ready' : ready'[n][1] \in given' /\ ready'[n][2] \in offered'[ready'[n][1]]
    BY <1>1, <1>2 DEF OnlyWhatWasSent
  <2>3. \A s \in Requests : state'[s] \in {"new", "scheduled"} => s \notin given' /\ future'[s] = NoValue
    BY <1>1, <1>2 DEF TypeOK, OnlyWhatWasSent
  <2> QED BY <2>1, <2>2, <2>3 DEF OnlyWhatWasSent
<1>5. EndsFit'
  BY <1>1, <1>2 DEF TypeOK, EndsFit
<1>6. SilenceBefore312'
  BY <1>1, <1>2 DEF TypeOK, EndsFit, SilenceBefore312, TimeoutMeansSilence
<1> QED BY <1>3, <1>4, <1>5, <1>6

LEMMA TimerInv ==
  ASSUME IInv, NEW r \in Requests, TimerFires(r)
  PROVE  IInv'
<1> USE FeedbackAssumption DEF TimerFires, IInv
<1>1. TypeOK'
  BY DEF TypeOK
<1>2. OnlyWhatWasSent'
  BY DEF TypeOK, OnlyWhatWasSent
<1>3. EndsFit'
  BY DEF TypeOK, EndsFit
<1>4. SilenceBefore312'
  BY DEF TypeOK, SilenceBefore312, TimeoutMeansSilence
<1> QED BY <1>1, <1>2, <1>3, <1>4

LEMMA ResumeInv ==
  ASSUME IInv, NEW r \in Requests, Resume(r)
  PROVE  IInv'
<1> USE FeedbackAssumption DEF Resume, GoTo, IInv
<1>1. TypeOK'
  BY DEF TypeOK
<1>2. OnlyWhatWasSent'
  BY DEF TypeOK, OnlyWhatWasSent
<1>3. EndsFit'
  BY DEF TypeOK, EndsFit
<1>4. SilenceBefore312'
  BY DEF TypeOK, EndsFit, SilenceBefore312, TimeoutMeansSilence
<1> QED BY <1>1, <1>2, <1>3, <1>4

LEMMA StepInv == IInv /\ [Next]_vars => IInv'
<1> SUFFICES ASSUME IInv, [Next]_vars PROVE IInv'
  OBVIOUS
<1>1. CASE UNCHANGED vars
  BY <1>1 DEF vars, IInv, TypeOK, OnlyWhatWasSent, EndsFit, SilenceBefore312, TimeoutMeansSilence
<1>2. ASSUME NEW kind \in HandlerKinds,
             RegisterEventHandler(kind) \/ UnregisterEventHandler(kind) \/ UnregisterAllEventHandlers
      PROVE  IInv'
  <2>1. handlers \subseteq HandlerKinds
    BY DEF IInv, TypeOK
  <2> QED BY <1>2, <2>1, HandleInv
          DEF RegisterEventHandler, UnregisterEventHandler, UnregisterAllEventHandlers
<1>3. CASE UnregisterAllEventHandlers
  BY <1>3, HandleInv DEF UnregisterAllEventHandlers
<1>4. ASSUME NEW r \in Requests, NEW v \in Values, SendInLoop(r, v) \/ SendFromThread(r, v)
      PROVE  IInv'
  BY <1>4, SendInLoopInv, SendFromThreadInv
<1>5. ASSUME NEW r \in Requests, RequestFeedback(r) \/ Progress(r)
      PROVE  IInv'
  BY <1>5, RequestInv, RequestAsyncInv, RaisesInv, TimerInv, ResumeInv DEF Progress
<1>6. CASE Deliver
  BY <1>6, DeliverInv
<1> QED BY <1>1, <1>2, <1>3, <1>4, <1>5, <1>6 DEF Next, Application

-----------------------------------------------------------------------------
(***************************************************************************)
(* What a step may never do, and what it means for the one who asked.      *)
(***************************************************************************)
LEMMA FutureKept ==
  ASSUME IInv, [Next]_vars, NEW r \in Requests, future[r] # NoValue
  PROVE  future'[r] = future[r]
<1> USE FeedbackAssumption DEF IInv
<1>0. future \in [Requests -> Values \union {NoValue, "cancelled"}]
  BY DEF TypeOK
<1>1. ASSUME NEW s \in Requests, RequestFeedbackAsync(s) PROVE future'[r] = future[r]
  <2>1. state[s] \in {"new", "scheduled"} /\ future[s] = NoValue
    BY <1>1 DEF RequestFeedbackAsync, Starts, OnlyWhatWasSent
  <2>2. PICK v : future' = [future EXCEPT ![s] = v]
    BY <1>1 DEF RequestFeedbackAsync
  <2> QED BY <1>0, <2>1, <2>2
<1>2. ASSUME NEW s \in Requests, Progress(s) PROVE future'[r] = future[r]
  <2>1. CASE HandlerRaises(s)
    BY <2>1 DEF HandlerRaises
  <2>2. CASE TimerFires(s)
    BY <1>0, <2>2 DEF TimerFires
  <2>3. CASE Resume(s)
    BY <1>0, <2>3 DEF Resume
  <2> QED BY <1>1, <1>2, <2>1, <2>2, <2>3 DEF Progress
<1>3. CASE Deliver
  <2>1. Head(ready)[1] \in Requests
    BY <1>3, FirstCallback DEF Deliver
  <2> QED BY <1>0, <1>3, <2>1 DEF Deliver
<1>4. CASE Application
  BY <1>0, <1>4 DEF Application, RegisterEventHandler, UnregisterEventHandler,
     UnregisterAllEventHandlers, Handle, SendInLoop, SendFromThread, RequestFeedback
<1>5. CASE UNCHANGED vars
  BY <1>5 DEF vars
<1> QED BY <1>2, <1>3, <1>4, <1>5 DEF Next

\* A step that only offers, and one that ends a request, are steps of the promise.
LEMMA Offering ==
  ASSUME NEW r \in Requests, NEW more \in SUBSET Values,
         offered' = [offered EXCEPT ![r] = @ \union more], Outcome' = Outcome
  PROVE  Promise!Step(r)
BY DEF Promise!Step

LEMMA Ending ==
  ASSUME NEW r \in Requests, NEW more \in SUBSET Values, NEW how,
         offered' = [offered EXCEPT ![r] = @ \union more],
         Outcome[r] = "open", Outcome' = [Outcome EXCEPT ![r] = how],
         how \in offered'[r] \/ (r \in Limited /\ how = "expired") \/ how = "raised"
  PROVE  Promise!Step(r)
BY DEF Promise!Step, Promise!Ends

\* Outcomes follow the state of the requests and the futures of those that returned.
LEMMA SameOutcome ==
  ASSUME IInv, [Next]_vars, state' = state
  PROVE  Outcome' = Outcome
<1>1. ASSUME NEW r \in Requests, state[r] = "returned" PROVE future'[r] = future[r]
  <2>1. future[r] # NoValue
    BY <1>1, FeedbackAssumption DEF IInv, EndsFit
  <2> QED BY <2>1, FutureKept
<1> QED BY <1>1 DEF Outcome

LEMMA OneOutcome ==
  ASSUME IInv, [Next]_vars, NEW r \in Requests, NEW place, GoTo(r, place)
  PROVE  Outcome' = [Outcome EXCEPT ![r] = IF place \in {"new", "scheduled", "waiting"} THEN "open"
                                          ELSE IF place = "returned" THEN future'[r] ELSE place]
<1>1. ASSUME NEW s \in Requests, state[s] = "returned" PROVE future'[s] = future[s]
  <2>1. future[s] # NoValue
    BY <1>1, FeedbackAssumption DEF IInv, EndsFit
  <2> QED BY <2>1, FutureKept
<1>2. state \in [Requests -> {"new", "scheduled", "waiting", "returned", "expired", "raised"}]
  BY DEF IInv, TypeOK
<1>3. \A s \in Requests : state'[s] = IF s = r THEN place ELSE state[s]
  BY <1>2 DEF GoTo
<1> QED BY <1>1, <1>3 DEF Outcome

LEMMA PromiseStep ==
  ASSUME IInv, IInv', [Next]_vars
  PROVE  [\E r \in Requests : Promise!Step(r)]_<<Outcome, offered>>
<1> USE FeedbackAssumption
<1>0. offered \in [Requests -> SUBSET Values]
  BY DEF IInv, TypeOK
<1>1. CASE state' = state /\ offered' = offered
  BY <1>1, SameOutcome
<1>2. ASSUME NEW r \in Requests, NEW v \in Values, SendInLoop(r, v) \/ SendFromThread(r, v)
      PROVE  Promise!Step(r)
  <2>1. offered' = [offered EXCEPT ![r] = @ \union {v}] /\ state' = state
    BY <1>2 DEF SendInLoop, SendFromThread, Sends
  <2>2. Outcome' = Outcome /\ {v} \in SUBSET Values
    BY <2>1, SameOutcome
  <2> QED BY <2>1, <2>2, Offering
<1>3. ASSUME NEW r \in Requests, RequestFeedback(r)
      PROVE  Promise!Step(r)
  <2>1. PICK place \in {"raised", "scheduled"} : GoTo(r, place)
    BY <1>3 DEF RequestFeedback
  <2>2. offered' = [offered EXCEPT ![r] = @ \union {}] /\ Outcome[r] = "open"
    BY <1>0, <1>3 DEF RequestFeedback, Outcome
  <2>3. CASE place = "raised"
    <3>1. Outcome' = [Outcome EXCEPT ![r] = "raised"]
      BY <2>1, <2>3, OneOutcome
    <3> QED BY <2>2, <3>1, Ending
  <2>4. CASE place = "scheduled"
    <3>1. Outcome' = [Outcome EXCEPT ![r] = "open"]
      BY <2>1, <2>4, OneOutcome
    <3>2. Outcome' = Outcome
      BY <2>2, <3>1 DEF Outcome
    <3> QED BY <2>2, <3>2, Offering
  <2> QED BY <2>1, <2>3, <2>4
<1>4. ASSUME NEW r \in Requests, RequestFeedbackAsync(r)
      PROVE  Promise!Step(r)
  <2>0. PICK more : offered' = [offered EXCEPT ![r] = @ \union more]
    BY <1>4 DEF RequestFeedbackAsync
  <2>1. PICK place \in {"returned", "waiting"} : GoTo(r, place)
    BY <1>4 DEF RequestFeedbackAsync
  <2>2. Outcome[r] = "open"
    BY <1>4 DEF RequestFeedbackAsync, Starts, Outcome
  <2>3. more \in SUBSET Values
    BY <1>0, <2>0 DEF IInv, TypeOK
  <2>4. CASE place = "returned"
    <3>1. Outcome' = [Outcome EXCEPT ![r] = future'[r]]
      BY <2>1, <2>4, OneOutcome
    <3>2. state'[r] = "returned"
      BY <2>1, <2>4 DEF GoTo, IInv, TypeOK
    <3>3. future'[r] \in offered'[r]
      BY <3>2 DEF IInv, EndsFit, OnlyWhatWasSent
    <3> QED BY <2>0, <2>2, <2>3, <3>1, <3>3, Ending
  <2>5. CASE place = "waiting"
    <3>1. Outcome' = [Outcome EXCEPT ![r] = "open"]
      BY <2>1, <2>5, OneOutcome
    <3>2. Outcome' = Outcome
      BY <2>2, <3>1 DEF Outcome
    <3> QED BY <2>0, <2>3, <3>2, Offering
  <2> QED BY <2>1, <2>4, <2>5
<1>5. ASSUME NEW r \in Requests, HandlerRaises(r)
      PROVE  Promise!Step(r)
  <2>1. GoTo(r, "raised") /\ offered' = [offered EXCEPT ![r] = @ \union {}]
    BY <1>0, <1>5 DEF HandlerRaises
  <2>2. Outcome[r] = "open" /\ Outcome' = [Outcome EXCEPT ![r] = "raised"]
    BY <1>5, <2>1, OneOutcome DEF HandlerRaises, Starts, Outcome
  <2> QED BY <2>1, <2>2, Ending
<1>6. ASSUME NEW r \in Requests, Resume(r)
      PROVE  Promise!Step(r)
  <2>1. PICK place \in {"returned", "expired"} : GoTo(r, place)
    BY <1>6 DEF Resume
  <2>2. /\ offered' = [offered EXCEPT ![r] = @ \union {}] /\ Outcome[r] = "open"
        /\ state'[r] = place /\ offered'[r] = offered[r]
    BY <1>0, <1>6, <2>1 DEF Resume, Outcome, GoTo, IInv, TypeOK
  <2>3. CASE place = "returned"
    <3>1. Outcome' = [Outcome EXCEPT ![r] = future'[r]]
      BY <2>1, <2>3, OneOutcome
    <3>2. future'[r] \in offered'[r]
      BY <2>2, <2>3 DEF IInv, EndsFit, OnlyWhatWasSent
    <3> QED BY <2>2, <3>1, <3>2, Ending
  <2>4. CASE place = "expired"
    <3>1. Outcome' = [Outcome EXCEPT ![r] = "expired"]
      BY <2>1, <2>4, OneOutcome
    <3>2. r \in Limited
      BY <2>2, <2>4 DEF IInv, EndsFit
    <3> QED BY <2>2, <3>1, <3>2, Ending
  <2> QED BY <2>1, <2>3, <2>4
<1>7. ASSUME NEW r \in Requests, Progress(r)
      PROVE  Promise!Step(r) \/ (state' = state /\ offered' = offered)
  BY <1>4, <1>5, <1>6, <1>7 DEF Progress, TimerFires
<1>8. CASE Deliver
  BY <1>1, <1>8 DEF Deliver
<1>9. CASE Application
  BY <1>1, <1>2, <1>3, <1>9 DEF Application, RegisterEventHandler, UnregisterEventHandler,
     UnregisterAllEventHandlers, Handle
<1>10. CASE UNCHANGED vars
  BY <1>1, <1>10 DEF vars
<1> QED BY <1>1, <1>7, <1>8, <1>9, <1>10 DEF Next

(***************************************************************************)
(* The theorems.                                                           *)
(***************************************************************************)
\* What is set or on its way was sent for its request, a request that ended
\* ended in accordance with its future, and before Python 3.12 a timeout means
\* that nothing had arrived.
THEOREM FeedbackInvariance == Spec => []IInv
BY InitInv, StepInv, PTL DEF Spec

\* The first feedback that reaches the future stays, whatever is sent after it,
\* from wherever, and whenever the timer fires.
THEOREM FirstStays == Spec => FirstKept
<1>1. IInv /\ [Next]_vars => [\A r \in Requests : future[r] # NoValue => future'[r] = future[r]]_vars
  BY FutureKept
<1> QED BY <1>1, FeedbackInvariance, PTL DEF Spec, FirstKept

\* Requests implement what they promise: each ends at most once, with a feedback
\* sent for this request, with a timeout if it has one, or in error.
THEOREM RequestsKeepPromise == Spec => KeepsPromise
<1>1. Init => Promise!Init
  BY FeedbackAssumption DEF Init, Promise!Init, Outcome
<1>2. IInv /\ IInv' /\ [Next]_vars => [\E r \in Requests : Promise!Step(r)]_<<Outcome, offered>>
  BY PromiseStep
<1> QED BY <1>1, <1>2, FeedbackInvariance, PTL DEF Spec, KeepsPromise, Promise!Spec

\* Before Python 3.12 a request that times out has had no feedback.
THEOREM AlwaysSilentBefore312 == Spec => []SilenceBefore312
<1>1. IInv => SilenceBefore312
  BY DEF IInv
<1> QED BY <1>1, FeedbackInvariance, PTL
=============================================================================
