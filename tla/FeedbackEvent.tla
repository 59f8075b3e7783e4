--------------------------- MODULE FeedbackEvent ---------------------------
(***************************************************************************)
(* Requests for feedback and their answers (_automa.py).  A request calls  *)
(* the event handlers of the top-level automa with one sender, a future of *)
(* the loop, and awaits the future with a timeout.  The application may    *)
(* send in the handler, later in the loop, or from another thread; then a  *)
(* callback of the loop delivers it.  Nested automas hand the request to   *)
(* their parent and keep no state.                                         *)
(***************************************************************************)
EXTENDS Naturals, Sequences

CONSTANTS Requests,
          Caller,    \* request -> who makes it: a coroutine, the pool, the main thread
          Limited,   \* the requests with a timeout
          Values,    \* feedbacks; bound: each is sent once per request
          NoValue

ASSUME FeedbackAssumption ==
  /\ Caller \in [Requests -> {"async", "pool", "main"}]
  /\ Limited \subseteq Requests
  /\ {NoValue, "cancelled", "open", "expired", "raised"} \intersect Values = {}
  /\ NoValue # "cancelled"

VARIABLES
  handlers,   \* the kinds of handler registered: for the event's type, the default
  state,      \* request -> how far it is
  given,      \* the requests whose sender the application has
  future,     \* request -> its future: NoValue while pending
  fired,      \* the requests whose timer has gone off
  ready,      \* callbacks of the loop, from sends of other threads
  offered,    \* history: request -> what was sent
  complaints, \* sends that raised in a callback of the loop
  modern      \* Python 3.12 or later, where wait_for cancels at once

vars == <<handlers, state, given, future, fired, ready, offered, complaints, modern>>

HandlerKinds == {"typed", "default"}

TypeOK ==
  /\ handlers \subseteq HandlerKinds
  /\ state \in [Requests -> {"new", "scheduled", "waiting", "returned", "expired", "raised"}]
  /\ given \subseteq Requests /\ fired \subseteq Limited
  /\ future \in [Requests -> Values \union {NoValue, "cancelled"}]
  /\ ready \in Seq(Requests \X Values) /\ complaints \subseteq Requests \X Values
  /\ offered \in [Requests -> SUBSET Values] /\ modern \in BOOLEAN

Init ==
  /\ handlers \in SUBSET HandlerKinds
  /\ state = [r \in Requests |-> "new"] /\ given = {} /\ fired = {}
  /\ future = [r \in Requests |-> NoValue]
  /\ ready = <<>> /\ complaints = {}
  /\ offered = [r \in Requests |-> {}] /\ modern \in BOOLEAN

GoTo(r, place) == state' = [state EXCEPT ![r] = place]

\* (un)register_event_handler concern the requests that start afterwards.
Handle(kinds) ==
  /\ kinds # handlers /\ handlers' = kinds
  /\ UNCHANGED <<state, given, future, fired, ready, offered, complaints, modern>>

RegisterEventHandler(kind) == Handle(handlers \union {kind})
UnregisterEventHandler(kind) == Handle(handlers \ {kind})
UnregisterAllEventHandlers == Handle({})

-----------------------------------------------------------------------------
\* request_feedback: refused in the main thread, else scheduled in the loop.
RequestFeedback(r) ==
  /\ state[r] = "new"
  /\ \/ Caller[r] = "main" /\ GoTo(r, "raised")
     \/ Caller[r] = "pool" /\ GoTo(r, "scheduled")
  /\ UNCHANGED <<handlers, given, future, fired, ready, offered, complaints, modern>>

Starts(r) == state[r] = "scheduled" \/ (state[r] = "new" /\ Caller[r] = "async")

\* request_feedback_async: the typed handler is called, then the default one; of
\* what they send at once the first is kept.  A future that is already set is
\* returned without a turn of the loop, but by an old wait_for with a timeout.
RequestFeedbackAsync(r) ==
  /\ Starts(r)
  /\ \E reply \in [handlers -> Values \union {NoValue}] :
       LET sent == {reply[k] : k \in handlers} \ {NoValue}
           first == IF sent = {} THEN NoValue
                    ELSE IF "typed" \in handlers /\ reply["typed"] # NoValue
                         THEN reply["typed"] ELSE reply["default"]
       IN  /\ future' = [future EXCEPT ![r] = first]
           /\ offered' = [offered EXCEPT ![r] = @ \union sent]
           /\ GoTo(r, IF first # NoValue /\ (modern \/ r \notin Limited)
                      THEN "returned" ELSE "waiting")
  /\ given' = IF handlers = {} THEN given ELSE given \union {r}
  /\ UNCHANGED <<handlers, fired, ready, complaints, modern>>

\* A handler raises (one that takes no sender raises a TypeError).
HandlerRaises(r) ==
  /\ Starts(r) /\ handlers # {}
  /\ GoTo(r, "raised") /\ given' = given \union {r}
  /\ UNCHANGED <<handlers, future, fired, ready, offered, complaints, modern>>

-----------------------------------------------------------------------------
Sends(r, v) ==
  /\ r \in given /\ v \notin offered[r]
  /\ offered' = [offered EXCEPT ![r] = @ \union {v}]

\* Mutant: the newest feedback replaces the one that was not fetched yet.
SendReplaces(r, v) ==
  /\ Sends(r, v)
  /\ future' = [future EXCEPT ![r] = IF @ = "cancelled" THEN @ ELSE v]
  /\ UNCHANGED <<handlers, state, given, fired, ready, complaints, modern>>

\* In the loop: a second or a late feedback is dropped with a warning.
SendInLoop(r, v) ==
  /\ Sends(r, v)
  /\ future' = [future EXCEPT ![r] = IF @ = NoValue THEN v ELSE @]
  /\ UNCHANGED <<handlers, state, given, fired, ready, complaints, modern>>

\* From another thread the future is only set when the loop gets round to it ...
SendFromThread(r, v) ==
  /\ Sends(r, v)
  /\ ready' = Append(ready, <<r, v>>)
  /\ UNCHANGED <<handlers, state, given, future, fired, complaints, modern>>

\* Mutant: the callback answers the request that waits, whichever it was sent for.
DeliverToAnyone ==
  /\ ready # <<>> /\ ready' = Tail(ready)
  /\ \E r \in Requests :
       /\ future' = [future EXCEPT ![r] = IF @ = NoValue THEN Head(ready)[2] ELSE @]
  /\ UNCHANGED <<handlers, state, given, fired, offered, complaints, modern>>

\* ... where the except clause of send does not catch the refusal any more.
Deliver ==
  /\ ready # <<>> /\ ready' = Tail(ready)
  /\ LET r == Head(ready)[1]
     IN  IF future[r] = NoValue
         THEN future' = [future EXCEPT ![r] = Head(ready)[2]] /\ UNCHANGED complaints
         ELSE complaints' = complaints \union {Head(ready)} /\ UNCHANGED future
  /\ UNCHANGED <<handlers, state, given, fired, offered, modern>>

-----------------------------------------------------------------------------
\* Mutant: requests of the pool have no timer.
TimerFiresInLoop(r) ==
  /\ r \in Limited \ fired /\ state[r] = "waiting" /\ Caller[r] = "async"
  /\ fired' = fired \union {r}
  /\ future' = [future EXCEPT ![r] = IF modern /\ @ = NoValue THEN "cancelled" ELSE @]
  /\ UNCHANGED <<handlers, state, given, ready, offered, complaints, modern>>

\* wait_for: since 3.12 the timer cancels the future, before that it wakes the
\* coroutine, and the future may still be set until that runs.
TimerFires(r) ==
  /\ r \in Limited \ fired /\ state[r] = "waiting"
  /\ fired' = fired \union {r}
  /\ future' = [future EXCEPT ![r] = IF modern /\ @ = NoValue THEN "cancelled" ELSE @]
  /\ UNCHANGED <<handlers, state, given, ready, offered, complaints, modern>>

\* Mutant: once the timer has fired the answer is not looked at.
ResumeStrict(r) ==
  /\ state[r] = "waiting" /\ (future[r] # NoValue \/ r \in fired)
  /\ GoTo(r, IF r \in fired THEN "expired" ELSE "returned")
  /\ future' = [future EXCEPT ![r] = IF @ = NoValue THEN "cancelled" ELSE @]
  /\ UNCHANGED <<handlers, given, fired, ready, offered, complaints, modern>>

\* The coroutine goes on.  Before 3.12 it looks whether the future was set in
\* the meantime; since then the cancellation comes first.
Resume(r) ==
  /\ state[r] = "waiting" /\ (future[r] # NoValue \/ r \in fired)
  /\ GoTo(r, IF future[r] \in Values /\ ~ (modern /\ r \in fired) THEN "returned" ELSE "expired")
  /\ future' = [future EXCEPT ![r] = IF @ = NoValue THEN "cancelled" ELSE @]
  /\ UNCHANGED <<handlers, given, fired, ready, offered, complaints, modern>>

Application ==
  \/ \E kind \in HandlerKinds : RegisterEventHandler(kind) \/ UnregisterEventHandler(kind)
  \/ UnregisterAllEventHandlers
  \/ \E r \in Requests, v \in Values : SendInLoop(r, v) \/ SendFromThread(r, v)
  \/ \E r \in Requests : RequestFeedback(r)

Progress(r) == RequestFeedbackAsync(r) \/ HandlerRaises(r) \/ TimerFires(r) \/ Resume(r)

Next == Application \/ Deliver \/ \E r \in Requests : Progress(r)

Spec == Init /\ [][Next]_vars

\* The loop runs its callbacks, its timers go off and its coroutines go on;
\* nothing is promised of the application.
FairSpec == Spec /\ WF_vars(Deliver) /\ \A r \in Requests : WF_vars(Progress(r))

-----------------------------------------------------------------------------
\* A request ends once, with a feedback sent for it, a timeout or an error.
Outcome == [r \in Requests |-> IF state[r] \in {"new", "scheduled", "waiting"} THEN "open"
                               ELSE IF state[r] = "returned" THEN future[r] ELSE state[r]]

Promise == INSTANCE OneAnswer WITH outcome <- Outcome
KeepsPromise == Promise!Spec

\* Nothing is set or on its way that was not sent for its request, and a sender is
\* out only once its request has started.
OnlyWhatWasSent ==
  /\ \A r \in Requests : future[r] \in Values => future[r] \in offered[r]
  /\ \A n \in DOMAIN ready : ready[n][1] \in given /\ ready[n][2] \in offered[ready[n][1]]
  /\ \A r \in Requests : state[r] \in {"new", "scheduled"} => r \notin given /\ future[r] = NoValue

\* How a request ended fits its future and its timer.
EndsFit ==
  /\ \A r \in Requests : state[r] = "returned" => future[r] \in Values
  /\ \A r \in Requests : state[r] = "expired" => r \in Limited /\ future[r] # NoValue
  /\ \A r \in Requests : state[r] = "waiting" /\ future[r] = "cancelled" => r \in fired

\* Whatever is sent after it, the first feedback that reaches the future stays.
FirstKept == [][\A r \in Requests : future[r] # NoValue => future'[r] = future[r]]_vars

\* "TimeoutError: If the feedback is not received before the timeout"
\* (_automa.py:442-443).
TimeoutMeansSilence == \A r \in Requests : state[r] = "expired" => future[r] \notin Values

\* ... is true before Python 3.12.
SilenceBefore312 == ~ modern => TimeoutMeansSilence

\* The inductive invariant.
IInv == TypeOK /\ OnlyWhatWasSent /\ EndsFit /\ SilenceBefore312

\* "Suppress the InvalidStateError to be raised, maybe due to timeout" (_automa.py:376).
LateSendsSuppressed == complaints = {}

\* A request with a timeout ends whatever the application does, and any request
\* ends when a feedback has been sent for it.
RequestsEnd ==
  \A r \in Requests :
    (Starts(r) \/ state[r] = "waiting") /\ (r \in Limited \/ offered[r] # {})
      ~> state[r] \in {"returned", "expired", "raised"}
=============================================================================
