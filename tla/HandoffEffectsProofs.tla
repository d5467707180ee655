------------------------ MODULE HandoffEffectsProofs ------------------------
(***************************************************************************)
(* Proofs about HandoffEffects, for any number of requests, confirmations, *)
(* executions and deaths.                                                  *)
(***************************************************************************)
EXTENDS HandoffEffects, TLAPS

USE HandoffAssumption

-----------------------------------------------------------------------------
(* The invariant.                                                          *)

Calling(r) == req[r].pc = "calling"

\* The reservation has one owner, and outlives it: a hold does not end the call.
OneCaller ==
    /\ \A r, s \in Requests : Calling(r) /\ Calling(s) => r = s
    /\ \A r \in Requests : Calling(r) => receipt.status \in {"pending", "held"}

\* What the receipt knows of the calls: no row, none; failed, all refused, and
\* what landed was misread; otherwise all but the last.
Counted ==
    /\ receipt.status = "none" => calls = 0 /\ refused = 0 /\ landed = misread
    /\ receipt.status = "failed" => calls = refused /\ landed = misread
    /\ receipt.status \in {"pending", "held", "succeeded"} => calls = refused + 1
    /\ landed \in {misread, misread + 1}
    /\ \A r \in Requests : Calling(r) => (req[r].arrived <=> landed = misread + 1)
    /\ receipt.reply # "none" <=> receipt.status = "succeeded"
    /\ receipt.reply = "accepted" => landed = misread + 1

\* A request that settles on a success has read it in the receipt.
Earned(r) ==
    /\ req[r].pc \in {"settle", "advance", "outcome"} /\ req[r].target \in {"submitted", "accepted"}
         => receipt.status = "succeeded" /\ Proven(receipt.reply) = req[r].target
    /\ req[r].pc = "outcome" => req[r].target = "accepted"
Backed ==
    /\ \A r \in Requests : Earned(r)
    /\ handoff \in {"submitted", "accepted"} => receipt.status = "succeeded"
    /\ handoff = "accepted" \/ outcome = "externally_verified" => receipt.reply = "accepted"

\* A confirmation on its way to a call: spent, by nobody else, on nothing yet.
Ready(r) == req[r].pc \in {"record", "reserve", "retry"}
Carries(r) ==
    /\ irreversible => req[r].token \in Tokens
    /\ req[r].token \in Tokens => token[req[r].token] = "spent" /\ req[r].token \notin used
Confirmed ==
    /\ \A t \in used : token[t] = "spent"
    /\ \A r \in Requests : Ready(r) => Carries(r)
    /\ \A r, s \in Requests :
           Ready(r) /\ Ready(s) /\ req[r].token = req[s].token /\ req[r].token \in Tokens => r = s

IInv == TypeOK /\ OneCaller /\ Counted /\ Backed /\ Confirmed

-----------------------------------------------------------------------------
(* The types.                                                              *)

LEMMA InitIInv == Init => IInv
<1> SUFFICES ASSUME Init PROVE IInv
  OBVIOUS
<1>1. Quiet \in Request
  BY DEF Quiet, Request, Lifecycle, Terminal
<1>2. TypeOK
  BY <1>1 DEF Init, TypeOK, Reply, Lifecycle, Terminal, Quiet
<1>3. OneCaller /\ Counted /\ Backed /\ Confirmed
  BY DEF Init, OneCaller, Calling, Counted, Backed, Earned, Confirmed, Ready, Quiet
<1> QED BY <1>2, <1>3 DEF IInv

\* What a step does to the requests: one of them goes on, with the same token and
\* call, or ends.
LEMMA Columns ==
    ASSUME TypeOK, NEW r \in Requests
    PROVE  /\ \A pc : Go(r, pc) =>
                 /\ \A s \in Requests \ {r} : req'[s] = req[s]
                 /\ req'[r].pc = pc /\ req'[r].token = req[r].token
                 /\ req'[r].arrived = req[r].arrived /\ req'[r].target = req[r].target
                 /\ req'[r].seen = req[r].seen
           /\ \A target : Settles(r, target) =>
                 /\ \A s \in Requests \ {r} : req'[s] = req[s]
                 /\ req'[r].pc = "settle" /\ req'[r].token = req[r].token
                 /\ req'[r].arrived = req[r].arrived /\ req'[r].target = target
           /\ \A answer : Ends(r, answer) =>
                 /\ \A s \in Requests \ {r} : req'[s] = req[s]
                 /\ req'[r].pc = "idle"
BY DEF TypeOK, Request, Go, Settles, Ends, Quiet

LEMMA ReqType ==
    ASSUME TypeOK, NEW r \in Requests
    PROVE  /\ \A pc \in {"idle", "record", "reserve", "retry", "calling", "hold", "shared",
                         "settle", "advance", "outcome"} :
                 Go(r, pc) => req' \in [Requests -> Request]
           /\ \A target \in Lifecycle : Settles(r, target) => req' \in [Requests -> Request]
           /\ \A answer \in {"none", "handoff", "in_flight", "error"} :
                 Ends(r, answer) => req' \in [Requests -> Request]
<1>1. Quiet \in Request
  BY DEF Quiet, Request, Lifecycle, Terminal
<1>2. req \in [Requests -> Request]
  BY DEF TypeOK
<1>3. ASSUME NEW pc \in {"idle", "record", "reserve", "retry", "calling", "hold", "shared",
                         "settle", "advance", "outcome"}, Go(r, pc)
      PROVE  req' \in [Requests -> Request]
  BY <1>2, <1>3 DEF Request, Go
<1>4. ASSUME NEW target \in Lifecycle, Settles(r, target)
      PROVE  req' \in [Requests -> Request]
  BY <1>2, <1>4 DEF Request, Settles
<1>5. ASSUME NEW answer \in {"none", "handoff", "in_flight", "error"}, Ends(r, answer)
      PROVE  req' \in [Requests -> Request]
  BY <1>1, <1>2, <1>5 DEF Request, Ends
<1> QED BY <1>3, <1>4, <1>5

LEMMA CallsType ==
    ASSUME TypeOK, NEW r \in Requests, req[r].pc \notin {"idle", "record"}, Calls(r)
    PROVE  TypeOK'
<1> DEFINE q == [req[r] EXCEPT !.pc = "calling", !.arrived = FALSE]
<1>1. req' \in [Requests -> Request]
  <2>1. req' = [req EXCEPT ![r] = q]
    BY DEF TypeOK, Calls
  <2>2. q \in Request
    BY DEF TypeOK, Request
  <2> QED BY <2>1, <2>2 DEF TypeOK
<1>2. \A s \in Requests : s # r => req'[s] = req[s]
  BY DEF TypeOK, Calls
<1> QED BY <1>1, <1>2 DEF TypeOK, Calls, Pending, rows, bounds, Reply

LEMMA StepType == TypeOK /\ [Next]_vars => TypeOK'
<1> SUFFICES ASSUME TypeOK, [Next]_vars PROVE TypeOK'
  OBVIOUS
<1>1. CASE UNCHANGED vars
  BY <1>1 DEF vars, rows, bounds, history, TypeOK
<1>2. CASE Owner
  <2>1. ASSUME NEW t \in Tokens, Prepare(t) \/ Expire(t) PROVE TypeOK'
    BY <2>1 DEF Prepare, Expire, bounds, history, TypeOK
  <2>2. ASSUME NEW to \in Terminal, Downgrade(to) PROVE TypeOK'
    BY <2>2 DEF Downgrade, bounds, history, TypeOK, Lifecycle, Terminal
  <2>3. CASE Attest
    BY <2>3 DEF Attest, Claimed, bounds, history, TypeOK
  <2> QED BY <1>2, <2>1, <2>2, <2>3 DEF Owner
<1>3. CASE Age
  <2>1. receipt' = [receipt EXCEPT !.stale = TRUE] /\ receipt.status = "pending"
    BY <1>3 DEF Age
  <2>2. receipt' \in [status : {"none", "pending", "succeeded", "failed", "held"},
                      stale : BOOLEAN, reply : Reply]
    BY <2>1 DEF TypeOK
  <2>3. receipt'.status = receipt.status
    BY <2>1 DEF TypeOK
  <2> QED BY <1>3, <2>2, <2>3 DEF Age, rows, bounds, history, TypeOK
<1>4. ASSUME NEW r \in Requests, Step(r) PROVE TypeOK'
  <2>1. CASE Start(r)
    <3>1. token' \in [Tokens -> {"none", "fresh", "spent", "expired"}]
      BY <2>1 DEF Start, Spent, TypeOK
    <3>3. req' \in [Requests -> Request]
      <4>1. \A t \in Tokens : [Quiet EXCEPT !.pc = "record", !.token = t] \in Request
        BY DEF Quiet, Request, Lifecycle, Terminal
      <4>2. [Quiet EXCEPT !.pc = "record"] \in Request
        BY DEF Quiet, Request, Lifecycle, Terminal
      <4>3. \E q \in Request : req' = [req EXCEPT ![r] = q]
        BY <2>1, <4>1, <4>2 DEF Start
      <4> QED BY <4>3 DEF TypeOK
    <3>2. req'[r].pc = "record" /\ \A s \in Requests : s # r => req'[s] = req[s]
      BY <2>1 DEF Start, Quiet, TypeOK
    <3>4. starts' \in Nat
      <4>1. starts \in Nat /\ starts' = starts + 1
        BY <2>1 DEF Start, TypeOK
      <4> QED BY <4>1
    <3> QED BY <2>1, <3>1, <3>2, <3>3, <3>4 DEF Start, history, TypeOK
  <2>2. CASE Record(r)
    <3>1. Go(r, "reserve") /\ handoff' # "none" /\ handoff' \in Lifecycle
      BY <2>2 DEF Record, Opened, TypeOK, Lifecycle
    <3> QED BY <2>2, <3>1, ReqType, Columns DEF Record, bounds, history, TypeOK
  <2>3. CASE Reserve(r)
    <3>1. CASE Calls(r)
      BY <2>3, <3>1, CallsType DEF Reserve
    <3>2. CASE ~Calls(r)
      <4>1. UNCHANGED <<rows, receipt, bounds, history>> /\ req[r].pc = "reserve"
        BY <2>3, <3>2 DEF Reserve
      <4>2. \/ \E target \in Lifecycle : Settles(r, target)
            \/ \E pc \in {"retry", "hold", "shared"} : Go(r, pc)
        BY <2>3, <3>2 DEF Reserve, Proven, Lifecycle, Terminal
      <4> QED BY <4>1, <4>2, ReqType, Columns DEF rows, bounds, history, TypeOK
    <3> QED BY <3>1, <3>2
  <2>4. CASE Retry(r)
    <3>1. CASE Calls(r)
      BY <2>4, <3>1, CallsType DEF Retry
    <3>2. CASE ~Calls(r)
      <4>1. UNCHANGED <<rows, receipt, bounds, history>> /\ req[r].pc = "retry"
        BY <2>4, <3>2 DEF Retry
      <4>2. (\E target \in Lifecycle : Settles(r, target)) \/ Go(r, "shared")
        BY <2>4, <3>2 DEF Retry, Proven, Lifecycle, Terminal
      <4> QED BY <4>1, <4>2, ReqType, Columns DEF rows, bounds, history, TypeOK
    <3> QED BY <3>1, <3>2
  <2>5. CASE Arrive(r)
    <3>1. req' \in [Requests -> Request] /\ req'[r].pc = "calling"
      BY <2>5 DEF Arrive, Request, TypeOK
    <3>2. \A s \in Requests : s # r => req'[s] = req[s]
      BY <2>5 DEF Arrive, TypeOK
    <3> QED BY <2>5, <3>1, <3>2 DEF Arrive, rows, bounds, TypeOK
  <2>6. ASSUME NEW reply \in Reply \ {"none"}, Return(r, reply) PROVE TypeOK'
    <3>1. Proven(reply) \in Lifecycle
      BY DEF Proven, Lifecycle
    <3> QED BY <2>6, <3>1, ReqType, Columns DEF Return, rows, bounds, history, TypeOK
  <2>7. CASE Refuse(r)
    <3>1. "rejected" \in Lifecycle
      BY DEF Lifecycle, Terminal
    <3> QED BY <2>7, <3>1, ReqType, Columns DEF Refuse, rows, bounds, TypeOK, Reply
  <2>8. CASE TimeOut(r)
    BY <2>8, ReqType, Columns DEF TimeOut, rows, bounds, history, TypeOK
  <2>9. CASE Hold(r)
    <3>1. Settles(r, "uncertain") \/ Go(r, "shared")
      BY <2>9 DEF Hold
    <3>2. "uncertain" \in Lifecycle
      BY DEF Lifecycle
    <3>3. req' \in [Requests -> Request]
      BY <3>1, <3>2, ReqType
    <3>4. receipt' \in [status : {"none", "pending", "succeeded", "failed", "held"},
                        stale : BOOLEAN, reply : Reply]
      <4>1. receipt' = receipt \/ receipt' = [status |-> "held", stale |-> FALSE, reply |-> "none"]
        BY <2>9 DEF Hold
      <4>2. receipt \in [status : {"none", "pending", "succeeded", "failed", "held"},
                        stale : BOOLEAN, reply : Reply]
        BY DEF TypeOK
      <4>3. [status |-> "held", stale |-> FALSE, reply |-> "none"] \in
                [status : {"none", "pending", "succeeded", "failed", "held"},
                 stale : BOOLEAN, reply : Reply]
        BY DEF Reply
      <4> QED BY <4>1, <4>2, <4>3
    <3>5. handoff # "none" /\ UNCHANGED <<rows, bounds, history>>
      BY <2>9 DEF Hold, TypeOK
    <3> QED BY <3>3, <3>4, <3>5 DEF rows, bounds, history, TypeOK
  <2>10. CASE Share(r)
    BY <2>10, ReqType, Columns DEF Share, rows, bounds, history, TypeOK
  <2>11. CASE Settle(r)
    <3>1. CASE handoff = req[r].target
      <4>1. Go(r, "outcome") \/ Ends(r, "handoff")
        BY <2>11, <3>1 DEF Settle, AfterAdvance
      <4> QED BY <2>11, <4>1, ReqType, Columns DEF Settle, rows, bounds, history, TypeOK
    <3>2. CASE handoff # req[r].target
      <4>1. req' = [req EXCEPT ![r].pc = "advance", ![r].seen = handoff] /\ handoff \in Lifecycle
        BY <2>11, <3>2 DEF Settle, TypeOK
      <4>2. req' \in [Requests -> Request]
        <5> DEFINE q == [req[r] EXCEPT !.pc = "advance", !.seen = handoff]
        <5>1. req' = [req EXCEPT ![r] = q]
          BY <4>1 DEF TypeOK
        <5>2. q \in Request
          BY <4>1 DEF TypeOK, Request
        <5> QED BY <5>1, <5>2 DEF TypeOK
      <4>3. \A s \in Requests : s # r => req'[s] = req[s]
        BY <4>1 DEF TypeOK
      <4> QED BY <2>11, <4>1, <4>2, <4>3 DEF Settle, rows, bounds, history, TypeOK
    <3> QED BY <3>1, <3>2
  <2>12. CASE Advance(r)
    <3>1. Go(r, "outcome") \/ Ends(r, "handoff") \/ Ends(r, "error")
      BY <2>12 DEF Advance, AfterAdvance
    <3>2. handoff' = handoff \/ handoff' = req[r].target
      BY <2>12 DEF Advance
    <3>3. req[r].target \in Lifecycle /\ "none" \notin Lifecycle
      BY DEF TypeOK, Request, Lifecycle, Terminal
    <3> QED BY <2>12, <3>1, <3>2, <3>3, ReqType, Columns DEF Advance, bounds, history, TypeOK
  <2>13. CASE Claim(r)
    BY <2>13, ReqType, Columns DEF Claim, Claimed, bounds, history, TypeOK
  <2>14. CASE Die(r)
    <3>1. req' \in [Requests -> Request]
      BY <2>14 DEF Die, Quiet, Request, Lifecycle, Terminal, TypeOK
    <3>2. req'[r].pc = "idle" /\ \A s \in Requests : s # r => req'[s] = req[s]
      BY <2>14 DEF Die, Quiet, TypeOK
    <3> QED BY <2>14, <3>1, <3>2 DEF Die, rows, history, TypeOK
  <2> QED BY <1>4, <2>1, <2>2, <2>3, <2>4, <2>5, <2>6, <2>7, <2>8, <2>9, <2>10, <2>11, <2>12, <2>13, <2>14
          DEF Step
<1> QED BY <1>1, <1>2, <1>3, <1>4 DEF Next

-----------------------------------------------------------------------------
(* The receipt.                                                            *)

\* What a step may do to the receipt and its history: nothing, a call begun on a
\* receipt without one, a call that arrives, its answer, or an age or a hold of a
\* pending intent.
NoNewCaller ==
    \A s \in Requests : Calling(s)' => Calling(s) /\ req'[s].arrived = req[s].arrived
Still == UNCHANGED <<receipt, calls, refused, landed, misread>> /\ NoNewCaller
Waits ==
    /\ receipt.status = "pending" /\ receipt'.status \in {"pending", "held"}
    /\ receipt'.reply \in {"none", receipt.reply}
    /\ UNCHANGED <<calls, refused, landed, misread>> /\ NoNewCaller
Begins(r) == req[r].pc \in {"reserve", "retry"} /\ receipt.status \in {"none", "failed"} /\ Calls(r)
Answered(r) == (\E reply \in Reply \ {"none"} : Return(r, reply)) \/ Refuse(r)

LEMMA Kinds ==
    ASSUME TypeOK, [Next]_vars
    PROVE  Still \/ Waits \/ \E r \in Requests : Begins(r) \/ Arrive(r) \/ Answered(r)
<1>1. CASE UNCHANGED vars \/ Owner
  <2>1. UNCHANGED <<receipt, req, history>>
    BY <1>1 DEF vars, rows, bounds, Owner, Prepare, Expire, Downgrade, Attest
  <2> QED BY <2>1 DEF history, Still, NoNewCaller, Calling
<1>2. CASE Age
  <2>1. receipt'.status = "pending" /\ receipt'.reply = receipt.reply /\ receipt.status = "pending"
    BY <1>2 DEF Age, TypeOK
  <2> QED BY <1>2, <2>1 DEF Age, history, Waits, NoNewCaller, Calling
<1>3. ASSUME NEW r \in Requests, Step(r)
      PROVE  Still \/ Waits \/ Begins(r) \/ Arrive(r) \/ Answered(r)
  <2> DEFINE Keeps == UNCHANGED <<receipt, history>>
  <2>1. ASSUME Keeps, NEW pc, pc # "calling", Go(r, pc) PROVE Still
    BY <2>1, Columns DEF history, Still, NoNewCaller, Calling
  <2>2. ASSUME Keeps, NEW target, Settles(r, target) PROVE Still
    BY <2>2, Columns DEF history, Still, NoNewCaller, Calling
  <2>3. ASSUME Keeps, NEW answer, Ends(r, answer) PROVE Still
    BY <2>3, Columns DEF history, Still, NoNewCaller, Calling
  <2>4. CASE Start(r) \/ Die(r)
    <3>1. req'[r].pc # "calling" /\ \A s \in Requests : s # r => req'[s] = req[s]
      <4>1. CASE Start(r)
        BY <4>1 DEF Start, Quiet, TypeOK
      <4>2. CASE Die(r)
        BY <4>2 DEF Die, Quiet, TypeOK
      <4> QED BY <2>4, <4>1, <4>2
    <3> QED BY <2>4, <3>1 DEF Start, Die, history, Still, NoNewCaller, Calling
  <2>5. CASE Record(r) \/ TimeOut(r)
    BY <2>1, <2>5 DEF Record, TimeOut
  <2>6. CASE Reserve(r)
    BY <2>1, <2>2, <2>6 DEF Reserve, Begins, Open, Ready
  <2>7. CASE Retry(r)
    BY <2>1, <2>2, <2>7 DEF Retry, Reopenable, Begins, Ready
  <2>8. CASE Hold(r)
    <3>1. CASE receipt.status = "pending"
      <4>1. Settles(r, "uncertain") /\ receipt'.status = "held" /\ receipt'.reply = "none"
        BY <2>8, <3>1 DEF Hold, Holdable
      <4> QED BY <2>8, <3>1, <4>1, Columns DEF Hold, history, Waits, NoNewCaller, Calling
    <3>2. CASE receipt.status # "pending"
      BY <2>1, <2>2, <2>8, <3>2 DEF Hold, Holdable
    <3> QED BY <3>1, <3>2
  <2>9. CASE Share(r) \/ Claim(r)
    BY <2>3, <2>9 DEF Share, Claim
  <2>10. CASE Advance(r)
    BY <2>1, <2>3, <2>10 DEF Advance, AfterAdvance
  <2>11. CASE Settle(r)
    <3>1. CASE handoff = req[r].target
      BY <2>1, <2>3, <2>11, <3>1 DEF Settle, AfterAdvance
    <3>2. CASE handoff # req[r].target
      <4>1. req'[r].pc = "advance" /\ \A s \in Requests : s # r => req'[s] = req[s]
        BY <2>11, <3>2 DEF Settle, TypeOK, Request
      <4> QED BY <2>11, <4>1 DEF Settle, history, Still, NoNewCaller, Calling
    <3> QED BY <3>1, <3>2
  <2> QED BY <1>3, <2>4, <2>5, <2>6, <2>7, <2>8, <2>9, <2>10, <2>11 DEF Step, Answered
<1> QED BY <1>1, <1>2, <1>3 DEF Next

\* What a call and an answer leave behind.
LEMMA CallColumns ==
    ASSUME TypeOK, NEW r \in Requests, Calls(r)
    PROVE  /\ req'[r].pc = "calling" /\ req'[r].arrived = FALSE
           /\ \A s \in Requests : s # r => req'[s] = req[s]
           /\ receipt'.status = "pending" /\ receipt'.reply = "none"
BY DEF TypeOK, Request, Calls, Pending

LEMMA AnswerColumns ==
    ASSUME TypeOK, NEW r \in Requests, Answered(r)
    PROVE  /\ Calling(r) /\ req'[r].pc = "settle"
           /\ \A s \in Requests : s # r => req'[s] = req[s]
BY Columns DEF Answered, Return, Refuse, Calling

LEMMA StepReceipt ==
    ASSUME TypeOK, OneCaller, Counted, [Next]_vars
    PROVE  OneCaller' /\ Counted'
<1>0. /\ {calls, refused, landed, misread} \subseteq Nat
      /\ receipt.status \in {"none", "pending", "succeeded", "failed", "held"}
  BY DEF TypeOK
<1>1. CASE Still
  BY <1>1 DEF Still, NoNewCaller, OneCaller, Counted, Calling
<1>2. CASE Waits
  BY <1>2 DEF Waits, NoNewCaller, OneCaller, Counted, Calling
<1>3. ASSUME NEW r \in Requests, Begins(r) PROVE OneCaller' /\ Counted'
  <2>1. /\ calls' = calls + 1 /\ UNCHANGED <<refused, landed, misread>> /\ landed = misread /\ calls = refused
        /\ \A s \in Requests : ~Calling(s)
    BY <1>3 DEF Begins, Calls, OneCaller, Counted
  <2>2. \A s \in Requests : Calling(s)' => s = r
    BY <1>3, <2>1, CallColumns DEF Begins, Calling
  <2>3. receipt'.status = "pending" /\ receipt'.reply = "none" /\ ~req'[r].arrived
    BY <1>3, CallColumns DEF Begins
  <2>4. OneCaller'
    BY <2>2, <2>3 DEF OneCaller
  <2>5. calls' = refused' + 1 /\ landed' = misread' /\ landed' # misread' + 1
    BY <1>0, <2>1
  <2> QED BY <2>2, <2>3, <2>4, <2>5 DEF Counted
<1>4. ASSUME NEW r \in Requests, Arrive(r) PROVE OneCaller' /\ Counted'
  <2>1. Calling(r) /\ req'[r].pc = "calling" /\ req'[r].arrived /\ \A s \in Requests : s # r => req'[s] = req[s]
    BY <1>4 DEF Arrive, TypeOK, Request, Calling
  <2>2. landed = misread /\ landed' = misread + 1 /\ UNCHANGED <<receipt, calls, refused, misread>>
    BY <1>0, <1>4, <2>1 DEF Arrive, Counted
  <2>3. receipt.status \in {"pending", "held"}
    BY <2>1 DEF OneCaller
  <2> QED BY <2>1, <2>2, <2>3 DEF OneCaller, Counted, Calling
<1>5. ASSUME NEW r \in Requests, Answered(r) PROVE OneCaller' /\ Counted'
  <2>1. \A s \in Requests : ~Calling(s)'
    BY <1>5, AnswerColumns DEF OneCaller, Calling
  <2>2. calls = refused + 1 /\ (req[r].arrived <=> landed = misread + 1) /\ landed \in {misread, misread + 1}
    BY <1>5, AnswerColumns DEF OneCaller, Counted
  <2>3. CASE Refuse(r)
    BY <1>0, <2>1, <2>2, <2>3 DEF Refuse, OneCaller, Counted
  <2>4. ASSUME NEW reply \in Reply \ {"none"}, Return(r, reply) PROVE OneCaller' /\ Counted'
    BY <1>0, <2>1, <2>2, <2>4 DEF Return, OneCaller, Counted, history
  <2> QED BY <1>5, <2>3, <2>4 DEF Answered
<1> QED BY <1>1, <1>2, <1>3, <1>4, <1>5, Kinds

\* A success is kept, and a call is begun only when all before it were refused.
LEMMA StepFinal ==
    ASSUME TypeOK, OneCaller, Counted, [Next]_vars
    PROVE  /\ receipt.status = "succeeded" => receipt' = receipt
           /\ calls' # calls => refused = calls
<1>1. ASSUME NEW r \in Requests, Begins(r)
      PROVE  receipt.status # "succeeded" /\ refused = calls
  BY <1>1 DEF Begins, Counted
<1>2. ASSUME NEW r \in Requests, Arrive(r) PROVE UNCHANGED <<receipt, calls>>
  BY <1>2 DEF Arrive
<1>3. ASSUME NEW r \in Requests, Answered(r) PROVE receipt.status # "succeeded" /\ UNCHANGED calls
  <2>1. receipt.status # "succeeded"
    BY <1>3, AnswerColumns DEF OneCaller
  <2> QED BY <1>3, <2>1 DEF Answered, Return, Refuse, history
<1> QED BY <1>1, <1>2, <1>3, Kinds DEF Still, Waits

-----------------------------------------------------------------------------
(* The lifecycle and the outcome.                                          *)

\* Until a receipt succeeds nobody settles on a success, and the other database
\* claims nothing.
LEMMA NothingEarned ==
    ASSUME Backed, Counted, receipt.status # "succeeded"
    PROVE  /\ handoff \notin {"submitted", "accepted"} /\ outcome # "externally_verified"
           /\ \A r \in Requests : req[r].pc \in {"settle", "advance", "outcome"} =>
                  req[r].target \notin {"submitted", "accepted"}
BY DEF Backed, Earned, Counted

\* Every request keeps what it earned, if the one that goes on does.
LEMMA StaysBacked ==
    ASSUME TypeOK, Backed, UNCHANGED <<handoff, outcome, receipt>>, NEW r \in Requests,
           \A s \in Requests \ {r} : req'[s] = req[s], Earned(r)'
    PROVE  Backed'
BY DEF Backed, Earned

LEMMA StepBacked ==
    ASSUME TypeOK, OneCaller, Counted, Backed, [Next]_vars
    PROVE  Backed'
<1> DEFINE Same == UNCHANGED <<handoff, outcome, receipt>>
<1>1. CASE UNCHANGED vars
  BY <1>1 DEF vars, rows, Backed, Earned
<1>2. CASE Owner
  <2>1. UNCHANGED <<receipt, req>>
    BY <1>2 DEF Owner, Prepare, Expire, Downgrade, Attest
  <2>2. handoff' = handoff \/ handoff' \in Terminal
    BY <1>2 DEF Owner, Prepare, Expire, Downgrade, Attest
  <2>3. outcome' = outcome \/ outcome' = "user_attested"
    BY <1>2 DEF Owner, Prepare, Expire, Downgrade, Attest, Claimed
  <2> QED BY <2>1, <2>2, <2>3 DEF Backed, Earned, Terminal
<1>3. CASE Age
  <2>1. receipt.status # "succeeded" /\ UNCHANGED <<rows, req>>
    BY <1>3 DEF Age
  <2> QED BY <2>1, NothingEarned DEF rows, Backed, Earned, OneCaller
<1>4. ASSUME NEW r \in Requests, Calls(r), receipt.status # "succeeded" PROVE Backed'
  BY <1>4, NothingEarned, CallColumns DEF Calls, rows, Backed, Earned
<1>5. ASSUME NEW r \in Requests, Same, NEW pc, pc \notin {"settle", "advance", "outcome"}, Go(r, pc)
      PROVE  Backed'
  <2>1. Earned(r)'
    BY <1>5, Columns DEF Earned
  <2> QED BY <1>5, <2>1, Columns, StaysBacked
<1>6. ASSUME NEW r \in Requests, Same, Settles(r, Proven(receipt.reply)), receipt.status = "succeeded"
      PROVE  Backed'
  <2>1. Earned(r)'
    BY <1>6, Columns DEF Earned
  <2> QED BY <1>6, <2>1, Columns, StaysBacked
<1>7. ASSUME NEW r \in Requests, Same, Settles(r, "uncertain") PROVE Backed'
  <2>1. Earned(r)'
    BY <1>7, Columns DEF Earned
  <2> QED BY <1>7, <2>1, Columns, StaysBacked
<1>8. ASSUME NEW r \in Requests, Same, NEW answer, Ends(r, answer) PROVE Backed'
  <2>1. Earned(r)'
    BY <1>8, Columns DEF Earned
  <2> QED BY <1>8, <2>1, Columns, StaysBacked
<1>9. ASSUME NEW r \in Requests, Step(r) PROVE Backed'
  <2>1. CASE Start(r) \/ Die(r)
    <3>1. req'[r].pc \in {"idle", "record"} /\ \A s \in Requests : s # r => req'[s] = req[s]
      <4>1. CASE Start(r)
        BY <4>1 DEF Start, Quiet, TypeOK
      <4>2. CASE Die(r)
        BY <4>2 DEF Die, Quiet, TypeOK
      <4> QED BY <2>1, <4>1, <4>2
    <3>2. Same
      BY <2>1 DEF Start, Die, rows
    <3> QED BY <3>1, <3>2, StaysBacked DEF Earned
  <2>2. CASE Record(r)
    <3>1. handoff' = handoff \/ handoff' = "reserved"
      BY <2>2 DEF Record, Opened
    <3>2. req'[r].pc = "reserve" /\ \A s \in Requests : s # r => req'[s] = req[s]
      BY <2>2, Columns DEF Record
    <3>3. UNCHANGED <<outcome, receipt>>
      BY <2>2 DEF Record
    <3> QED BY <3>1, <3>2, <3>3 DEF Backed, Earned
  <2>3. CASE Reserve(r)
    <3>1. CASE Calls(r) /\ receipt.status = "none"
      BY <1>4, <3>1
    <3>2. CASE ~(Calls(r) /\ receipt.status = "none")
      <4>1. Same
        BY <2>3, <3>2 DEF Reserve, Open, rows
      <4>2. \/ Settles(r, "uncertain") \/ (\E pc \in {"retry", "hold", "shared"} : Go(r, pc))
            \/ Settles(r, Proven(receipt.reply)) /\ receipt.status = "succeeded"
        BY <2>3, <3>2 DEF Reserve, Open
      <4>3. ASSUME NEW pc \in {"retry", "hold", "shared"}, Go(r, pc) PROVE Backed'
        BY <4>1, <4>3, <1>5
      <4>4. CASE Settles(r, "uncertain")
        BY <4>1, <4>4, <1>7
      <4>5. CASE Settles(r, Proven(receipt.reply)) /\ receipt.status = "succeeded"
        BY <4>1, <4>5, <1>6
      <4> QED BY <4>2, <4>3, <4>4, <4>5
    <3> QED BY <3>1, <3>2
  <2>4. CASE Retry(r)
    BY <2>4, <1>4, <1>5, <1>6 DEF Retry, Reopenable, rows
  <2>5. CASE Arrive(r)
    <3>1. req'[r].pc = "calling" /\ \A s \in Requests : s # r => req'[s] = req[s]
      BY <2>5 DEF Arrive, TypeOK, Request
    <3> QED BY <2>5, <3>1, StaysBacked DEF Arrive, rows, Earned
  <2>6. ASSUME NEW reply \in Reply \ {"none"}, Return(r, reply) PROVE Backed'
    <3>1. receipt.status # "succeeded"
      BY <2>6 DEF Return, OneCaller, Calling
    <3>2. /\ req'[r].pc = "settle" /\ req'[r].target = Proven(reply)
          /\ \A s \in Requests : s # r => req'[s] = req[s]
      BY <2>6, Columns DEF Return
    <3>3. receipt'.status = "succeeded" /\ receipt'.reply = reply /\ UNCHANGED <<handoff, outcome>>
      BY <2>6 DEF Return, rows
    <3> QED BY <3>1, <3>2, <3>3, NothingEarned DEF Backed, Earned
  <2>7. CASE Refuse(r)
    <3>1. receipt.status # "succeeded"
      BY <2>7 DEF Refuse, OneCaller, Calling
    <3>2. /\ req'[r].pc = "settle" /\ req'[r].target = "rejected"
          /\ \A s \in Requests : s # r => req'[s] = req[s]
      BY <2>7, Columns DEF Refuse
    <3>3. UNCHANGED <<handoff, outcome>>
      BY <2>7 DEF Refuse, rows
    <3> QED BY <3>1, <3>2, <3>3, NothingEarned DEF Backed, Earned
  <2>8. CASE TimeOut(r)
    BY <2>8, <1>5 DEF TimeOut, rows
  <2>9. CASE Hold(r)
    <3>1. CASE receipt.status = "pending"
      <4>1. Settles(r, "uncertain") /\ UNCHANGED <<handoff, outcome>>
        BY <2>9, <3>1 DEF Hold, Holdable, rows
      <4>2. req'[r].target = "uncertain" /\ req'[r].pc = "settle" /\ \A s \in Requests : s # r => req'[s] = req[s]
        BY <4>1, Columns
      <4> QED BY <3>1, <4>1, <4>2, NothingEarned DEF Backed, Earned
    <3>2. CASE receipt.status # "pending"
      <4>1. Same /\ (Settles(r, "uncertain") \/ Go(r, "shared"))
        BY <2>9, <3>2 DEF Hold, Holdable, rows
      <4>2. CASE Settles(r, "uncertain")
        BY <4>1, <4>2, <1>7
      <4>3. CASE Go(r, "shared")
        BY <4>1, <4>3, <1>5
      <4> QED BY <4>1, <4>2, <4>3
    <3> QED BY <3>1, <3>2
  <2>10. CASE Share(r)
    BY <2>10, <1>8 DEF Share, rows
  <2>11. CASE Settle(r)
    <3>1. Same
      BY <2>11 DEF Settle, rows
    <3>2. CASE handoff = req[r].target /\ Go(r, "outcome") /\ req[r].target = "accepted"
      <4>1. Earned(r)'
        BY <2>11, <3>1, <3>2, Columns DEF Settle, Backed, Earned
      <4> QED BY <3>1, <3>2, <4>1, Columns, StaysBacked
    <3>3. CASE Ends(r, "handoff")
      BY <3>1, <3>3, <1>8
    <3>4. CASE req' = [req EXCEPT ![r].pc = "advance", ![r].seen = handoff]
      <4>1. /\ req'[r].pc = "advance" /\ req'[r].target = req[r].target
            /\ \A s \in Requests : s # r => req'[s] = req[s]
        BY <3>4 DEF TypeOK, Request
      <4>2. Earned(r)'
        BY <2>11, <3>1, <4>1 DEF Settle, Backed, Earned
      <4> QED BY <3>1, <4>1, <4>2, StaysBacked
    <3> QED BY <2>11, <3>2, <3>3, <3>4 DEF Settle, AfterAdvance
  <2>12. CASE Advance(r)
    <3>1. req[r].pc = "advance" /\ UNCHANGED <<outcome, receipt>>
      BY <2>12 DEF Advance
    <3>2. handoff' = handoff \/ handoff' = req[r].target
      BY <2>12 DEF Advance
    <3>3. \/ req'[r].pc = "idle"
          \/ req'[r].pc = "outcome" /\ req[r].target = "accepted" /\ req'[r].target = "accepted"
      BY <2>12, Columns DEF Advance, AfterAdvance
    <3>4. \A s \in Requests : s # r => req'[s] = req[s]
      BY <2>12, Columns DEF Advance, AfterAdvance
    <3>5. Proven(receipt.reply) = "accepted" => receipt.reply = "accepted"
      BY DEF Proven
    <3> QED BY <3>1, <3>2, <3>3, <3>4, <3>5 DEF Backed, Earned
  <2>13. CASE Claim(r)
    <3>1. req[r].pc = "outcome" /\ UNCHANGED <<handoff, receipt>>
      BY <2>13 DEF Claim
    <3>2. req'[r].pc = "idle" /\ \A s \in Requests : s # r => req'[s] = req[s]
      BY <2>13, Columns DEF Claim
    <3>3. receipt.reply = "accepted"
      BY <3>1 DEF Backed, Earned, Proven
    <3> QED BY <3>1, <3>2, <3>3 DEF Backed, Earned
  <2> QED BY <1>9, <2>1, <2>2, <2>3, <2>4, <2>5, <2>6, <2>7, <2>8, <2>9, <2>10, <2>11, <2>12, <2>13 DEF Step
<1> QED BY <1>1, <1>2, <1>3, <1>9 DEF Next

-----------------------------------------------------------------------------
(* The confirmations.                                                      *)

\* A request in line for the call was so before, with the same confirmation, and
\* a confirmation that was spent still is.
LEMMA StaysConfirmed ==
    ASSUME TypeOK, Confirmed, UNCHANGED <<irreversible, used>>,
           \A t \in Tokens : token[t] = "spent" => token'[t] = "spent",
           \A s \in Requests : Ready(s)' => Ready(s) /\ req'[s].token = req[s].token
    PROVE  Confirmed'
<1>1. used \subseteq Tokens
  BY DEF TypeOK
<1> QED BY <1>1 DEF Confirmed, Carries

LEMMA StepConfirmed ==
    ASSUME TypeOK, Confirmed, [Next]_vars
    PROVE  Confirmed'
<1>1. CASE UNCHANGED vars \/ Age
  BY <1>1, StaysConfirmed DEF vars, rows, bounds, history, Age, Ready
<1>2. CASE Owner
  <2>1. UNCHANGED <<irreversible, used, req>>
    BY <1>2 DEF Owner, Prepare, Expire, Downgrade, Attest, bounds, history
  <2>2. \A t \in Tokens : token[t] = "spent" => token'[t] = "spent"
    BY <1>2 DEF Owner, Prepare, Expire, Downgrade, Attest, TypeOK
  <2> QED BY <2>1, <2>2, StaysConfirmed DEF Ready
<1>3. ASSUME NEW r \in Requests, Step(r), ~Start(r), ~Calls(r) PROVE Confirmed'
  <2>1. UNCHANGED <<irreversible, used, token>>
    BY <1>3 DEF Step, Record, Reserve, Retry, Arrive, Return, Refuse, TimeOut, Hold, Share,
                Settle, Advance, Claim, Die, rows, bounds, history
  <2>2. \A s \in Requests : s # r => req'[s] = req[s]
    BY <1>3, Columns DEF Step, Record, Reserve, Retry, Arrive, Return, Refuse, TimeOut, Hold, Share,
                Settle, AfterAdvance, Advance, Claim, Die, TypeOK
  <2>3. Ready(r)' => Ready(r) /\ req'[r].token = req[r].token
    <3>1. CASE Record(r) \/ Reserve(r) \/ Retry(r) \/ TimeOut(r)
      BY <1>3, <3>1, Columns DEF Record, Reserve, Retry, TimeOut, Ready
    <3>2. CASE Answered(r)
      BY <3>2, AnswerColumns DEF Ready
    <3>3. CASE Hold(r) \/ Share(r) \/ Advance(r) \/ Claim(r)
      BY <3>3, Columns DEF Hold, Share, Advance, AfterAdvance, Claim, Ready
    <3>4. CASE Settle(r)
      <4>1. CASE handoff = req[r].target
        BY <3>4, <4>1, Columns DEF Settle, AfterAdvance, Ready
      <4>2. CASE handoff # req[r].target
        <5>1. req'[r].pc = "advance"
          BY <3>4, <4>2 DEF Settle, TypeOK, Request
        <5> QED BY <5>1 DEF Ready
      <4> QED BY <4>1, <4>2
    <3>5. CASE Arrive(r)
      <4>1. req'[r].pc = "calling"
        BY <3>5 DEF Arrive, TypeOK, Request
      <4> QED BY <4>1 DEF Ready
    <3>6. CASE Die(r)
      <4>1. req'[r].pc = "idle"
        BY <3>6 DEF Die, Quiet, TypeOK
      <4> QED BY <4>1 DEF Ready
    <3> QED BY <1>3, <3>1, <3>2, <3>3, <3>4, <3>5, <3>6 DEF Step, Answered
  <2> QED BY <2>1, <2>2, <2>3, StaysConfirmed DEF Ready
<1>4. ASSUME NEW r \in Requests, Start(r) PROVE Confirmed'
  <2>1. UNCHANGED <<irreversible, used>> /\ used \subseteq Tokens
    BY <1>4 DEF Start, history, TypeOK
  <2>2. \A s \in Requests : s # r => req'[s] = req[s]
    BY <1>4 DEF Start, TypeOK
  <2>3. CASE irreversible
    <3>1. PICK t \in Tokens :
            /\ token[t] = "fresh" /\ token' = Spent(t)
            /\ req' = [req EXCEPT ![r] = [Quiet EXCEPT !.pc = "record", !.token = t]]
      BY <1>4, <2>3 DEF Start
    <3>2. token'[t] = "spent" /\ \A u \in Tokens : token[u] = "spent" => token'[u] = "spent" /\ u # t
      BY <3>1 DEF Spent, TypeOK
    <3>3. req'[r].token = t
      BY <3>1 DEF Quiet, TypeOK
    <3>4. t \notin used
      BY <3>1 DEF Confirmed
    <3>5. Carries(r)'
      BY <2>1, <3>2, <3>3, <3>4 DEF Carries
    <3>6. ASSUME NEW s \in Requests, s # r, Ready(s)'
          PROVE  Carries(s)' /\ req'[s].token # t
      <4>1. req'[s] = req[s] /\ Ready(s) /\ Carries(s)
        BY <2>2, <3>6 DEF Ready, Confirmed
      <4> QED BY <2>1, <3>2, <4>1 DEF Carries
    <3>7. \A u \in used' : token'[u] = "spent"
      BY <2>1, <3>2 DEF Confirmed
    <3>8. ASSUME NEW s \in Requests, NEW v \in Requests, Ready(s)', Ready(v)',
                 req'[s].token = req'[v].token, req'[s].token \in Tokens
          PROVE  s = v
      <4>1. CASE s # r /\ v # r
        BY <2>2, <3>8, <4>1 DEF Ready, Confirmed
      <4> QED BY <3>3, <3>6, <3>8, <4>1
    <3> QED BY <3>5, <3>6, <3>7, <3>8 DEF Confirmed
  <2>4. CASE ~irreversible
    <3>1. UNCHANGED token
      BY <1>4, <2>4 DEF Start
    <3>2. req'[r].token = NoToken
      BY <1>4, <2>4 DEF Start, Quiet, TypeOK
    <3>3. Carries(r)' /\ req'[r].token \notin Tokens
      BY <2>1, <2>4, <3>2 DEF Carries
    <3> QED BY <2>1, <2>2, <3>1, <3>3 DEF Confirmed, Carries, Ready
  <2> QED BY <2>3, <2>4
<1>5. ASSUME NEW r \in Requests, Ready(r), Calls(r) PROVE Confirmed'
  <2>1. /\ UNCHANGED <<irreversible, token>> /\ used' = used \cup ({req[r].token} \cap Tokens)
        /\ \A s \in Requests : s # r => req'[s] = req[s]
    BY <1>5, CallColumns DEF Calls, rows, bounds
  <2>2. ~Ready(r)'
    BY <1>5, CallColumns DEF Ready
  <2>3. \A t \in used' : token[t] = "spent"
    BY <1>5, <2>1 DEF Confirmed, Carries
  <2>4. ASSUME NEW s \in Requests, Ready(s)' PROVE Carries(s)'
    <3>1. s # r /\ req'[s] = req[s] /\ Ready(s) /\ Carries(s)
      BY <2>1, <2>2, <2>4 DEF Ready, Confirmed
    <3>2. req[s].token \in Tokens => req[s].token # req[r].token
      BY <1>5, <3>1 DEF Confirmed
    <3> QED BY <2>1, <3>1, <3>2 DEF Carries
  <2>5. \A s, v \in Requests :
          Ready(s)' /\ Ready(v)' /\ req'[s].token = req'[v].token /\ req'[s].token \in Tokens => s = v
    BY <2>1, <2>2 DEF Ready, Confirmed
  <2> QED BY <2>1, <2>3, <2>4, <2>5 DEF Confirmed
<1>6. ASSUME NEW r \in Requests, Step(r), Calls(r), ~Start(r) PROVE Ready(r)
  <2>1. calls' # calls
    BY <1>6 DEF Calls, TypeOK
  <2> QED BY <1>6, <2>1 DEF Step, Record, Reserve, Retry, Arrive, Return, Refuse, TimeOut, Hold, Share,
                Settle, Advance, Claim, Die, history, Ready
<1> QED BY <1>1, <1>2, <1>3, <1>4, <1>5, <1>6 DEF Next

-----------------------------------------------------------------------------
(* The theorems.                                                           *)

LEMMA StepIInv == IInv /\ [Next]_vars => IInv'
BY StepType, StepReceipt, StepBacked, StepConfirmed DEF IInv

\* Rows, receipt and requests have their types, and nothing is journalled or
\* called for a handoff that has no lifecycle row.
THEOREM TypeCorrect == Spec => []TypeOK
<1>1. IInv => TypeOK
  BY DEF IInv
<1> QED BY <1>1, InitIInv, StepIInv, PTL DEF Spec

\* For any number of requests, repetitions, time-outs, deaths and failing calls, the
\* effect reaches the outside world once, and once more for each call that raised
\* after it had landed.
THEOREM EffectOnceHolds == Spec => []EffectOnce
<1>1. IInv => EffectOnce
  BY DEF IInv, TypeOK, Counted, EffectOnce
<1> QED BY <1>1, InitIInv, StepIInv, PTL DEF Spec

\* The lifecycle row and the outcome claim never say more than the receipt proves.
THEOREM ClaimsAreBackedHolds == Spec => []ClaimsAreBacked
<1>1. IInv => ClaimsAreBacked
  BY DEF IInv, TypeOK, Backed, Counted, ClaimsAreBacked
<1> QED BY <1>1, InitIInv, StepIInv, PTL DEF Spec

\* The adapter is called again only after every call before was recorded as refused.
THEOREM CalledAgainHolds == Spec => CalledAgainOnlyAfterRefusal
<1>1. IInv /\ [Next]_vars => [calls' # calls => refused = calls]_vars
  BY StepFinal DEF IInv
<1> QED BY <1>1, InitIInv, StepIInv, PTL DEF Spec, CalledAgainOnlyAfterRefusal

\* No late hold and no late refusal overwrites a succeeded receipt.
THEOREM SuccessIsFinalHolds == Spec => SuccessIsFinal
<1>1. IInv /\ [Next]_vars => [receipt.status = "succeeded" => receipt' = receipt]_vars
  BY StepFinal DEF IInv
<1> QED BY <1>1, InitIInv, StepIInv, PTL DEF Spec, SuccessIsFinal

\* A terminal handoff has no legal transition, and a row is swapped only in the
\* state it was read in.
LEMMA StepTerminal ==
    ASSUME TypeOK, [Next]_vars, handoff \in Terminal
    PROVE  handoff' = handoff
<1>1. Legal(handoff) = {} /\ handoff # "none"
  BY DEF Legal, Terminal
<1>2. CASE UNCHANGED vars \/ Age
  BY <1>2 DEF vars, rows, Age
<1>3. CASE Owner
  BY <1>1, <1>3 DEF Owner, Prepare, Expire, Downgrade, Attest
<1>4. ASSUME NEW r \in Requests, Step(r) PROVE handoff' = handoff
  <2>1. CASE Advance(r)
    BY <1>1, <2>1 DEF Advance, Swaps
  <2>2. CASE Record(r)
    BY <1>1, <2>2 DEF Record, Opened
  <2> QED BY <1>4, <2>1, <2>2 DEF Step, Start, Reserve, Retry, Calls, Arrive, Return, Refuse,
                TimeOut, Hold, Share, Settle, Claim, Die, rows
<1> QED BY <1>2, <1>3, <1>4 DEF Next

\* What the owner ended stays ended.
THEOREM TerminalStaysHolds == Spec => TerminalStays
<1>1. TypeOK /\ [Next]_vars => [(handoff \in Terminal) => handoff' = handoff]_vars
  BY StepTerminal
<1> QED BY <1>1, TypeCorrect, PTL DEF Spec, TerminalStays

\* The first outcome claim stays, whoever settles or attests after it.
THEOREM OutcomeStaysHolds == Spec => OutcomeStays
<1>1. [Next]_vars => [outcome # "none" => outcome' = outcome]_vars
  <2> SUFFICES ASSUME [Next]_vars, outcome # "none" PROVE outcome' = outcome
    OBVIOUS
  <2>1. CASE UNCHANGED vars \/ Age \/ Owner
    BY <2>1 DEF vars, rows, Age, Owner, Prepare, Expire, Downgrade, Attest, Claimed
  <2>2. ASSUME NEW r \in Requests, Step(r) PROVE outcome' = outcome
    BY <2>2 DEF Step, Start, Record, Reserve, Retry, Calls, Arrive, Return, Refuse, TimeOut, Hold,
                Share, Settle, Advance, Claim, Claimed, Die, rows
  <2> QED BY <2>1, <2>2 DEF Next
<1> QED BY <1>1, PTL DEF Spec, OutcomeStays

\* Every call of an irreversible effect has a confirmation of its own.
THEOREM ConfirmedAnewHolds == Spec => ConfirmedAnew
<1> DEFINE Anew ==
      calls' # calls /\ irreversible =>
          \E t \in Tokens : token[t] = "spent" /\ t \notin used /\ used' = used \cup {t}
<1>1. IInv /\ [Next]_vars => Anew
  <2> SUFFICES ASSUME IInv, [Next]_vars, calls' # calls, irreversible
               PROVE  \E t \in Tokens : token[t] = "spent" /\ t \notin used /\ used' = used \cup {t}
    OBVIOUS
  <2>1. PICK r \in Requests : Begins(r)
    BY Kinds DEF IInv, Still, Waits, Arrive, Answered, Return, Refuse, history
  <2>2. Carries(r) /\ used' = used \cup ({req[r].token} \cap Tokens)
    BY <2>1 DEF Begins, Ready, Calls, IInv, Confirmed
  <2>3. req[r].token \in Tokens
    BY <2>2 DEF Carries
  <2> QED BY <2>2, <2>3 DEF Carries
<1>2. IInv /\ [Next]_vars => [Anew]_vars
  BY <1>1
<1> QED BY <1>2, InitIInv, StepIInv, PTL DEF Spec, ConfirmedAnew

-----------------------------------------------------------------------------
(* The effect ledger.                                                      *)

\* What the ledger sees of the receipt.
Effect == CASE receipt.status = "none" -> "none"
            [] receipt.status \in {"pending", "held"} -> "called"
            [] receipt.status = "failed" -> "refused"
            [] receipt.status = "succeeded" -> receipt.reply
Seen == <<Effect, calls, landed, misread, handoff, outcome>>

LEMMA EffectIs ==
    /\ receipt.status = "none" => Effect = "none"
    /\ receipt.status \in {"pending", "held"} => Effect = "called"
    /\ receipt.status = "failed" => Effect = "refused"
    /\ receipt.status = "succeeded" => Effect = receipt.reply
BY DEF Effect

LEMMA EffectIsNext ==
    /\ receipt'.status = "none" => Effect' = "none"
    /\ receipt'.status \in {"pending", "held"} => Effect' = "called"
    /\ receipt'.status = "failed" => Effect' = "refused"
    /\ receipt'.status = "succeeded" => Effect' = receipt'.reply
BY DEF Effect

LEMMA EffectStays == UNCHANGED receipt => UNCHANGED Effect
BY DEF Effect

\* A step that shows the owner something new leaves the receipt and the calls, and
\* shows what a succeeded receipt proves.
Shows == UNCHANGED <<receipt, calls, landed, misread>> /\ UNCHANGED outcome
ShowsState(state) ==
    /\ Shows /\ handoff' = state /\ handoff \notin Terminal
    /\ handoff = "none" <=> state = "reserved"
    /\ state = "submitted" => Effect \in {"submitted", "rejected"}
    /\ state = "accepted" => Effect = "accepted"
ClaimsLevel(level) ==
    /\ UNCHANGED <<receipt, calls, landed, misread>> /\ UNCHANGED handoff
    /\ outcome = "none" /\ outcome' = level
    /\ level = "externally_verified" => Effect = "accepted"
Levels == {"user_attested", "externally_verified"}

LEMMA AdvanceShows ==
    ASSUME IInv, NEW r \in Requests, Advance(r), handoff' # handoff
    PROVE  \E state \in Lifecycle : ShowsState(state)
<1>1. PICK state \in Lifecycle : state = req[r].target
  BY DEF IInv, TypeOK, Request
<1>2. /\ handoff' = state /\ state \in Legal(handoff)
      /\ UNCHANGED <<receipt, calls, landed, misread>> /\ UNCHANGED outcome
  BY <1>1 DEF Advance, Swaps, history
<1>3. handoff \notin Terminal /\ handoff # "none" /\ state # "reserved"
  BY <1>2 DEF Legal, Terminal
<1>4. ASSUME state \in {"submitted", "accepted"}
      PROVE  Effect = receipt.reply /\ Proven(receipt.reply) = state
  BY <1>1, <1>4, EffectIs DEF Advance, IInv, Backed, Earned
<1>5. receipt.reply \in Reply /\ (receipt.status = "succeeded" => receipt.reply # "none")
  BY DEF IInv, TypeOK, Counted
<1>6. state = "submitted" => Effect \in {"submitted", "rejected"}
  <2> SUFFICES ASSUME state = "submitted" PROVE Effect \in {"submitted", "rejected"}
    OBVIOUS
  <2>1. receipt.status = "succeeded"
    BY <1>1 DEF Advance, IInv, Backed, Earned
  <2> QED BY <1>4, <1>5, <2>1 DEF Proven, Reply
<1>7. state = "accepted" => Effect = "accepted"
  BY <1>4 DEF Proven
<1> QED BY <1>2, <1>3, <1>6, <1>7 DEF ShowsState, Shows

LEMMA ShownSteps ==
    ASSUME IInv, [Next]_vars, ~UNCHANGED <<handoff, outcome>>
    PROVE  (\E state \in Lifecycle : ShowsState(state)) \/ \E level \in Levels : ClaimsLevel(level)
<1>1. CASE UNCHANGED vars \/ Age
  BY <1>1 DEF vars, rows, Age
<1>2. CASE Owner
  <2>1. ASSUME NEW to \in Terminal, Downgrade(to) PROVE ShowsState(to)
    BY <2>1 DEF Downgrade, Legal, Terminal, history, ShowsState, Shows
  <2>2. CASE Attest
    BY <1>2, <2>2 DEF Attest, Claimed, history, ClaimsLevel, Levels
  <2>3. ASSUME NEW t \in Tokens, Prepare(t) \/ Expire(t) PROVE FALSE
    BY <2>3 DEF Prepare, Expire
  <2> QED BY <1>2, <2>1, <2>2, <2>3 DEF Owner, Lifecycle
<1>3. ASSUME NEW r \in Requests, Step(r)
      PROVE  (\E state \in Lifecycle : ShowsState(state)) \/ \E level \in Levels : ClaimsLevel(level)
  <2>1. CASE Record(r)
    <3>1. handoff = "none" /\ handoff' = "reserved" /\ UNCHANGED <<outcome, receipt, calls, landed, misread>>
      BY <2>1 DEF Record, Opened, history
    <3>2. ShowsState("reserved")
      BY <3>1 DEF ShowsState, Shows, Terminal
    <3> QED BY <3>2 DEF Lifecycle
  <2>2. CASE Advance(r)
    BY <2>2, AdvanceShows DEF Advance
  <2>3. CASE Claim(r)
    <3>1. Effect = "accepted"
      <4>1. receipt.status = "succeeded" /\ Proven(receipt.reply) = "accepted"
        BY <2>3 DEF Claim, IInv, Backed, Earned
      <4> QED BY <4>1, EffectIs DEF Proven
    <3>2. ClaimsLevel("externally_verified")
      BY <2>3, <3>1 DEF Claim, Claimed, history, ClaimsLevel
    <3> QED BY <3>2 DEF Levels
  <2>4. CASE Start(r)
    BY <2>4 DEF Start
  <2>7. CASE Die(r)
    BY <2>7 DEF Die, rows
  <2>5. CASE Reserve(r) \/ Retry(r)
    BY <2>5 DEF Reserve, Retry, Calls, rows
  <2>6. CASE Arrive(r) \/ Refuse(r) \/ TimeOut(r) \/ Hold(r) \/ Share(r) \/ Settle(r)
             \/ \E reply \in Reply \ {"none"} : Return(r, reply)
    BY <2>6 DEF Arrive, Refuse, TimeOut, Hold, Share, Settle, Return, rows
  <2> QED BY <1>3, <2>1, <2>2, <2>3, <2>4, <2>5, <2>6, <2>7 DEF Step
<1> QED BY <1>1, <1>2, <1>3 DEF Next

LEMMA ShownLedger ==
    ASSUME IInv, [Next]_vars, ~UNCHANGED <<handoff, outcome>>
    PROVE  Ledger!Next
<1>1. ASSUME NEW state \in Lifecycle, ShowsState(state) PROVE Ledger!Show(state)
  BY <1>1, EffectStays DEF ShowsState, Shows, Ledger!Show, Ledger!Ended, Terminal, Effect
<1>2. ASSUME NEW level \in Levels, ClaimsLevel(level) PROVE Ledger!Claim(level)
  BY <1>2, EffectStays DEF ClaimsLevel, Ledger!Claim, Effect
<1> QED BY <1>1, <1>2, ShownSteps DEF Ledger!Next, Ledger!Ended, Lifecycle, Terminal, Levels

\* The other steps show nothing, and move the effect by a call, its arrival or its
\* answer.
LEMMA EffectLedgerSteps ==
    ASSUME IInv, [Next]_vars, UNCHANGED <<handoff, outcome>>
    PROVE  Ledger!Next \/ UNCHANGED Seen
<1>1. CASE Still
  BY <1>1, EffectStays DEF Still, Seen
<1>2. CASE Waits
  BY <1>2, EffectIs, EffectIsNext DEF Waits, Seen
<1>3. ASSUME NEW r \in Requests, Begins(r) PROVE Ledger!Begin
  <2>1. Effect \in {"none", "refused"}
    BY <1>3, EffectIs DEF Begins
  <2>2. Effect' = "called"
    BY <1>3, CallColumns, EffectIsNext DEF Begins, IInv
  <2>3. handoff # "none" /\ calls' = calls + 1 /\ UNCHANGED <<landed, misread>>
    BY <1>3 DEF Begins, Calls, IInv, TypeOK
  <2> QED BY <2>1, <2>2, <2>3 DEF Ledger!Begin, Effect
<1>4. ASSUME NEW r \in Requests, Arrive(r) PROVE Ledger!Land
  <2>1. Effect = "called" /\ UNCHANGED Effect
    BY <1>4, EffectIs, EffectStays DEF Arrive, IInv, OneCaller, Calling
  <2>2. landed = misread /\ landed' = landed + 1 /\ UNCHANGED <<calls, misread>>
    BY <1>4 DEF Arrive, IInv, Counted, Calling
  <2> QED BY <2>1, <2>2 DEF Ledger!Land, Effect
<1>5. ASSUME NEW r \in Requests, Refuse(r) PROVE Ledger!Refuse
  <2>1. Effect = "called"
    BY <1>5, EffectIs DEF Refuse, IInv, OneCaller, Calling
  <2>2. Effect' = "refused" /\ UNCHANGED <<calls, landed>>
    BY <1>5, EffectIsNext DEF Refuse
  <2>3. misread' = landed
    <3>1. /\ req[r].arrived <=> landed = misread + 1
          /\ landed \in {misread, misread + 1}
      BY <1>5 DEF Refuse, IInv, Counted, Calling
    <3> QED BY <1>5, <3>1 DEF Refuse
  <2> QED BY <2>1, <2>2, <2>3 DEF Ledger!Refuse, Effect
<1>6. ASSUME NEW r \in Requests, NEW reply \in Reply \ {"none"}, Return(r, reply)
      PROVE  reply \in Ledger!Replies /\ Ledger!Learn(reply)
  <2>1. Effect = "called"
    BY <1>6, EffectIs DEF Return, IInv, OneCaller, Calling
  <2>2. Effect' = reply /\ UNCHANGED <<calls, landed, misread>>
    BY <1>6, EffectIsNext DEF Return, history
  <2>3. landed = misread <=> reply = "rejected"
    <3>0. misread \in Nat /\ misread # misread + 1
      BY DEF IInv, TypeOK
    <3>1. req[r].arrived <=> landed = misread + 1
      BY <1>6 DEF Return, IInv, Counted, Calling
    <3>2. req[r].arrived = (reply # "rejected")
      BY <1>6 DEF Return
    <3>3. landed \in {misread, misread + 1}
      BY DEF IInv, Counted
    <3>4. CASE reply = "rejected"
      BY <3>0, <3>1, <3>2, <3>3, <3>4
    <3>5. CASE reply # "rejected"
      <4>1. landed = misread + 1
        BY <3>1, <3>2, <3>5
      <4> QED BY <3>0, <3>5, <4>1
    <3> QED BY <3>4, <3>5
  <2>4. reply \in Ledger!Replies
    BY DEF Ledger!Replies, Reply
  <2> QED BY <2>1, <2>2, <2>3, <2>4 DEF Ledger!Learn, Effect
<1> QED BY <1>1, <1>2, <1>3, <1>4, <1>5, <1>6, Kinds DEF Answered, Ledger!Next, IInv

\* Two databases, racing requests, time-outs and deaths implement one effect with
\* one public account of it: called only on the record, again only after refusals,
\* landed again only where a landing was taken for a refusal, known for good, and
\* shown only as far as it is known.
THEOREM KeepsEffectLedgerHolds == Spec => KeepsEffectLedger
<1>1. Init => Ledger!Init
  BY DEF Init, Ledger!Init
<1>2. IInv /\ [Next]_vars => [Ledger!Next]_Seen
  BY ShownLedger, EffectLedgerSteps
<1>3. IInv /\ [Next]_vars => [Ledger!Next]_<<
        CASE receipt.status = "none" -> "none"
          [] receipt.status \in {"pending", "held"} -> "called"
          [] receipt.status = "failed" -> "refused"
          [] receipt.status = "succeeded" -> receipt.reply, calls, landed, misread, handoff, outcome>>
  BY <1>2 DEF Seen, Effect
<1> QED BY <1>1, <1>3, InitIInv, StepIInv, PTL DEF Spec, KeepsEffectLedger, Ledger!Spec
=============================================================================
