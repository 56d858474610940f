---------------------------- MODULE RemoteProofs ----------------------------
(***************************************************************************)
(* Proofs about Remote for any number of calls and rules, any policies,    *)
(* timeouts and deadlines, and any number of restarts.                     *)
(***************************************************************************)
EXTENDS Remote, SequenceTheorems, TLAPS

(* The outcome that a verdict reports. *)
Word(passed) == IF passed THEN "pass" ELSE "fail"

(* Where the two sides of a call are: nothing has happened to a request    *)
(* that has not arrived; an answer is what a handler has when it is done.  *)
CallInv(c) ==
    LET h == handler[c]
    IN  /\ h.next <= Len(h.policy) + 1
        /\ h.state = "exec" => h.next <= Len(h.policy) /\ Wanted(c, h.policy[h.next])
        /\ h.state = "done" => h.next = Len(h.policy) + 1
        /\ call[c].state = "idle" => wire[c] = "none"
        /\ call[c].state = "idle" \/ wire[c] = "request" =>
              /\ h.state = "none" /\ h.next = 1 /\ h.results = <<>>
              /\ \A id \in Ids : outcome[c][id] = "none"
        /\ wire[c] = "answer" => h.state = "done"
        /\ call[c].results = IF call[c].state = "ok" THEN h.results ELSE <<>>
        /\ call[c].state = "ok" => h.state = "done"

(* The loop has come to rule next: of the rules before it, those that were *)
(* asked for have a result, in their order, or erred; of the others, none  *)
(* has an outcome.                                                         *)
LoopInv(c) ==
    LET h == handler[c]
    IN  /\ \A i \in DOMAIN h.policy : i >= h.next => outcome[c][h.policy[i].id] = "none"
        /\ \A i \in DOMAIN h.policy :
              i < h.next /\ Wanted(c, h.policy[i]) /\ outcome[c][h.policy[i].id] # "error" =>
                 \E k \in DOMAIN h.results : h.results[k].id = h.policy[i].id
        /\ \A k \in DOMAIN h.results : \E i \in DOMAIN h.policy :
              /\ i < h.next
              /\ Wanted(c, h.policy[i])
              /\ h.results[k].id = h.policy[i].id
              /\ outcome[c][h.policy[i].id] = Word(h.results[k].passed)
        /\ \A k, l \in DOMAIN h.results : \A i, j \in DOMAIN h.policy :
              k < l /\ h.results[k].id = h.policy[i].id /\ h.results[l].id = h.policy[j].id
                 => i < j

(* While nothing went wrong for a call, both sides are of one age, and it  *)
(* is within the server's deadline.                                        *)
TimeInv(c) ==
    /\ call[c].state = "idle" => call[c].age = 0
    /\ wire[c] \in {"refusal", "cut"} => fault[c] # {}
    /\ Open(c) /\ fault[c] = {} =>
          /\ call[c].age <= ServerDeadline
          /\ wire[c] = "request" => call[c].age = 0
          /\ Active(c) => handler[c].age = call[c].age
          /\ ~Active(c) => wire[c] # "none"

(* The log holds every verdict, and says of a rule what its outcome was. *)
LogInv ==
    /\ \A c \in Calls : \A v \in ToSet(handler[c].results) :
          [call |-> c, id |-> v.id, passed |-> v.passed, by |-> "server"] \in log
    /\ \A x \in log : outcome[x.call][x.id] = Word(x.passed)

IInv ==
    /\ TypeOK
    /\ \A c \in Calls : CallInv(c) /\ LoopInv(c)
    /\ \A c \in Calls : TimeInv(c)
    /\ ErrorHasCause
    /\ LogInv

-----------------------------------------------------------------------------
(* Type correctness. *)

LEMMA RuleType ==
    ASSUME TypeOK, NEW c \in Calls, handler[c].next <= Len(handler[c].policy)
    PROVE  /\ Rule(c) \in ServerRule
           /\ handler[c].next \in DOMAIN handler[c].policy
<1>1. handler[c] \in Handler
  BY DEF TypeOK
<1>2. handler[c].policy \in Seq(ServerRule) /\ handler[c].next \in Nat \ {0}
  BY <1>1, PoliciesAssumption DEF Handler
<1> QED
  BY <1>2 DEF Rule

LEMMA InitType == Init => TypeOK
<1> SUFFICES ASSUME Init PROVE TypeOK
  OBVIOUS
<1>1. server \in Server
  BY DEF Init, Server
<1>2. call \in [Calls -> Call]
  <2> DEFINE none == {} nothing == <<>>
             Idle == [state : {"idle"}, ids : {none}, token : {NoToken},
                      timeout : Timeouts, age : {0}, results : {nothing}]
  <2>1. none \in SUBSET Ids /\ nothing \in Seq(Verdict)
    OBVIOUS
  <2>2. call \in [Calls -> Idle]
    BY DEF Init
  <2> HIDE DEF none, nothing
  <2>3. Idle \subseteq Call
    BY <2>1 DEF Call
  <2> QED
    BY <2>2, <2>3
<1>3. handler \in [Calls -> Handler]
  BY DEF Init, Handler
<1> QED
  BY <1>1, <1>2, <1>3 DEF Init, TypeOK, Outcomes

LEMMA TakeResultType ==
    ASSUME TypeOK, NEW c \in Calls, NEW passed \in BOOLEAN, TakeResult(c, passed),
           handler[c].next <= Len(handler[c].policy)
    PROVE  TypeOK'
<1>1. Rule(c).id \in Ids
  BY RuleType DEF ServerRule
<1>2. handler' \in [Calls -> Handler]
  <2>1. handler[c] \in Handler
    BY DEF TypeOK
  <2>2. Append(handler[c].results, [id |-> Rule(c).id, passed |-> passed]) \in Seq(Verdict)
    BY <1>1, <2>1 DEF Handler, Verdict
  <2> QED
    BY <2>1, <2>2 DEF TakeResult, TypeOK, Handler
<1>3. outcome' \in [Calls -> [Ids -> Outcomes]]
  BY <1>1 DEF TakeResult, TypeOK, Outcomes
<1>4. log' \subseteq Record
  BY <1>1 DEF TakeResult, LogVerdict, TypeOK, Record
<1> QED
  BY <1>2, <1>3, <1>4 DEF TakeResult, TypeOK

LEMMA ReturnType ==
    ASSUME TypeOK, NEW c \in Calls, NEW state \in {"ok", "error"},
           NEW results \in Seq(Verdict), Return(c, state, results)
    PROVE  call' \in [Calls -> Call]
<1>1. call[c] \in Call
  BY DEF TypeOK
<1>2. [call[c] EXCEPT !.state = state, !.results = results] \in Call
  BY <1>1, Zenon DEF Call
<1>3. call' = [call EXCEPT ![c] = [call[c] EXCEPT !.state = state, !.results = results]]
  BY DEF Return
<1> QED
  BY <1>2, <1>3 DEF TypeOK

LEMMA BlameType ==
    ASSUME TypeOK, NEW c \in Calls, NEW what \in Faults, Blame(c, what)
    PROVE  fault' \in [Calls -> SUBSET Faults]
BY DEF Blame, TypeOK

LEMMA ClientType ==
    ASSUME TypeOK, NEW c \in Calls, Client(c)
    PROVE  TypeOK'
<1>0. <<>> \in Seq(Verdict) /\ handler[c].results \in Seq(Verdict)
  <2>1. handler[c] \in Handler
    BY DEF TypeOK
  <2> QED
    BY <2>1 DEF Handler
<1>1. CASE Evaluate(c)
  <2> PICK ids \in SUBSET Ids, token \in Tokens \cup {NoToken} :
             call' = [call EXCEPT ![c].state = "open", ![c].ids = ids, ![c].token = token]
    BY <1>1 DEF Evaluate
  <2>1. call[c] \in Call
    BY DEF TypeOK
  <2>2. [call[c] EXCEPT !.state = "open", !.ids = ids, !.token = token] \in Call
    BY <2>1, Zenon DEF Call
  <2>3. call' \in [Calls -> Call]
    BY <2>2 DEF TypeOK
  <2> QED
    BY <1>1, <2>3 DEF Evaluate, TypeOK
<1>2. CASE Receive(c)
  <2>1. call' \in [Calls -> Call]
    <3>1. CASE Succeeded(wire[c])
      BY <1>0, <1>2, <3>1, ReturnType DEF Receive, Succeeded
    <3>2. CASE ~Succeeded(wire[c])
      BY <1>0, <1>2, <3>2, ReturnType DEF Receive
    <3> QED
      BY <3>1, <3>2
  <2> QED
    BY <1>2, <2>1 DEF Receive, TypeOK
<1>3. CASE Refused(c)
  <2>1. call' \in [Calls -> Call]
    BY <1>0, <1>3, ReturnType DEF Refused
  <2>2. fault' \in [Calls -> SUBSET Faults]
    BY <1>3, BlameType DEF Refused, Faults
  <2> QED
    BY <1>3, <2>1, <2>2 DEF Refused, TypeOK
<1>4. CASE Timeout(c)
  <2>1. call' \in [Calls -> Call]
    BY <1>0, <1>4, ReturnType DEF Timeout
  <2> QED
    BY <1>4, <2>1 DEF Timeout, TypeOK
<1>5. CASE Audit(c)
  <2>1. \A v \in ToSet(call[c].results) : v \in Verdict
    BY DEF TypeOK, Call, ToSet
  <2>2. log' \subseteq Record
    BY <1>5, <2>1 DEF Audit, TypeOK, Record, Verdict
  <2> QED
    BY <1>5, <2>2 DEF Audit, TypeOK
<1> QED
  BY <1>1, <1>2, <1>3, <1>4, <1>5 DEF Client

LEMMA ServeType ==
    ASSUME TypeOK, NEW c \in Calls, CallInv(c), Serve(c)
    PROVE  TypeOK'
<1>0. handler[c] \in Handler /\ server \in Server
  BY DEF TypeOK
<1>n. handler[c].next \in Nat \ {0} /\ handler[c].next + 1 \in Nat \ {0}
  BY <1>0 DEF Handler
<1>1. CASE Reject(c)
  <2>1. fault' \in [Calls -> SUBSET Faults]
    BY <1>1, BlameType DEF Reject, Faults
  <2> QED
    BY <1>1, <2>1 DEF Reject, TypeOK
<1>2. CASE Accept(c)
  <2>1. server.policy \in Policies /\ <<>> \in Seq(Verdict) /\ 0 \in Nat /\ 1 \in Nat \ {0}
    BY <1>0 DEF Server
  <2>2. [state |-> "run", policy |-> server.policy, next |-> 1,
         results |-> <<>>, age |-> 0, spent |-> 0] \in Handler
    BY <2>1, Zenon DEF Handler
  <2>3. handler' \in [Calls -> Handler]
    BY <1>2, <2>2 DEF Accept, TypeOK
  <2> QED
    BY <1>2, <2>3 DEF Accept, TypeOK
<1>3. CASE Skip(c)
  <2>1. [handler[c] EXCEPT !.next = @ + 1] \in Handler
    BY <1>0, <1>n, Zenon DEF Handler
  <2> QED
    BY <1>3, <2>1 DEF Skip, TypeOK
<1>4. CASE CheckErrs(c)
  <2>1. Rule(c).id \in Ids
    BY <1>4, RuleType DEF CheckErrs, AtRule, ServerRule
  <2>2. outcome' \in [Calls -> [Ids -> Outcomes]]
    BY <1>4, <2>1 DEF CheckErrs, TypeOK, Outcomes
  <2>3. [handler[c] EXCEPT !.next = @ + 1] \in Handler
    BY <1>0, <1>n, Zenon DEF Handler
  <2> QED
    BY <1>4, <2>2, <2>3 DEF CheckErrs, TypeOK
<1>5. CASE RunInProcess(c)
  BY <1>5, TakeResultType DEF RunInProcess, AtRule
<1>6. CASE StartProcess(c)
  <2>1. CASE Cancelled(c)
    BY <1>6, <2>1, TakeResultType DEF StartProcess, AtRule
  <2>2. CASE ~Cancelled(c)
    <3>1. 0 \in Nat
      OBVIOUS
    <3>2. [handler[c] EXCEPT !.state = "exec", !.spent = 0] \in Handler
      BY <1>0, <3>1, Zenon DEF Handler
    <3> QED
      BY <1>6, <2>2, <3>2 DEF StartProcess, TypeOK
  <2> QED
    BY <2>1, <2>2
<1>7. CASE EndProcess(c)
  BY <1>7, TakeResultType DEF EndProcess, CallInv
<1>8. CASE Respond(c)
  <2>1. handler' \in [Calls -> Handler]
    <3>1. [handler[c] EXCEPT !.state = "done"] \in Handler
      BY <1>0, Zenon DEF Handler
    <3> QED
      BY <1>8, <3>1 DEF Respond, TypeOK
  <2> QED
    BY <1>8, <2>1 DEF Respond, TypeOK
<1> QED
  BY <1>1, <1>2, <1>3, <1>4, <1>5, <1>6, <1>7, <1>8 DEF Serve

LEMMA StepType ==
    ASSUME TypeOK, \A c \in Calls : CallInv(c), [Next]_vars
    PROVE  TypeOK'
<1>1. CASE \E c \in Calls : Client(c) \/ Serve(c)
  BY <1>1, ClientType, ServeType
<1>2. CASE \E c \in Calls : Lose(c)
  <2> PICK c \in Calls : Lose(c)
    BY <1>2
  <2>1. fault' \in [Calls -> SUBSET Faults]
    BY BlameType DEF Lose, Faults
  <2> QED
    BY <2>1 DEF Lose, TypeOK
<1>3. CASE Crash
  <2>1. handler' \in [Calls -> Handler]
    <3>1. \A c \in Calls : handler[c] \in Handler
      BY DEF TypeOK
    <3>2. \A c \in Calls : [handler[c] EXCEPT !.state = IF Active(c) THEN "none" ELSE @]
                              \in Handler
      BY <3>1, Zenon DEF Handler
    <3> QED
      BY <1>3, <3>2 DEF Crash
  <2>2. server' \in Server
    BY <1>3 DEF Crash, TypeOK, Server
  <2>3. fault' \in [Calls -> SUBSET Faults]
    BY <1>3 DEF Crash, TypeOK, Faults
  <2> QED
    BY <1>3, <2>1, <2>2, <2>3 DEF Crash, TypeOK
<1>4. CASE Restart
  <2>1. server' \in Server
    BY <1>4 DEF Restart, Server
  <2>2. restarts' \in Nat
    BY <1>4 DEF Restart, TypeOK
  <2> QED
    BY <1>4, <2>1, <2>2 DEF Restart, TypeOK
<1>5. CASE Tick
  <2>1. call' \in [Calls -> Call]
    <3>1. \A c \in Calls : call[c] \in Call /\ call[c].age + 1 \in Nat
      BY DEF TypeOK, Call
    <3>2. \A c \in Calls : [call[c] EXCEPT !.age = IF Open(c) THEN @ + 1 ELSE @] \in Call
      BY <3>1, Zenon DEF Call
    <3> QED
      BY <1>5, <3>2 DEF Tick
  <2>2. handler' \in [Calls -> Handler]
    <3>1. \A c \in Calls : /\ handler[c] \in Handler
                            /\ handler[c].age + 1 \in Nat
                            /\ handler[c].spent + 1 \in Nat
      BY DEF TypeOK, Handler
    <3>2. \A c \in Calls : [handler[c] EXCEPT !.age = IF Active(c) THEN @ + 1 ELSE @,
                                               !.spent = IF Active(c) THEN @ + 1 ELSE @]
                              \in Handler
      BY <3>1, Zenon DEF Handler
    <3> QED
      BY <1>5, <3>2 DEF Tick
  <2>3. fault' \in [Calls -> SUBSET Faults]
    BY <1>5 DEF Tick, TypeOK, Faults
  <2> QED
    BY <1>5, <2>1, <2>2, <2>3 DEF Tick, TypeOK
<1>6. CASE UNCHANGED vars
  BY <1>6 DEF vars, TypeOK
<1> QED
  BY <1>1, <1>2, <1>3, <1>4, <1>5, <1>6 DEF Next

-----------------------------------------------------------------------------
(* What a step leaves alone.  A call keeps its invariants when a step is   *)
(* about another call.                                                     *)

LEMMA OtherCalls ==
    ASSUME TypeOK, NEW c \in Calls, NEW d \in Calls, c # d,
           Client(c) \/ Serve(c) \/ Lose(c)
    PROVE  /\ call'[d] = call[d]
           /\ handler'[d] = handler[d]
           /\ wire'[d] = wire[d]
           /\ outcome'[d] = outcome[d]
           /\ fault'[d] = fault[d]
<1>1. CASE Client(c)
  BY <1>1 DEF Client, Evaluate, Receive, Refused, Timeout, Audit, Return, Blame, TypeOK
<1>2. CASE Reject(c) \/ Accept(c) \/ Skip(c) \/ CheckErrs(c) \/ Respond(c)
  BY <1>2 DEF Reject, Accept, Skip, CheckErrs, Respond, Blame, TypeOK
<1>3. CASE RunInProcess(c) \/ StartProcess(c) \/ EndProcess(c)
  BY <1>3 DEF RunInProcess, StartProcess, EndProcess, TakeResult, TypeOK
<1>4. CASE Lose(c)
  BY <1>4 DEF Lose, Blame, TypeOK
<1> QED
  BY <1>1, <1>2, <1>3, <1>4 DEF Serve

LEMMA CallFrame ==
    ASSUME NEW d \in Calls, CallInv(d), call'[d] = call[d], handler'[d] = handler[d],
           wire'[d] = wire[d], outcome'[d] = outcome[d]
    PROVE  CallInv(d)'
BY DEF CallInv, Wanted

LEMMA LoopFrame ==
    ASSUME NEW d \in Calls, LoopInv(d), call'[d].ids = call[d].ids,
           handler'[d].policy = handler[d].policy, handler'[d].next = handler[d].next,
           handler'[d].results = handler[d].results, outcome'[d] = outcome[d]
    PROVE  LoopInv(d)'
BY DEF LoopInv, Wanted

LEMMA TimeFrame ==
    ASSUME NEW d \in Calls, TimeInv(d), call'[d] = call[d], handler'[d] = handler[d],
           wire'[d] = wire[d], fault'[d] = fault[d]
    PROVE  TimeInv(d)'
BY DEF TimeInv, Open, Active

LEMMA TakeResultCall ==
    ASSUME TypeOK, NEW c \in Calls, NEW passed \in BOOLEAN, TakeResult(c, passed),
           CallInv(c), handler[c].state \in {"run", "exec"},
           handler[c].next <= Len(handler[c].policy)
    PROVE  CallInv(c)'
<1>1. handler[c] \in Handler
  BY DEF TypeOK
<1>2. /\ handler'[c].state = "run"
      /\ handler'[c].next = handler[c].next + 1
      /\ handler'[c].policy = handler[c].policy
      /\ call'[c] = call[c]
      /\ wire'[c] = wire[c]
  BY <1>1 DEF TakeResult, TypeOK, Handler
<1>3. handler[c].next \in Nat /\ Len(handler[c].policy) \in Nat
  BY <1>1, PoliciesAssumption DEF Handler
<1>4. call[c].state # "idle" /\ wire[c] \notin {"request", "answer"} /\ call[c].state # "ok"
  BY DEF CallInv
<1> QED
  BY <1>2, <1>3, <1>4 DEF CallInv

LEMMA ClientCall ==
    ASSUME TypeOK, NEW c \in Calls, CallInv(c), Client(c)
    PROVE  CallInv(c)'
<1>1. CASE Evaluate(c)
  <2>1. /\ call'[c].state = "open"
        /\ call'[c].results = call[c].results
        /\ UNCHANGED <<handler, outcome>>
        /\ wire'[c] = "request"
        /\ call[c].state = "idle"
    BY <1>1 DEF Evaluate, TypeOK, Call
  <2> QED
    BY <2>1 DEF CallInv
<1>2. CASE Receive(c)
  <2>1. /\ wire'[c] = "none"
        /\ call[c].state = "open"
        /\ UNCHANGED <<handler, outcome>>
    BY <1>2 DEF Receive, Open, TypeOK
  <2>2. /\ call'[c].ids = call[c].ids
        /\ \/ call'[c].state = "error" /\ call'[c].results = <<>>
           \/ /\ wire[c] = "answer"
              /\ call'[c].state = "ok" /\ call'[c].results = handler[c].results
    BY <1>2 DEF Receive, Return, Succeeded, TypeOK, Call
  <2> QED
    BY <2>1, <2>2 DEF CallInv, Wanted
<1>3. CASE Refused(c)
  BY <1>3 DEF Refused, Return, Open, CallInv, Wanted, TypeOK, Call
<1>4. CASE Timeout(c)
  BY <1>4 DEF Timeout, Return, Open, CallInv, Wanted, TypeOK, Call
<1>5. CASE Audit(c)
  BY <1>5 DEF Audit, CallInv, Wanted
<1> QED
  BY <1>1, <1>2, <1>3, <1>4, <1>5 DEF Client

LEMMA ServeCall ==
    ASSUME TypeOK, NEW c \in Calls, CallInv(c), Serve(c)
    PROVE  CallInv(c)'
<1>0. /\ handler[c] \in Handler
      /\ handler[c].next \in Nat
      /\ Len(handler[c].policy) \in Nat
  BY PoliciesAssumption DEF TypeOK, Handler
<1>1. CASE Reject(c)
  BY <1>1 DEF Reject, Open, CallInv, TypeOK
<1>2. CASE Accept(c)
  <2>1. Len(server.policy) \in Nat
    BY PoliciesAssumption DEF TypeOK, Server
  <2>2. /\ handler'[c].state = "run" /\ handler'[c].next = 1
        /\ handler'[c].policy = server.policy /\ wire'[c] = "none"
        /\ call'[c] = call[c] /\ handler'[c].results = <<>>
    BY <1>2 DEF Accept, TypeOK
  <2> QED
    BY <1>2, <2>1, <2>2 DEF Accept, CallInv
<1>3. CASE Skip(c) \/ CheckErrs(c)
  <2>1. /\ handler'[c].state = "run"
        /\ handler'[c].next = handler[c].next + 1
        /\ handler'[c].policy = handler[c].policy
        /\ call'[c] = call[c]
        /\ wire'[c] = wire[c]
        /\ handler[c].next <= Len(handler[c].policy)
        /\ handler[c].state = "run"
    BY <1>3, <1>0 DEF Skip, CheckErrs, AtRule, Running, TypeOK, Handler
  <2> QED
    BY <1>0, <2>1 DEF CallInv
<1>4. CASE RunInProcess(c)
  BY <1>4, TakeResultCall DEF RunInProcess, AtRule, Running
<1>5. CASE StartProcess(c)
  <2>1. CASE Cancelled(c)
    BY <1>5, <2>1, TakeResultCall DEF StartProcess, AtRule, Running
  <2>2. CASE ~Cancelled(c)
    <3>1. handler'[c] = [handler[c] EXCEPT !.state = "exec", !.spent = 0]
      BY <1>5, <2>2 DEF StartProcess, TypeOK
    <3>2. /\ handler'[c].state = "exec"
          /\ handler'[c].next = handler[c].next
          /\ handler'[c].policy = handler[c].policy
          /\ handler'[c].results = handler[c].results
          /\ UNCHANGED <<call, wire, outcome>>
          /\ handler[c].next <= Len(handler[c].policy)
          /\ handler[c].state = "run"
          /\ Wanted(c, handler[c].policy[handler[c].next])
      BY <1>0, <1>5, <2>2, <3>1 DEF StartProcess, AtRule, Running, Rule, Handler
    <3> QED
      BY <1>0, <3>2 DEF CallInv, Wanted
  <2> QED
    BY <2>1, <2>2
<1>6. CASE EndProcess(c)
  BY <1>6, TakeResultCall DEF EndProcess, CallInv
<1>7. CASE Respond(c)
  <2>1. /\ handler'[c].state = "done"
        /\ handler'[c].next = handler[c].next
        /\ handler'[c].policy = handler[c].policy
        /\ handler'[c].results = handler[c].results
        /\ call'[c] = call[c]
        /\ wire'[c] # "request"
        /\ handler[c].next > Len(handler[c].policy)
        /\ handler[c].state = "run"
    BY <1>0, <1>7 DEF Respond, Running, TypeOK, Handler
  <2>2. /\ call[c].state \notin {"idle", "ok"}
        /\ handler[c].next = Len(handler[c].policy) + 1
        /\ call[c].results = <<>>
    BY <1>0, <2>1 DEF CallInv
  <2> QED
    BY <1>0, <2>1, <2>2 DEF CallInv
<1> QED
  BY <1>1, <1>2, <1>3, <1>4, <1>5, <1>6, <1>7 DEF Serve

LEMMA StepCall ==
    ASSUME TypeOK, \A c \in Calls : CallInv(c), [Next]_vars
    PROVE  \A d \in Calls : CallInv(d)'
<1> TAKE d \in Calls
<1>1. CASE \E c \in Calls : Client(c) \/ Serve(c) \/ Lose(c)
  <2> PICK c \in Calls : Client(c) \/ Serve(c) \/ Lose(c)
    BY <1>1
  <2>1. CASE c # d
    BY <2>1, OtherCalls, CallFrame
  <2>2. CASE c = d /\ Lose(c)
    BY <2>2 DEF Lose, CallInv, Wanted, TypeOK
  <2> QED
    BY <2>1, <2>2, ClientCall, ServeCall
<1>2. CASE Crash
  <2>1. /\ handler'[d].next = handler[d].next
        /\ handler'[d].policy = handler[d].policy
        /\ handler'[d].results = handler[d].results
        /\ handler'[d].state = IF Active(d) THEN "none" ELSE handler[d].state
        /\ wire'[d] \in {wire[d], "cut"}
        /\ ~Active(d) => wire'[d] = wire[d]
        /\ UNCHANGED <<call, outcome>>
    BY <1>2 DEF Crash, TypeOK, Handler
  <2> QED
    BY <2>1 DEF CallInv, Active
<1>3. CASE Restart \/ UNCHANGED vars
  BY <1>3, CallFrame DEF Restart, vars
<1>4. CASE Tick
  <2>1. /\ handler'[d].next = handler[d].next
        /\ handler'[d].policy = handler[d].policy
        /\ handler'[d].results = handler[d].results
        /\ handler'[d].state = handler[d].state
        /\ call'[d].state = call[d].state
        /\ call'[d].ids = call[d].ids
        /\ call'[d].results = call[d].results
        /\ UNCHANGED <<wire, outcome>>
    <3>1. /\ call[d] \in Call
          /\ call'[d] = [call[d] EXCEPT !.age = IF Open(d) THEN @ + 1 ELSE @]
      BY <1>4 DEF Tick, TypeOK
    <3>2. /\ handler[d] \in Handler
          /\ handler'[d] = [handler[d] EXCEPT !.age = IF Active(d) THEN @ + 1 ELSE @,
                                              !.spent = IF Active(d) THEN @ + 1 ELSE @]
      BY <1>4 DEF Tick, TypeOK
    <3> QED
      BY <1>4, <3>1, <3>2 DEF Tick, Call, Handler
  <2> QED
    BY <2>1 DEF CallInv, Wanted
<1> QED
  BY <1>1, <1>2, <1>3, <1>4 DEF Next

-----------------------------------------------------------------------------
(* The loop over the policy. *)

LEMMA Policy ==
    ASSUME TypeOK, NEW c \in Calls
    PROVE  /\ handler[c] \in Handler
           /\ handler[c].policy \in Seq(ServerRule)
           /\ handler[c].next \in Nat \ {0}
           /\ handler[c].results \in Seq(Verdict)
           /\ \A i, j \in DOMAIN handler[c].policy :
                 handler[c].policy[i].id = handler[c].policy[j].id => i = j
           /\ \A i \in DOMAIN handler[c].policy : handler[c].policy[i].id \in Ids
<1>1. handler[c] \in Handler
  BY DEF TypeOK
<1>2. handler[c].policy \in Policies
  BY <1>1 DEF Handler
<1>3. handler[c].policy \in Seq(ServerRule)
  BY <1>2, PoliciesAssumption
<1>4. \A i \in DOMAIN handler[c].policy : handler[c].policy[i].id \in Ids
  <2> TAKE i \in DOMAIN handler[c].policy
  <2>1. handler[c].policy[i] \in ServerRule
    BY <1>3
  <2> QED
    BY <2>1 DEF ServerRule
<1> QED
  BY <1>1, <1>2, <1>3, <1>4, PoliciesAssumption DEF Handler

LEMMA FreshLoop ==
    ASSUME TypeOK, TypeOK', NEW c \in Calls, handler'[c].next = 1,
           handler'[c].results = <<>>, \A id \in Ids : outcome'[c][id] = "none"
    PROVE  LoopInv(c)'
<1>1. handler'[c].policy \in Seq(ServerRule)
  <2>1. handler'[c] \in Handler
    BY DEF TypeOK
  <2> QED
    BY <2>1, PoliciesAssumption DEF Handler
<1>2. \A i \in DOMAIN handler'[c].policy : handler'[c].policy[i].id \in Ids /\ ~(i < 1)
  <2> TAKE i \in DOMAIN handler'[c].policy
  <2>1. handler'[c].policy[i] \in ServerRule /\ i \in 1..Len(handler'[c].policy)
    BY <1>1
  <2> QED
    BY <2>1 DEF ServerRule
<1> QED
  BY <1>2 DEF LoopInv

LEMMA SkipLoop ==
    ASSUME TypeOK, NEW c \in Calls, LoopInv(c), Skip(c)
    PROVE  LoopInv(c)'
<1>1. /\ handler'[c].policy = handler[c].policy
      /\ handler'[c].results = handler[c].results
      /\ handler'[c].next = handler[c].next + 1
      /\ UNCHANGED <<call, outcome>>
  BY Policy DEF Skip, TypeOK, Handler
<1>2. \A r : Wanted(c, r)' = Wanted(c, r)
  BY <1>1 DEF Wanted
<1>3. \A i \in DOMAIN handler[c].policy :
         i < handler[c].next + 1 /\ Wanted(c, handler[c].policy[i]) => i < handler[c].next
  BY Policy DEF Skip, AtRule, Rule
<1>4. \A i \in DOMAIN handler[c].policy :
         /\ i < handler[c].next => i < handler[c].next + 1
         /\ i >= handler[c].next + 1 => i >= handler[c].next
  BY Policy
<1> QED
  BY <1>1, <1>2, <1>3, <1>4 DEF LoopInv

LEMMA CheckErrsLoop ==
    ASSUME TypeOK, NEW c \in Calls, LoopInv(c), CheckErrs(c)
    PROVE  LoopInv(c)'
<1> DEFINE h == handler[c]
<1>1. /\ handler'[c].policy = h.policy
      /\ handler'[c].results = h.results
      /\ handler'[c].next = h.next + 1
      /\ UNCHANGED call
  BY Policy DEF CheckErrs, TypeOK, Handler
<1>2. \A r : Wanted(c, r)' = Wanted(c, r)
  BY <1>1 DEF Wanted
<1>3. \A i \in DOMAIN h.policy :
         outcome'[c][h.policy[i].id] = IF i = h.next THEN "error" ELSE outcome[c][h.policy[i].id]
  BY Policy, RuleType DEF CheckErrs, AtRule, Rule, TypeOK
<1>4. \A i \in DOMAIN h.policy :
         /\ i < h.next => i < h.next + 1 /\ i # h.next
         /\ i >= h.next + 1 => i >= h.next /\ i # h.next
         /\ i < h.next + 1 /\ i # h.next => i < h.next
  BY Policy
<1> HIDE DEF h
<1>5. \A i \in DOMAIN h.policy : i >= h.next + 1 => outcome'[c][h.policy[i].id] = "none"
  BY <1>3, <1>4 DEF LoopInv, h
<1>6. \A i \in DOMAIN h.policy :
         i < h.next + 1 /\ Wanted(c, h.policy[i]) /\ outcome'[c][h.policy[i].id] # "error" =>
            \E k \in DOMAIN h.results : h.results[k].id = h.policy[i].id
  BY <1>3, <1>4 DEF LoopInv, h
<1>7. \A k \in DOMAIN h.results : \E i \in DOMAIN h.policy :
         /\ i < h.next + 1
         /\ Wanted(c, h.policy[i])
         /\ h.results[k].id = h.policy[i].id
         /\ outcome'[c][h.policy[i].id] = Word(h.results[k].passed)
  BY <1>3, <1>4 DEF LoopInv, h
<1>8. \A k, l \in DOMAIN h.results : \A i, j \in DOMAIN h.policy :
         k < l /\ h.results[k].id = h.policy[i].id /\ h.results[l].id = h.policy[j].id
            => i < j
  BY DEF LoopInv, h
<1> QED
  BY <1>1, <1>2, <1>5, <1>6, <1>7, <1>8, SMTT(30) DEF LoopInv, h

LEMMA TakeResultLoop ==
    ASSUME TypeOK, NEW c \in Calls, NEW passed \in BOOLEAN, TakeResult(c, passed),
           LoopInv(c), handler[c].next <= Len(handler[c].policy), Wanted(c, Rule(c))
    PROVE  LoopInv(c)'
<1> DEFINE h == handler[c]
           n == h.next
           m == Len(h.results) + 1
           rs == Append(h.results, [id |-> Rule(c).id, passed |-> passed])
<1>1. /\ handler'[c].policy = h.policy
      /\ handler'[c].results = rs
      /\ handler'[c].next = n + 1
      /\ UNCHANGED call
  BY Policy DEF TakeResult, TypeOK, Handler
<1>2. \A r : Wanted(c, r)' = Wanted(c, r)
  BY <1>1 DEF Wanted
<1>3. n \in DOMAIN h.policy /\ Rule(c) = h.policy[n]
  BY RuleType DEF Rule
<1>4. \A i \in DOMAIN h.policy :
         outcome'[c][h.policy[i].id] = IF i = n THEN Word(passed) ELSE outcome[c][h.policy[i].id]
  BY <1>3, Policy DEF TakeResult, TypeOK, Word
<1>5. \A i \in DOMAIN h.policy :
         /\ i \in Nat
         /\ i < n => i < n + 1 /\ i # n
         /\ i >= n + 1 => i >= n /\ i # n
         /\ i < n + 1 /\ i # n => i < n
  BY Policy
<1>6. /\ m \in Nat /\ m \notin DOMAIN h.results
      /\ DOMAIN rs = DOMAIN h.results \cup {m}
      /\ \A k \in DOMAIN h.results : rs[k] = h.results[k] /\ k \in Nat /\ k < m
      /\ rs[m] = [id |-> h.policy[n].id, passed |-> passed]
  BY <1>3, Policy, SMTT(30)
<1>7. n \in Nat /\ n < n + 1
  BY Policy
<1>8. \A i, j \in DOMAIN h.policy : h.policy[i].id = h.policy[j].id => i = j
  BY Policy
<1>9. Wanted(c, h.policy[n])
  BY <1>3
<1> HIDE DEF h, n, m, rs
<1>a. \A i \in DOMAIN h.policy : i >= n + 1 => outcome'[c][h.policy[i].id] = "none"
  BY <1>4, <1>5 DEF LoopInv, h, n
<1>b. \A i \in DOMAIN h.policy :
         i < n + 1 /\ Wanted(c, h.policy[i]) /\ outcome'[c][h.policy[i].id] # "error" =>
            \E k \in DOMAIN rs : rs[k].id = h.policy[i].id
  <2> SUFFICES ASSUME NEW i \in DOMAIN h.policy, i < n + 1, Wanted(c, h.policy[i]),
                      outcome'[c][h.policy[i].id] # "error"
               PROVE  \E k \in DOMAIN rs : rs[k].id = h.policy[i].id
    OBVIOUS
  <2>1. CASE i = n
    BY <1>6, <2>1
  <2>2. CASE i # n
    <3>1. \E k \in DOMAIN h.results : h.results[k].id = h.policy[i].id
      BY <1>4, <1>5, <2>2 DEF LoopInv, h, n
    <3> QED
      BY <1>6, <3>1
  <2> QED
    BY <2>1, <2>2
<1>c. \A k \in DOMAIN rs : \E i \in DOMAIN h.policy :
         /\ i < n + 1
         /\ Wanted(c, h.policy[i])
         /\ rs[k].id = h.policy[i].id
         /\ outcome'[c][h.policy[i].id] = Word(rs[k].passed)
  <2> TAKE k \in DOMAIN rs
  <2>1. CASE k = m
    BY <1>3, <1>4, <1>6, <1>7, <1>9, <2>1
  <2>2. CASE k # m
    <3>1. k \in DOMAIN h.results /\ rs[k] = h.results[k]
      BY <1>6, <2>2
    <3>2. PICK i \in DOMAIN h.policy :
                 /\ i < n
                 /\ Wanted(c, h.policy[i])
                 /\ h.results[k].id = h.policy[i].id
                 /\ outcome[c][h.policy[i].id] = Word(h.results[k].passed)
      BY <3>1 DEF LoopInv, h, n
    <3> QED
      BY <1>4, <1>5, <3>1, <3>2
  <2> QED
    BY <2>1, <2>2
<1>d. \A k, l \in DOMAIN rs : \A i, j \in DOMAIN h.policy :
         k < l /\ rs[k].id = h.policy[i].id /\ rs[l].id = h.policy[j].id => i < j
  <2> SUFFICES ASSUME NEW k \in DOMAIN rs, NEW l \in DOMAIN rs,
                      NEW i \in DOMAIN h.policy, NEW j \in DOMAIN h.policy,
                      k < l, rs[k].id = h.policy[i].id, rs[l].id = h.policy[j].id
               PROVE  i < j
    OBVIOUS
  <2>1. k \in DOMAIN h.results /\ rs[k] = h.results[k]
    BY <1>6
  <2>2. CASE l = m
    <3>1. j = n
      BY <1>3, <1>6, <1>8, <2>2
    <3>2. PICK i0 \in DOMAIN h.policy : i0 < n /\ h.results[k].id = h.policy[i0].id
      BY <2>1 DEF LoopInv, h, n
    <3> QED
      BY <1>8, <2>1, <3>1, <3>2
  <2>3. CASE l # m
    <3>1. l \in DOMAIN h.results /\ rs[l] = h.results[l]
      BY <1>6, <2>3
    <3> QED
      BY <2>1, <3>1 DEF LoopInv, h
  <2> QED
    BY <2>2, <2>3
<1> QED
  BY <1>1, <1>2, <1>a, <1>b, <1>c, <1>d DEF LoopInv, h, n

LEMMA ServeLoop ==
    ASSUME TypeOK, TypeOK', NEW c \in Calls, CallInv(c), LoopInv(c), Serve(c)
    PROVE  LoopInv(c)'
<1>1. CASE Reject(c)
  BY <1>1, LoopFrame DEF Reject
<1>2. CASE Accept(c)
  <2>1. /\ handler'[c].next = 1 /\ handler'[c].results = <<>>
        /\ \A id \in Ids : outcome'[c][id] = "none"
    BY <1>2 DEF Accept, CallInv, TypeOK
  <2> QED
    BY <2>1, FreshLoop
<1>3. CASE Skip(c)
  BY <1>3, SkipLoop
<1>4. CASE CheckErrs(c)
  BY <1>4, CheckErrsLoop
<1>5. CASE RunInProcess(c)
  BY <1>5, TakeResultLoop DEF RunInProcess, AtRule
<1>6. CASE StartProcess(c)
  <2>1. CASE Cancelled(c)
    BY <1>6, <2>1, TakeResultLoop DEF StartProcess, AtRule
  <2>2. CASE ~Cancelled(c)
    <3>1. handler'[c] = [handler[c] EXCEPT !.state = "exec", !.spent = 0]
      BY <1>6, <2>2 DEF StartProcess, TypeOK
    <3> QED
      BY <1>6, <2>2, <3>1, Policy, LoopFrame DEF StartProcess, Handler
  <2> QED
    BY <2>1, <2>2
<1>7. CASE EndProcess(c)
  BY <1>7, TakeResultLoop DEF EndProcess, CallInv, Rule
<1>8. CASE Respond(c)
  <2>1. handler'[c] = [handler[c] EXCEPT !.state = "done"]
    BY <1>8 DEF Respond, TypeOK
  <2> QED
    BY <1>8, <2>1, Policy, LoopFrame DEF Respond, Handler
<1> QED
  BY <1>1, <1>2, <1>3, <1>4, <1>5, <1>6, <1>7, <1>8 DEF Serve

LEMMA ClientLoop ==
    ASSUME TypeOK, TypeOK', NEW c \in Calls, CallInv(c), LoopInv(c), Client(c)
    PROVE  LoopInv(c)'
<1>1. CASE Evaluate(c)
  BY <1>1, FreshLoop DEF Evaluate, CallInv
<1>2. CASE Receive(c) \/ Refused(c) \/ Timeout(c) \/ Audit(c)
  <2>1. call'[c].ids = call[c].ids
    BY <1>2 DEF Receive, Refused, Timeout, Audit, Return, TypeOK, Call
  <2> QED
    BY <1>2, <2>1, LoopFrame DEF Receive, Refused, Timeout, Audit
<1> QED
  BY <1>1, <1>2 DEF Client

LEMMA StepLoop ==
    ASSUME TypeOK, TypeOK', \A c \in Calls : CallInv(c) /\ LoopInv(c), [Next]_vars
    PROVE  \A d \in Calls : LoopInv(d)'
<1> TAKE d \in Calls
<1>1. CASE \E c \in Calls : Client(c) \/ Serve(c) \/ Lose(c)
  <2> PICK c \in Calls : Client(c) \/ Serve(c) \/ Lose(c)
    BY <1>1
  <2>1. CASE c # d
    BY <2>1, OtherCalls, LoopFrame
  <2>2. CASE c = d /\ Lose(c)
    BY <2>2, LoopFrame DEF Lose
  <2> QED
    BY <2>1, <2>2, ClientLoop, ServeLoop
<1>2. CASE Crash
  <2>1. handler'[d] = [handler[d] EXCEPT !.state = IF Active(d) THEN "none" ELSE @]
    BY <1>2 DEF Crash
  <2> QED
    BY <1>2, <2>1, Policy, LoopFrame DEF Crash, Handler
<1>3. CASE Restart \/ UNCHANGED vars
  BY <1>3, LoopFrame DEF Restart, vars
<1>4. CASE Tick
  <2>1. handler'[d] = [handler[d] EXCEPT !.age = IF Active(d) THEN @ + 1 ELSE @,
                                         !.spent = IF Active(d) THEN @ + 1 ELSE @]
    BY <1>4 DEF Tick
  <2>2. call'[d].ids = call[d].ids
    <3>1. call[d] \in Call /\ call'[d] = [call[d] EXCEPT !.age = IF Open(d) THEN @ + 1 ELSE @]
      BY <1>4 DEF Tick, TypeOK
    <3> QED
      BY <3>1 DEF Call
  <2> QED
    BY <1>4, <2>1, <2>2, Policy, LoopFrame DEF Tick, Handler
<1> QED
  BY <1>1, <1>2, <1>3, <1>4 DEF Next

-----------------------------------------------------------------------------
(* The deadlines. *)

LEMMA AgeType ==
    ASSUME TypeOK, NEW c \in Calls
    PROVE  /\ call[c] \in Call /\ handler[c] \in Handler
           /\ call[c].age \in Nat /\ call[c].timeout \in Nat \ {0}
           /\ handler[c].age \in Nat /\ handler[c].spent \in Nat
           /\ ServerDeadline \in Nat /\ WriteTimeout \in Nat
           /\ ServerDeadline < WriteTimeout
<1>1. call[c] \in Call /\ handler[c] \in Handler
  BY DEF TypeOK
<1> QED
  BY <1>1, TimeoutsAssumption, DeadlinesAssumption DEF Call, Handler

LEMMA ClientTime ==
    ASSUME TypeOK, NEW c \in Calls, CallInv(c), TimeInv(c), Client(c)
    PROVE  TimeInv(c)'
<1>1. CASE Evaluate(c)
  <2>1. /\ call[c].state = "idle"
        /\ call'[c].state = "open"
        /\ call'[c].age = call[c].age
        /\ wire'[c] = "request"
        /\ UNCHANGED <<handler, fault>>
    BY <1>1, AgeType DEF Evaluate, TypeOK, Call
  <2>2. call[c].age = 0 /\ ~Active(c) /\ 0 <= ServerDeadline
    BY <2>1, AgeType DEF TimeInv, CallInv, Active
  <2> QED
    BY <2>1, <2>2 DEF TimeInv, Active
<1>2. CASE Receive(c) \/ Refused(c) \/ Timeout(c)
  <2>1. /\ call'[c].state \in {"ok", "error"}
        /\ wire'[c] \in {wire[c], "none"}
        /\ fault[c] \subseteq fault'[c]
    BY <1>2, AgeType DEF Receive, Refused, Timeout, Return, Blame, TypeOK, Call
  <2> QED
    BY <2>1 DEF TimeInv, Open
<1>3. CASE Audit(c)
  BY <1>3, TimeFrame DEF Audit
<1> QED
  BY <1>1, <1>2, <1>3 DEF Client

LEMMA ServeTime ==
    ASSUME TypeOK, NEW c \in Calls, CallInv(c), TimeInv(c), Serve(c)
    PROVE  TimeInv(c)'
<1>1. CASE Reject(c)
  <2>1. fault'[c] # {} /\ UNCHANGED call
    BY <1>1 DEF Reject, Blame, TypeOK
  <2> QED
    BY <2>1 DEF TimeInv
<1>2. CASE Accept(c)
  <2>1. /\ handler'[c].state = "run" /\ handler'[c].age = 0
        /\ wire[c] = "request" /\ wire'[c] = "none"
        /\ UNCHANGED <<call, fault>>
    BY <1>2 DEF Accept, TypeOK
  <2> QED
    BY <2>1 DEF TimeInv, Open, Active
<1>3. CASE Skip(c) \/ CheckErrs(c) \/ RunInProcess(c) \/ StartProcess(c) \/ EndProcess(c)
  <2>1. /\ Active(c) /\ Active(c)'
        /\ handler'[c].age = handler[c].age
        /\ UNCHANGED <<call, wire, fault>>
    <3>1. CASE Skip(c) \/ CheckErrs(c)
      <4>1. handler'[c] = [handler[c] EXCEPT !.next = @ + 1] /\ handler[c].state = "run"
        BY <3>1 DEF Skip, CheckErrs, AtRule, Running, TypeOK
      <4> QED
        BY <3>1, <4>1, AgeType DEF Skip, CheckErrs, Active, Handler
    <3>2. ASSUME NEW passed \in BOOLEAN, TakeResult(c, passed), Active(c)
          PROVE  <2>1
      BY <3>2, AgeType DEF TakeResult, Active, TypeOK, Handler
    <3>3. CASE StartProcess(c) /\ ~Cancelled(c)
      <4>1. /\ handler'[c] = [handler[c] EXCEPT !.state = "exec", !.spent = 0]
            /\ handler[c].state = "run"
        BY <3>3 DEF StartProcess, AtRule, Running, TypeOK
      <4> QED
        BY <3>3, <4>1, AgeType DEF StartProcess, Active, Handler
    <3> QED
      BY <1>3, <3>1, <3>2, <3>3
         DEF RunInProcess, StartProcess, EndProcess, AtRule, Running, Active
  <2> QED
    BY <2>1 DEF TimeInv, Open
<1>4. CASE Respond(c)
  <2>1. /\ handler'[c].state = "done" /\ Active(c)
        /\ wire'[c] = CASE ~Open(c) -> "none"
                         [] Open(c) /\ handler[c].age >= WriteTimeout -> "cut"
                         [] OTHER -> "answer"
        /\ UNCHANGED <<call, fault>>
    BY <1>4, AgeType DEF Respond, Running, Active, TypeOK, Handler
  <2>2. Open(c) /\ fault[c] = {} => ~(handler[c].age >= WriteTimeout)
    BY <2>1, AgeType DEF TimeInv
  <2> QED
    BY <2>1, <2>2 DEF TimeInv, Open, Active
<1> QED
  BY <1>1, <1>2, <1>3, <1>4 DEF Serve

LEMMA StepTime ==
    ASSUME TypeOK, \A c \in Calls : CallInv(c) /\ TimeInv(c), [Next]_vars
    PROVE  \A d \in Calls : TimeInv(d)'
<1> TAKE d \in Calls
<1>1. CASE \E c \in Calls : Client(c) \/ Serve(c) \/ Lose(c)
  <2> PICK c \in Calls : Client(c) \/ Serve(c) \/ Lose(c)
    BY <1>1
  <2>1. CASE c # d
    BY <2>1, OtherCalls, TimeFrame
  <2>2. CASE c = d /\ Lose(c)
    <3>1. fault'[d] # {} /\ UNCHANGED call
      BY <2>2 DEF Lose, Blame, TypeOK
    <3> QED
      BY <3>1 DEF TimeInv
  <2> QED
    BY <2>1, <2>2, ClientTime, ServeTime
<1>2. CASE Crash
  <2>1. CASE Active(d)
    <3>1. fault'[d] # {} /\ UNCHANGED call
      BY <1>2, <2>1 DEF Crash
    <3> QED
      BY <3>1 DEF TimeInv
  <2>2. CASE ~Active(d)
    <3>1. handler'[d] = [handler[d] EXCEPT !.state = handler[d].state]
      BY <1>2, <2>2 DEF Crash
    <3>2. handler'[d] = handler[d]
      BY <3>1, AgeType DEF Handler
    <3>3. UNCHANGED call /\ wire'[d] = wire[d] /\ fault'[d] = fault[d]
      BY <1>2, <2>2 DEF Crash
    <3> QED
      BY <3>2, <3>3, TimeFrame
  <2> QED
    BY <2>1, <2>2
<1>3. CASE Restart \/ UNCHANGED vars
  BY <1>3, TimeFrame DEF Restart, vars
<1>4. CASE Tick
  <2>1. /\ call'[d].state = call[d].state
        /\ call'[d].age = IF Open(d) THEN call[d].age + 1 ELSE call[d].age
    BY <1>4, AgeType DEF Tick, TypeOK, Call
  <2>2. /\ handler'[d].state = handler[d].state
        /\ handler'[d].age = IF Active(d) THEN handler[d].age + 1 ELSE handler[d].age
    <3>1. handler'[d] = [handler[d] EXCEPT !.age = IF Active(d) THEN @ + 1 ELSE @,
                                           !.spent = IF Active(d) THEN @ + 1 ELSE @]
      BY <1>4 DEF Tick
    <3> QED
      BY <3>1, AgeType DEF Handler
  <2>3. /\ fault[d] \subseteq fault'[d]
        /\ Open(d) /\ fault'[d] = {} => wire[d] = "none"
        /\ Active(d) /\ fault'[d] = {} => ~Expired(d)
        /\ UNCHANGED wire
    BY <1>4 DEF Tick
  <2>4. ASSUME Open(d), fault'[d] = {}
        PROVE  /\ wire[d] = "none"
               /\ Active(d)
               /\ handler[d].age = call[d].age
               /\ call[d].age + 1 <= ServerDeadline
    <3>1. wire[d] = "none" /\ fault[d] = {} /\ Active(d)
      BY <2>3, <2>4 DEF TimeInv
    <3>2. handler[d].age = call[d].age /\ ~(handler[d].age >= ServerDeadline)
      BY <2>3, <2>4, <3>1 DEF TimeInv, Expired, Cancelled
    <3> QED
      BY <3>1, <3>2, AgeType
  <2> QED
    BY <2>1, <2>2, <2>3, <2>4 DEF TimeInv, Open, Active
<1> QED
  BY <1>1, <1>2, <1>3, <1>4 DEF Next

(* A client is told of an error after a fault, or because it would wait no *)
(* longer than a server may take.                                          *)
LEMMA StepCause ==
    ASSUME TypeOK, \A c \in Calls : CallInv(c) /\ TimeInv(c), ErrorHasCause, [Next]_vars
    PROVE  ErrorHasCause'
<1> SUFFICES ASSUME NEW d \in Calls, call'[d].state = "error"
             PROVE  fault'[d] # {} \/ call'[d].timeout <= ServerDeadline
  BY DEF ErrorHasCause
<1>1. ASSUME call[d].state = "error", call'[d].timeout = call[d].timeout,
             fault[d] \subseteq fault'[d]
      PROVE  fault'[d] # {} \/ call'[d].timeout <= ServerDeadline
  BY <1>1 DEF ErrorHasCause
<1>2. CASE \E c \in Calls : Client(c) \/ Serve(c) \/ Lose(c)
  <2> PICK c \in Calls : Client(c) \/ Serve(c) \/ Lose(c)
    BY <1>2
  <2>1. CASE c # d
    BY <2>1, <1>1, OtherCalls
  <2>2. CASE c = d /\ (Serve(c) \/ Lose(c))
    <3>1. UNCHANGED call
      BY <2>2 DEF Lose, Serve, Reject, Accept, Skip, CheckErrs, RunInProcess, StartProcess,
                  EndProcess, Respond, TakeResult
    <3>2. fault[d] \subseteq fault'[d]
      <4>1. CASE Reject(c) \/ Lose(c)
        BY <2>2, <4>1 DEF Lose, Reject, Blame, TypeOK
      <4>2. CASE ~Reject(c) /\ ~Lose(c)
        BY <2>2, <4>2 DEF Serve, Accept, Skip, CheckErrs, RunInProcess, StartProcess,
                          EndProcess, Respond, TakeResult
      <4> QED
        BY <4>1, <4>2
    <3> QED
      BY <1>1, <3>1, <3>2
  <2>3. CASE c = d /\ Evaluate(c)
    BY <2>3, AgeType DEF Evaluate, TypeOK, Call
  <2>4. CASE c = d /\ Receive(c)
    <3>1. wire[d] \in {"refusal", "cut"} /\ UNCHANGED fault
      BY <2>4, AgeType DEF Receive, Succeeded, Return, TypeOK, Call
    <3> QED
      BY <3>1 DEF TimeInv
  <2>5. CASE c = d /\ Refused(c)
    BY <2>5 DEF Refused, Blame, TypeOK
  <2>6. CASE c = d /\ Timeout(c)
    <3>1. /\ Open(d) /\ call[d].age >= call[d].timeout
          /\ call'[d].timeout = call[d].timeout
          /\ UNCHANGED fault
      BY <2>6, AgeType DEF Timeout, Return, TypeOK, Call
    <3>2. fault[d] = {} => call[d].age <= ServerDeadline
      BY <3>1 DEF TimeInv
    <3> QED
      BY <3>1, <3>2, AgeType
  <2>7. CASE c = d /\ Audit(c)
    BY <2>7, <1>1 DEF Audit
  <2> QED
    BY <2>1, <2>2, <2>3, <2>4, <2>5, <2>6, <2>7 DEF Client
<1>3. CASE Crash \/ Restart \/ UNCHANGED vars
  BY <1>1, <1>3 DEF Crash, Restart, vars
<1>4. CASE Tick
  <2>1. call'[d] = [call[d] EXCEPT !.age = IF Open(d) THEN @ + 1 ELSE @]
    BY <1>4 DEF Tick
  <2>2. call'[d].state = call[d].state /\ call'[d].timeout = call[d].timeout
    BY <2>1, AgeType DEF Call
  <2>3. fault[d] \subseteq fault'[d]
    BY <1>4 DEF Tick
  <2> QED
    BY <1>1, <2>2, <2>3
<1> QED
  BY <1>2, <1>3, <1>4 DEF Next

-----------------------------------------------------------------------------
(* The log. *)

LEMMA NoElements == ToSet(<<>>) = {}
BY DEF ToSet

LEMMA TakeResultLog ==
    ASSUME TypeOK, NEW c \in Calls, NEW passed \in BOOLEAN, TakeResult(c, passed),
           LoopInv(c), LogInv, handler[c].next <= Len(handler[c].policy)
    PROVE  LogInv'
<1> DEFINE new == [call |-> c, id |-> Rule(c).id, passed |-> passed, by |-> "server"]
<1>1. /\ Rule(c).id \in Ids
      /\ outcome[c][Rule(c).id] = "none"
  BY RuleType, Policy DEF Rule, LoopInv, ServerRule
<1>2. log' = log \cup {new}
  BY DEF TakeResult, LogVerdict
<1>3. ASSUME NEW d \in Calls, NEW v \in ToSet(handler'[d].results)
      PROVE  [call |-> d, id |-> v.id, passed |-> v.passed, by |-> "server"] \in log'
  <2>1. CASE d # c
    BY <1>2, <1>3, <2>1 DEF TakeResult, TypeOK, LogInv
  <2>2. CASE d = c
    <3>1. handler'[c].results = Append(handler[c].results, [id |-> Rule(c).id, passed |-> passed])
      BY Policy DEF TakeResult, TypeOK, Handler
    <3>2. v \in ToSet(handler[c].results) \/ v = [id |-> Rule(c).id, passed |-> passed]
      BY <1>3, <2>2, <3>1, Policy DEF ToSet
    <3> QED
      BY <1>2, <2>2, <3>2 DEF LogInv
  <2> QED
    BY <2>1, <2>2
<1>4. ASSUME NEW x \in log'
      PROVE  outcome'[x.call][x.id] = Word(x.passed)
  <2>1. CASE x = new
    BY <1>1, <2>1 DEF TakeResult, TypeOK, Word
  <2>2. CASE x \in log
    <3>1. x.call \in Calls /\ x.id \in Ids /\ outcome[x.call][x.id] = Word(x.passed)
      BY <2>2 DEF TypeOK, Record, LogInv
    <3>2. ~(x.call = c /\ x.id = Rule(c).id)
      BY <1>1, <3>1 DEF Word
    <3>3. outcome'[x.call][x.id] = outcome[x.call][x.id]
      BY <3>1, <3>2, <1>1 DEF TakeResult, TypeOK
    <3> QED
      BY <3>1, <3>3
  <2> QED
    BY <1>2, <1>4, <2>1, <2>2
<1> QED
  BY <1>3, <1>4 DEF LogInv

LEMMA LogFrame ==
    ASSUME LogInv, log' = log, outcome' = outcome,
           \A d \in Calls : handler'[d].results \in {handler[d].results, <<>>}
    PROVE  LogInv'
BY DEF LogInv, ToSet

LEMMA StepLog ==
    ASSUME TypeOK, \A c \in Calls : CallInv(c) /\ LoopInv(c), LogInv, [Next]_vars
    PROVE  LogInv'
<1>1. ASSUME NEW c \in Calls, Client(c)
      PROVE  LogInv'
  <2>1. CASE Audit(c)
    <3>1. call[c].results = handler[c].results
      BY <2>1 DEF Audit, CallInv
    <3>2. \A x \in log' : x \in log \/ \E y \in log : x.call = y.call /\ x.id = y.id
                                                    /\ x.passed = y.passed
      <4> TAKE x \in log'
      <4>1. CASE \E v \in ToSet(call[c].results) :
                    x = [call |-> c, id |-> v.id, passed |-> v.passed, by |-> "client"]
        <5> PICK v \in ToSet(call[c].results) :
                   x = [call |-> c, id |-> v.id, passed |-> v.passed, by |-> "client"]
          BY <4>1
        <5> DEFINE y == [call |-> c, id |-> v.id, passed |-> v.passed, by |-> "server"]
        <5>1. y \in log
          BY <3>1 DEF LogInv
        <5>2. x.call = y.call /\ x.id = y.id /\ x.passed = y.passed
          OBVIOUS
        <5> QED
          BY <5>1, <5>2
      <4> QED
        BY <2>1, <4>1 DEF Audit
    <3> QED
      BY <2>1, <3>2 DEF Audit, LogInv
  <2>2. CASE ~Audit(c)
    BY <1>1, <2>2, LogFrame DEF Client, Evaluate, Receive, Refused, Timeout
  <2> QED
    BY <2>1, <2>2
<1>2. ASSUME NEW c \in Calls, Serve(c)
      PROVE  LogInv'
  <2>1. CASE Reject(c)
    BY <2>1, LogFrame DEF Reject
  <2>2. CASE Accept(c) \/ Skip(c) \/ Respond(c) \/ (StartProcess(c) /\ ~Cancelled(c))
    <3>1. \A d \in Calls : handler'[d].results \in {handler[d].results, <<>>}
      <4> TAKE d \in Calls
      <4>1. CASE d # c
        BY <2>2, <4>1 DEF Accept, Skip, Respond, StartProcess, TypeOK
      <4>2. CASE d = c /\ Accept(c)
        BY <4>2 DEF Accept, TypeOK
      <4>3. CASE d = c /\ ~Accept(c)
        <5>1. \/ handler'[c] = [handler[c] EXCEPT !.next = @ + 1]
              \/ handler'[c] = [handler[c] EXCEPT !.state = "done"]
              \/ handler'[c] = [handler[c] EXCEPT !.state = "exec", !.spent = 0]
          BY <2>2, <4>3 DEF Skip, Respond, StartProcess, TypeOK
        <5>2. handler'[c].results = handler[c].results
          BY <5>1, Policy DEF Handler
        <5> QED
          BY <4>3, <5>2
      <4> QED
        BY <4>1, <4>2, <4>3
    <3> QED
      BY <2>2, <3>1, LogFrame DEF Accept, Skip, Respond, StartProcess
  <2>3. CASE CheckErrs(c)
    <3>1. \A d \in Calls : handler'[d].results = handler[d].results
      BY <2>3, Policy DEF CheckErrs, TypeOK, Handler
    <3>2. Rule(c).id \in Ids /\ outcome[c][Rule(c).id] = "none"
      BY <2>3, RuleType, Policy, SMTT(30) DEF CheckErrs, AtRule, Rule, LoopInv, ServerRule
    <3>3. ASSUME NEW x \in log
          PROVE  outcome'[x.call][x.id] = Word(x.passed)
      <4>1. x.call \in Calls /\ x.id \in Ids /\ outcome[x.call][x.id] = Word(x.passed)
        BY DEF TypeOK, Record, LogInv
      <4>2. ~(x.call = c /\ x.id = Rule(c).id)
        BY <3>2, <4>1 DEF Word
      <4> QED
        BY <2>3, <3>2, <4>1, <4>2 DEF CheckErrs, TypeOK
    <3> QED
      BY <2>3, <3>1, <3>3 DEF CheckErrs, LogInv
  <2>4. CASE \E passed \in BOOLEAN : TakeResult(c, passed) /\ (AtRule(c) \/ EndProcess(c))
    BY <2>4, TakeResultLog DEF AtRule, EndProcess, CallInv
  <2> QED
    BY <1>2, <2>1, <2>2, <2>3, <2>4 DEF Serve, RunInProcess, StartProcess, EndProcess
<1>3. CASE \E c \in Calls : Lose(c)
  BY <1>3, LogFrame DEF Lose
<1>4. CASE Crash
  <2>1. \A d \in Calls :
           handler'[d] = [handler[d] EXCEPT !.state = IF Active(d) THEN "none" ELSE @]
    BY <1>4 DEF Crash
  <2> QED
    BY <1>4, <2>1, Policy, LogFrame DEF Crash, Handler
<1>5. CASE Restart \/ UNCHANGED vars
  BY <1>5, LogFrame DEF Restart, vars
<1>6. CASE Tick
  <2>1. \A d \in Calls :
           handler'[d] = [handler[d] EXCEPT !.age = IF Active(d) THEN @ + 1 ELSE @,
                                            !.spent = IF Active(d) THEN @ + 1 ELSE @]
    BY <1>6 DEF Tick
  <2> QED
    BY <1>6, <2>1, Policy, LogFrame DEF Tick, Handler
<1> QED
  BY <1>1, <1>2, <1>3, <1>4, <1>5, <1>6 DEF Next

-----------------------------------------------------------------------------
(* The invariant holds from the start and every step keeps it. *)

LEMMA InitInv == Init => IInv
<1> SUFFICES ASSUME Init PROVE IInv
  OBVIOUS
<1>1. TypeOK
  BY InitType
<1>2. ASSUME NEW c \in Calls
      PROVE  /\ handler[c].state = "none" /\ handler[c].next = 1 /\ handler[c].results = <<>>
             /\ call[c].state = "idle" /\ call[c].age = 0 /\ call[c].results = <<>>
             /\ wire[c] = "none"
             /\ \A id \in Ids : outcome[c][id] = "none"
  BY DEF Init
<1>3. \A c \in Calls : Len(handler[c].policy) \in Nat
  BY <1>1, Policy
<1>4. \A c \in Calls : CallInv(c) /\ TimeInv(c)
  BY <1>2, <1>3 DEF CallInv, TimeInv, Open
<1>5. \A c \in Calls : LoopInv(c)
  BY <1>1, <1>2, Policy DEF LoopInv
<1>6. ErrorHasCause
  BY <1>2 DEF ErrorHasCause
<1>7. LogInv
  BY <1>2 DEF Init, LogInv, ToSet
<1> QED
  BY <1>1, <1>4, <1>5, <1>6, <1>7 DEF IInv

LEMMA StepInv == IInv /\ [Next]_vars => IInv'
<1> SUFFICES ASSUME IInv, [Next]_vars PROVE IInv'
  OBVIOUS
<1>1. TypeOK'
  BY StepType DEF IInv
<1>2. \A c \in Calls : CallInv(c)'
  BY StepCall DEF IInv
<1>3. \A c \in Calls : LoopInv(c)'
  BY <1>1, StepLoop DEF IInv
<1>4. \A c \in Calls : TimeInv(c)'
  BY StepTime DEF IInv
<1>5. ErrorHasCause'
  BY StepCause DEF IInv
<1>6. LogInv'
  BY StepLog DEF IInv
<1> QED
  BY <1>1, <1>2, <1>3, <1>4, <1>5, <1>6 DEF IInv

(* The invariant of both sides of every call: where a request is, how far  *)
(* its handler has come, how old it may be, and what the log says of it.   *)
THEOREM Invariance == Spec => []IInv
BY InitInv, StepInv, PTL DEF Spec

(* What clients, server, wire and log hold is always well-formed. *)
THEOREM TypeCorrect == Spec => []TypeOK
<1>1. IInv => TypeOK
  BY DEF IInv
<1> QED
  BY <1>1, Invariance, PTL

(* An answer has the verdict of every requested and enabled rule of the    *)
(* policy that served it, in its order, but for checks that erred, and of  *)
(* no other rule: handleEvaluate's loop, whatever policies the server is   *)
(* started with in between.                                                *)
THEOREM AnswersComplete == Spec => []AnswerComplete
<1>1. IInv => AnswerComplete
  <2> SUFFICES ASSUME IInv, NEW c \in Calls, call[c].state = "ok"
               PROVE  LET served == handler[c].policy
                          results == call[c].results
                      IN  /\ \A i \in DOMAIN served :
                                Wanted(c, served[i]) /\ outcome[c][served[i].id] # "error" =>
                                    \E k \in DOMAIN results : results[k].id = served[i].id
                          /\ \A k \in DOMAIN results : \E i \in DOMAIN served :
                                /\ Wanted(c, served[i])
                                /\ results[k].id = served[i].id
                                /\ outcome[c][served[i].id] =
                                      IF results[k].passed THEN "pass" ELSE "fail"
                          /\ \A k, l \in DOMAIN results : \A i, j \in DOMAIN served :
                                k < l /\ results[k].id = served[i].id
                                      /\ results[l].id = served[j].id => i < j
    BY DEF AnswerComplete
  <2>1. call[c].results = handler[c].results /\ handler[c].next = Len(handler[c].policy) + 1
    BY DEF IInv, CallInv
  <2>2. \A i \in DOMAIN handler[c].policy : i < handler[c].next
    BY <2>1, Policy DEF IInv
  <2> QED
    BY <2>1, <2>2 DEF IInv, LoopInv, Word
<1> QED
  BY <1>1, Invariance, PTL

(* A client that waits longer than the server may take gets an error only  *)
(* after a fault: the 25 s of a request's context hold for all its checks  *)
(* together, and end before the connection's 30 s.                         *)
THEOREM ErrorsHaveCauses == Spec => []ErrorHasCause
<1>1. IInv => ErrorHasCause
  BY DEF IInv
<1> QED
  BY <1>1, Invariance, PTL

(* The log has every verdict a client was given or is about to be, and     *)
(* never two verdicts of one rule for one call.                            *)
THEOREM EveryVerdictLogged == Spec => []VerdictsLogged
<1>1. IInv => VerdictsLogged
  <2> SUFFICES ASSUME IInv PROVE VerdictsLogged
    OBVIOUS
  <2>1. \A c \in Calls : call[c].results \in {handler[c].results, <<>>}
    BY DEF IInv, CallInv
  <2>2. \A c \in Calls : \A v \in ToSet(handler[c].results) \cup ToSet(call[c].results) :
           [call |-> c, id |-> v.id, passed |-> v.passed, by |-> "server"] \in log
    BY <2>1, NoElements DEF IInv, LogInv
  <2>3. \A x, y \in log : x.call = y.call /\ x.id = y.id => x.passed = y.passed
    BY DEF IInv, LogInv, Word, TypeOK, Record
  <2> QED
    BY <2>2, <2>3 DEF VerdictsLogged
<1> QED
  BY <1>1, Invariance, PTL

(* Under the fallback deny an action that goes on was answered for, with   *)
(* no requested rule of the serving policy failed; under the others only a *)
(* failed verdict blocks (ApplyFallback).                                  *)
THEOREM DenyClosed == Spec => []DenyFailsClosed
<1>1. IInv => DenyFailsClosed
  <2> SUFFICES ASSUME IInv, NEW c \in Calls, call[c].state \in {"ok", "error"}
               PROVE  /\ ~Blocked(c, "deny") =>
                             \A i \in DOMAIN handler[c].policy :
                                Wanted(c, handler[c].policy[i]) =>
                                   outcome[c][handler[c].policy[i].id] \in {"pass", "error"}
                      /\ \A s \in {"allow", "local-only", ""} :
                            Blocked(c, s) => \E i \in Ids : outcome[c][i] = "fail"
    BY DEF DenyFailsClosed
  <2>1. call[c].results \in {handler[c].results, <<>>}
    BY DEF IInv, CallInv
  <2>2. ASSUME ~Blocked(c, "deny"), NEW i \in DOMAIN handler[c].policy,
               Wanted(c, handler[c].policy[i]),
               outcome[c][handler[c].policy[i].id] # "error"
        PROVE  outcome[c][handler[c].policy[i].id] = "pass"
    <3>1. call[c].state = "ok"
      BY <2>2 DEF Blocked, ApplyFallback
    <3>2. call[c].results = handler[c].results /\ handler[c].next = Len(handler[c].policy) + 1
      BY <3>1 DEF IInv, CallInv
    <3>3. i < handler[c].next
      BY <3>2, Policy DEF IInv
    <3>4. PICK k \in DOMAIN handler[c].results :
                 handler[c].results[k].id = handler[c].policy[i].id
      BY <2>2, <3>3 DEF IInv, LoopInv
    <3>5. handler[c].results[k].passed
      BY <2>2, <3>2 DEF Blocked, ToSet
    <3> QED
      BY <3>4, <3>5 DEF IInv, LoopInv, Word
  <2>3. ASSUME NEW s \in {"allow", "local-only", ""}, Blocked(c, s)
        PROVE  \E i \in Ids : outcome[c][i] = "fail"
    <3>1. PICK v \in ToSet(call[c].results) : ~v.passed
      BY <2>3 DEF Blocked, ApplyFallback
    <3>2. v \in ToSet(handler[c].results)
      BY <2>1, <3>1, NoElements
    <3>3. PICK k \in DOMAIN handler[c].results : v = handler[c].results[k]
      BY <3>2 DEF ToSet
    <3>4. PICK i \in DOMAIN handler[c].policy :
                 outcome[c][handler[c].policy[i].id] = Word(v.passed)
      BY <3>3 DEF IInv, LoopInv
    <3> QED
      BY <3>1, <3>4, Policy DEF IInv, Word
  <2> QED
    BY <2>2, <2>3
<1> QED
  BY <1>1, Invariance, PTL
=============================================================================
