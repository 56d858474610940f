------------------------------- MODULE Remote -------------------------------
(***************************************************************************)
(* The remote service: the client of internal/remote and the server of     *)
(* internal/server and cmd/constitutiond.  A call is one hook process that *)
(* has its remote rules evaluated; the server runs each request in a       *)
(* goroutine of its own, reads its policy and token only when it starts,   *)
(* and is stopped without waiting for the requests it is working on.       *)
(*                                                                         *)
(* Time is the age of a call or a request.  In-process steps take none;    *)
(* a check that runs a process takes any, and one whose context is over is *)
(* killed but may be kept waiting by descendants that hold its output,     *)
(* after which the verdict is still that of the process itself.            *)
(* Only the verdict of a result matters here, not its message or severity. *)
(***************************************************************************)
EXTENDS Naturals, Sequences, SequencesExt

CONSTANTS
    Calls,          \* hook processes with remote rules
    Ids,            \* identifiers of rules
    Tokens,         \* bearer tokens
    NoToken,        \* no token configured
    Policies,       \* the rules a server may be started with
    Timeouts,       \* timeouts a client may be configured with
    ServerDeadline, \* the 25 s of a request's context
    WriteTimeout,   \* the 30 s after which a response can no longer be sent
    CheckTimeout,   \* a process check's own timeout
    MaxAge,         \* bound: the longest a request can be kept waiting
    MaxRestarts     \* bound: how often the server is started again

(* "command" stands for cmd_check and linter, whose process failing fails  *)
(* the rule, "scan" for secret_yelp and repo_access, which pass when theirs *)
(* does, and "cel" for every check that runs no process, those four        *)
(* included when they see from the input that there is nothing to run.     *)
ServerRule == [id : Ids, enabled : BOOLEAN, check : {"cel", "command", "scan"}]

(* The one file constitutiond loads: no id occurs twice.                   *)
ASSUME PoliciesAssumption ==
    \A p \in Policies : /\ p \in Seq(ServerRule)
                        /\ \A i, j \in DOMAIN p : p[i].id = p[j].id => i = j
ASSUME TimeoutsAssumption == Timeouts \subseteq Nat \ {0}
ASSUME DeadlinesAssumption ==
    /\ ServerDeadline \in Nat \ {0}
    /\ WriteTimeout \in Nat
    /\ ServerDeadline < WriteTimeout
    /\ CheckTimeout \in Nat \ {0}
ASSUME BoundsAssumption == MaxAge \in Nat /\ MaxRestarts \in Nat

VARIABLES
    server,     \* whether constitutiond runs, its policy and its token
    call,       \* each client: its request, its age, what Evaluate returned
    handler,    \* each request in the server: its loop over the policy
    wire,       \* what is in flight between the two
    log,        \* the audit records in the server's log
    restarts,   \* how often the server was started again
    outcome,    \* history: what became of each rule's check in a request
    fault       \* history: what went wrong for a call

vars == <<server, call, handler, wire, log, restarts, outcome, fault>>

Verdict == [id : Ids, passed : BOOLEAN]
Outcomes == {"none", "pass", "fail", "error"}
Faults == {"network", "down", "token", "killed", "overrun"}

Server == [up : BOOLEAN, policy : Policies, token : Tokens \cup {NoToken}]
Call == [state : {"idle", "open", "ok", "error"}, ids : SUBSET Ids,
         token : Tokens \cup {NoToken}, timeout : Timeouts, age : Nat,
         results : Seq(Verdict)]
Handler == [state : {"none", "run", "exec", "done"}, policy : Policies,
            next : Nat \ {0}, results : Seq(Verdict), age : Nat, spent : Nat]
Record == [call : Calls, id : Ids, passed : BOOLEAN, by : {"server", "client"}]

TypeOK ==
    /\ server \in Server
    /\ call \in [Calls -> Call]
    /\ handler \in [Calls -> Handler]
    /\ wire \in [Calls -> {"none", "request", "answer", "refusal", "cut"}]
    /\ log \subseteq Record
    /\ restarts \in Nat
    /\ outcome \in [Calls -> [Ids -> Outcomes]]
    /\ fault \in [Calls -> SUBSET Faults]

Init ==
    /\ server \in [up : {TRUE}, policy : Policies, token : Tokens \cup {NoToken}]
    /\ call \in [Calls -> [state : {"idle"}, ids : {{}}, token : {NoToken},
                           timeout : Timeouts, age : {0}, results : {<<>>}]]
    /\ handler = [c \in Calls |->
                    [state |-> "none", policy |-> server.policy, next |-> 1,
                     results |-> <<>>, age |-> 0, spent |-> 0]]
    /\ wire = [c \in Calls |-> "none"]
    /\ log = {}
    /\ restarts = 0
    /\ outcome = [c \in Calls |-> [i \in Ids |-> "none"]]
    /\ fault = [c \in Calls |-> {}]

-----------------------------------------------------------------------------
(* Helpers. *)

Open(c)   == call[c].state = "open"
Active(c) == handler[c].state \in {"run", "exec"}
Running(c) == handler[c].state = "run" /\ server.up
Rule(c)   == handler[c].policy[handler[c].next]
AtRule(c) == Running(c) /\ handler[c].next <= Len(handler[c].policy)

Wanted(c, r) == r.id \in call[c].ids /\ r.enabled

(* authMiddleware: a server without a token lets everybody in. *)
Authorized(token) == server.token \in {NoToken, token}

(* Mutant: every check gets the 25 s anew. *)
CancelledPerCheck(c) == ~Open(c) \/ handler[c].spent >= ServerDeadline

(* The context of the request, which net/http ends when the client leaves. *)
Cancelled(c) == ~Open(c) \/ handler[c].age >= ServerDeadline

Expired(c) == Cancelled(c) \/ handler[c].spent >= CheckTimeout

Blame(c, what) == fault' = [fault EXCEPT ![c] = @ \cup {what}]

-----------------------------------------------------------------------------
(* The client. *)

(* RemoteRuleIDs of the remote rules FilterRemoteRules finds, in a request *)
(* with the token and timeout NewClient chose.                             *)
Evaluate(c) ==
    /\ call[c].state = "idle"
    /\ \E ids \in SUBSET Ids, token \in Tokens \cup {NoToken} :
          call' = [call EXCEPT ![c].state = "open", ![c].ids = ids, ![c].token = token]
    /\ wire' = [wire EXCEPT ![c] = "request"]
    /\ UNCHANGED <<server, handler, log, restarts, outcome, fault>>

Return(c, state, results) ==
    call' = [call EXCEPT ![c].state = state, ![c].results = results]

(* Mutant: the status code is not looked at.  The body of a refusal parses *)
(* as a response without results.                                          *)
Whole(w) == w \in {"answer", "refusal"}

(* A response that is read to its end and has status 200. *)
Succeeded(w) == w = "answer"

Receive(c) ==
    /\ Open(c)
    /\ wire[c] \in {"answer", "refusal", "cut"}
    /\ IF Succeeded(wire[c])
       THEN Return(c, "ok", IF wire[c] = "answer" THEN handler[c].results ELSE <<>>)
       ELSE Return(c, "error", <<>>)
    /\ wire' = [wire EXCEPT ![c] = "none"]
    /\ UNCHANGED <<server, handler, log, restarts, outcome, fault>>

(* Nobody listens: the connection is refused. *)
Refused(c) ==
    /\ Open(c)
    /\ wire[c] = "request"
    /\ ~server.up
    /\ Return(c, "error", <<>>)
    /\ wire' = [wire EXCEPT ![c] = "none"]
    /\ Blame(c, "down")
    /\ UNCHANGED <<server, handler, log, restarts, outcome>>

(* Mutant: the timeout is that of reaching the server. *)
TimeoutOfDial(c) ==
    /\ Open(c)
    /\ wire[c] = "request"
    /\ call[c].age >= call[c].timeout
    /\ Return(c, "error", <<>>)
    /\ UNCHANGED <<server, handler, wire, log, restarts, outcome, fault>>

(* The client's context is over; a request on its way may still arrive. *)
Timeout(c) ==
    /\ Open(c)
    /\ call[c].age >= call[c].timeout
    /\ Return(c, "error", <<>>)
    /\ UNCHANGED <<server, handler, wire, log, restarts, outcome, fault>>

(* Audit and handleAudit: what the client was told is logged once more.  A *)
(* record that does not arrive is not missed by the client.                *)
Audit(c) ==
    /\ call[c].state = "ok"
    /\ server.up
    /\ Authorized(call[c].token)
    /\ log' = log \cup {[call |-> c, id |-> v.id, passed |-> v.passed, by |-> "client"] :
                           v \in ToSet(call[c].results)}
    /\ UNCHANGED <<server, call, handler, wire, restarts, outcome, fault>>

(* Mutant: the strategies are spelt another way. *)
CapitalDeny(strategy) == strategy = "Deny"

(* What a strategy makes of an error: whether to block. *)
ApplyFallback(strategy) == strategy = "deny"

-----------------------------------------------------------------------------
(* The server. *)

Reject(c) ==
    /\ wire[c] = "request"
    /\ server.up
    /\ ~Authorized(call[c].token)
    /\ wire' = [wire EXCEPT ![c] = IF Open(c) THEN "refusal" ELSE "none"]
    /\ Blame(c, "token")
    /\ UNCHANGED <<server, call, handler, log, restarts, outcome>>

Accept(c) ==
    /\ wire[c] = "request"
    /\ server.up
    /\ Authorized(call[c].token)
    /\ wire' = [wire EXCEPT ![c] = "none"]
    /\ handler' = [handler EXCEPT ![c] =
                     [state |-> "run", policy |-> server.policy, next |-> 1,
                      results |-> <<>>, age |-> 0, spent |-> 0]]
    /\ UNCHANGED <<server, call, log, restarts, outcome, fault>>

(* Mutant: the loop goes on with the same rule. *)
SkipInPlace(c) ==
    /\ AtRule(c)
    /\ ~Wanted(c, Rule(c))
    /\ UNCHANGED vars

Skip(c) ==
    /\ AtRule(c)
    /\ ~Wanted(c, Rule(c))
    /\ handler' = [handler EXCEPT ![c].next = @ + 1]
    /\ UNCHANGED <<server, call, wire, log, restarts, outcome, fault>>

(* Get, Init or Execute returns an error: the rule is left out. *)
CheckErrs(c) ==
    /\ AtRule(c)
    /\ Wanted(c, Rule(c))
    /\ outcome' = [outcome EXCEPT ![c][Rule(c).id] = "error"]
    /\ handler' = [handler EXCEPT ![c].next = @ + 1]
    /\ UNCHANGED <<server, call, wire, log, restarts, fault>>

(* Mutant: a passing rule is not worth a record. *)
LogFailure(c, passed) ==
    log' = IF passed THEN log
           ELSE log \cup {[call |-> c, id |-> Rule(c).id, passed |-> FALSE, by |-> "server"]}

(* Mutant: the record is labelled with the name of another. *)
LogRequest(c, passed) ==
    log' = log \cup {[call |-> c, id |-> Rule(c).id, passed |-> passed, by |-> "request"]}

LogVerdict(c, passed) ==
    log' = log \cup {[call |-> c, id |-> Rule(c).id, passed |-> passed, by |-> "server"]}

(* Execute returned a result, which is appended and logged. *)
TakeResult(c, passed) ==
    /\ outcome' = [outcome EXCEPT ![c][Rule(c).id] = IF passed THEN "pass" ELSE "fail"]
    /\ handler' = [handler EXCEPT
                     ![c].state = "run",
                     ![c].next = @ + 1,
                     ![c].results = Append(@, [id |-> Rule(c).id, passed |-> passed])]
    /\ LogVerdict(c, passed)
    /\ UNCHANGED <<server, call, wire, restarts, fault>>

RunInProcess(c) ==
    /\ AtRule(c)
    /\ Wanted(c, Rule(c))
    /\ Rule(c).check = "cel"
    /\ \E passed \in BOOLEAN : TakeResult(c, passed)

(* A process is not started under a context that is over: a command then   *)
(* fails, and a scan finds nothing.                                        *)
StartProcess(c) ==
    /\ AtRule(c)
    /\ Wanted(c, Rule(c))
    /\ Rule(c).check \in {"command", "scan"}
    /\ IF Cancelled(c)
       THEN TakeResult(c, Rule(c).check = "scan")
       ELSE /\ handler' = [handler EXCEPT ![c].state = "exec", ![c].spent = 0]
            /\ UNCHANGED <<server, call, wire, log, restarts, outcome, fault>>

(* The process ended in time or was killed, long ago perhaps: a command    *)
(* passes or fails by its exit status, a scan that was killed passes.      *)
EndProcess(c) ==
    /\ handler[c].state = "exec"
    /\ server.up
    /\ \E passed \in BOOLEAN : TakeResult(c, passed)

(* Encode and flush, on a connection that is closed after WriteTimeout. *)
Respond(c) ==
    /\ Running(c)
    /\ handler[c].next > Len(handler[c].policy)
    /\ handler' = [handler EXCEPT ![c].state = "done"]
    /\ wire' = [wire EXCEPT ![c] = CASE ~Open(c) -> "none"
                                     [] Open(c) /\ handler[c].age >= WriteTimeout -> "cut"
                                     [] OTHER -> "answer"]
    /\ UNCHANGED <<server, call, log, restarts, outcome, fault>>

-----------------------------------------------------------------------------
(* The environment. *)

(* A message is lost, or the connection is reset. *)
Lose(c) ==
    /\ wire[c] \in {"request", "answer", "refusal"}
    /\ \E w \in {"none", "cut"} : wire' = [wire EXCEPT ![c] = w]
    /\ Blame(c, "network")
    /\ UNCHANGED <<server, call, handler, log, restarts, outcome>>

(* The process ends: a crash, or a signal, on which main returns at once.  *)
(* Requests in progress die with it, their clients told or not.            *)
Crash ==
    /\ server.up
    /\ server' = [server EXCEPT !.up = FALSE]
    /\ \E told \in SUBSET {c \in Calls : Active(c)} :
          wire' = [c \in Calls |-> IF c \in told THEN "cut" ELSE wire[c]]
    /\ handler' = [c \in Calls |-> [handler[c] EXCEPT
                                      !.state = IF Active(c) THEN "none" ELSE @]]
    /\ fault' = [c \in Calls |-> IF Active(c) THEN fault[c] \cup {"killed"} ELSE fault[c]]
    /\ UNCHANGED <<call, log, restarts, outcome>>

(* Started again, with another policy or token, as docs/REMOTE.md has it. *)
Restart ==
    /\ ~server.up
    /\ restarts < MaxRestarts
    /\ restarts' = restarts + 1
    /\ server' \in [up : {TRUE}, policy : Policies, token : Tokens \cup {NoToken}]
    /\ UNCHANGED <<call, handler, wire, log, outcome, fault>>

(* Time passes.  It waits for what is due: a client's timeout, a handler   *)
(* between two checks.  A message still in flight then was slow, a process *)
(* still there after its time is kept by descendants.                      *)
Tick ==
    /\ \E c \in Calls : Open(c) \/ Active(c)
    /\ \A c \in Calls : Open(c) => call[c].age < call[c].timeout
    /\ \A c \in Calls : Active(c) => handler[c].state = "exec" /\ handler[c].age < MaxAge
    /\ call' = [c \in Calls |-> [call[c] EXCEPT !.age = IF Open(c) THEN @ + 1 ELSE @]]
    /\ handler' = [c \in Calls |->
                     [handler[c] EXCEPT !.age = IF Active(c) THEN @ + 1 ELSE @,
                                        !.spent = IF Active(c) THEN @ + 1 ELSE @]]
    /\ fault' = [c \in Calls |->
                   fault[c] \cup (IF Open(c) /\ wire[c] # "none" THEN {"network"} ELSE {})
                            \cup (IF Active(c) /\ Expired(c) THEN {"overrun"} ELSE {})]
    /\ UNCHANGED <<server, wire, log, restarts, outcome>>

Client(c) == Evaluate(c) \/ Receive(c) \/ Refused(c) \/ Timeout(c) \/ Audit(c)

Serve(c) ==
    \/ Reject(c) \/ Accept(c) \/ Skip(c) \/ CheckErrs(c) \/ RunInProcess(c)
    \/ StartProcess(c) \/ EndProcess(c) \/ Respond(c)

Next ==
    \/ \E c \in Calls : Client(c) \/ Serve(c) \/ Lose(c)
    \/ Crash
    \/ Restart
    \/ Tick

(* Time goes on, timers fire and goroutines are scheduled; a message need  *)
(* not arrive and nobody need start the server again.                      *)
Fairness ==
    /\ WF_vars(Tick)
    /\ \A c \in Calls : /\ WF_vars(Timeout(c))
                        /\ WF_vars(Serve(c))

Spec == Init /\ [][Next]_vars /\ Fairness

-----------------------------------------------------------------------------
(* Properties. *)

(* An answer is all the server has to say: it holds the verdict of every   *)
(* requested, enabled rule of the policy that served it, in the policy's   *)
(* order, except of those whose check erred, and of no other rule.  The    *)
(* loop of handleEvaluate, and Evaluate's way with statuses and bodies     *)
(* that are not whole (client.go:92).                                     *)
AnswerComplete ==
    \A c \in Calls : call[c].state = "ok" =>
        LET served == handler[c].policy
            results == call[c].results
        IN  /\ \A i \in DOMAIN served :
                  Wanted(c, served[i]) /\ outcome[c][served[i].id] # "error" =>
                      \E k \in DOMAIN results : results[k].id = served[i].id
            /\ \A k \in DOMAIN results : \E i \in DOMAIN served :
                  /\ Wanted(c, served[i])
                  /\ results[k].id = served[i].id
                  /\ outcome[c][served[i].id] = IF results[k].passed THEN "pass" ELSE "fail"
            /\ \A k, l \in DOMAIN results : \A i, j \in DOMAIN served :
                  k < l /\ results[k].id = served[i].id /\ results[l].id = served[j].id
                      => i < j

(* A client whose timeout is above the server's deadline gets an error     *)
(* only if something failed: the 25 s are for the whole request, so that   *)
(* however many checks are slow, the answer is out before the connection's *)
(* 30 s (routes.go:51, server.go:51).                                      *)
ErrorHasCause ==
    \A c \in Calls : call[c].state = "error" =>
        fault[c] # {} \/ call[c].timeout <= ServerDeadline

(* Every verdict a client was given, or is about to be, is in the server's *)
(* log, and the log never contradicts itself about a call and a rule, not  *)
(* even by what a client adds (routes.go:85, handleAudit).                 *)
VerdictsLogged ==
    /\ \A c \in Calls : \A v \in ToSet(handler[c].results) \cup ToSet(call[c].results) :
          [call |-> c, id |-> v.id, passed |-> v.passed, by |-> "server"] \in log
    /\ \A x, y \in log : x.call = y.call /\ x.id = y.id => x.passed = y.passed

(* What a caller does that blocks on a failed verdict, and on an error as  *)
(* ApplyFallback says.                                                     *)
Blocked(c, strategy) ==
    \/ call[c].state = "error" /\ ApplyFallback(strategy)
    \/ \E v \in ToSet(call[c].results) : ~v.passed

(* Under the fallback deny an action goes on only if a server came to an   *)
(* end with every requested rule it had enabled, and none failed (one      *)
(* whose check erred does not count); under any other fallback only a      *)
(* failed verdict stops the action (fallback.go:8).                        *)
DenyFailsClosed ==
    \A c \in Calls : call[c].state \in {"ok", "error"} =>
        /\ ~Blocked(c, "deny") =>
              \A i \in DOMAIN handler[c].policy :
                 LET r == handler[c].policy[i]
                 IN  Wanted(c, r) => outcome[c][r.id] \in {"pass", "error"}
        /\ \A s \in {"allow", "local-only", ""} :
              Blocked(c, s) => \E i \in Ids : outcome[c][i] = "fail"

(* Every call ends, whatever is lost or crashes, and so does every request *)
(* the server took on, even if its client has left.                        *)
CallsEnd == \A c \in Calls : Open(c) ~> ~Open(c)
HandlersEnd == \A c \in Calls : Active(c) ~> ~Active(c)
=============================================================================
