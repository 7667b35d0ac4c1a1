--------------------------- MODULE CircuitBreaker ---------------------------
(***************************************************************************)
(* CircuitBreaker of app/utils/circuit_breaker.py: coroutines that call    *)
(* services through it, and its hash per service in Redis.  Nothing else   *)
(* under src/ uses the class; its callers are external.                    *)
(*                                                                         *)
(* The client comes from redis.asyncio: hget is awaited and answers, but   *)
(* pipeline().execute() is called without await, as if it were the         *)
(* synchronous one.  What it returns is a coroutine that never runs, so    *)
(* its commands do not reach Redis, and to take it for a list, by slicing  *)
(* or unpacking it, raises TypeError.                                      *)
(***************************************************************************)
EXTENDS Integers

CONSTANTS
    Callers,
    Services,
    FailureThreshold,
    MaxStreak  \* bound: failures in a row that streak tells apart

VARIABLES
    failures,  \* the field "failures" of each service's hash, or "none"
    call,      \* per caller: where it is in the breaker, and for whom
    answer,    \* what a caller got last
    streak     \* history variable: failed calls in a row, per service

vars == <<failures, call, answer, streak>>

Idle == [at |-> "idle"]

Answers ==
    {"none", "result", "fallback", "503", "TypeError", "reopened"}

TypeOK ==
    /\ failures \in [Services -> Nat \cup {"none"}]
    /\ call \in [Callers -> {Idle} \cup
                    [at : {"calling", "waiting"}, service : Services]]
    /\ answer \in [Callers -> Answers]
    /\ streak \in [Services -> 0 .. MaxStreak]

Init ==
    /\ failures = [s \in Services |-> "none"]
    /\ call = [c \in Callers |-> Idle]
    /\ answer = [c \in Callers |-> "none"]
    /\ streak = [s \in Services |-> 0]

-----------------------------------------------------------------------------
IsCircuitOpen(s) == failures[s] # "none" /\ failures[s] >= FailureThreshold

(* pipe.execute(), not awaited: written is what it would have written.     *)
Execute(s, written) == UNCHANGED failures

Return(c, what) ==
    /\ call' = [call EXCEPT ![c] = Idle]
    /\ answer' = [answer EXCEPT ![c] = what]

Go(c, at, s) ==
    /\ call' = [call EXCEPT ![c] = [at |-> at, service |-> s]]
    /\ UNCHANGED answer

IsAt(c, at, s) == call[c] = [at |-> at, service |-> s]

(* call_with_protection: the circuit is looked at, with a fallback or not. *)
BeginCall(c, s) ==
    /\ call[c] = Idle
    /\ \/ IsCircuitOpen(s) /\ \E what \in {"fallback", "503"} : Return(c, what)
       \/ ~IsCircuitOpen(s) /\ Go(c, "calling", s)
    /\ UNCHANGED <<failures, streak>>

(* record_success                                                          *)
ServiceAnswers(c, s) ==
    /\ IsAt(c, "calling", s)
    /\ Execute(s, 0)
    /\ streak' = [streak EXCEPT ![s] = 0]
    /\ Return(c, "result")

(* record_failure: execute()[:2] raises before the counter is written, and *)
(* the TypeError leaves the except clause in the place of the 503.         *)
ServiceFails(c, s) ==
    /\ IsAt(c, "calling", s)
    /\ streak[s] < MaxStreak
    /\ UNCHANGED failures
    /\ streak' = [streak EXCEPT ![s] = @ + 1]
    /\ Return(c, "TypeError")

(* wait_for_reopen: once a second it looks at the circuit, and, if that is *)
(* open for long enough, records a success.                                *)
BeginWait(c, s) ==
    /\ call[c] = Idle
    /\ Go(c, "waiting", s)
    /\ UNCHANGED <<failures, streak>>

EndWait(c, s) ==
    /\ IsAt(c, "waiting", s)
    /\ IsCircuitOpen(s) => Execute(s, 0)
    /\ ~IsCircuitOpen(s) => UNCHANGED failures
    /\ Return(c, "reopened")
    /\ UNCHANGED streak

(* get_status: data, ttl = pipe.execute()                                  *)
GetStatus(c) ==
    /\ call[c] = Idle
    /\ Return(c, "TypeError")
    /\ UNCHANGED <<failures, streak>>

Next ==
    \E c \in Callers :
        \/ GetStatus(c)
        \/ \E s \in Services :
              \/ BeginCall(c, s)
              \/ ServiceAnswers(c, s)
              \/ ServiceFails(c, s)
              \/ BeginWait(c, s)
              \/ EndWait(c, s)

Spec == Init /\ [][Next]_vars

-----------------------------------------------------------------------------
(* README.md:271: the circuit breaker opens after 5 consecutive failures.  *)
(* No failure is ever counted.                                             *)
OpensAfterFailures ==
    \A s \in Services : streak[s] >= FailureThreshold => IsCircuitOpen(s)
=============================================================================
