------------------------------- MODULE Pacing -------------------------------
(***************************************************************************)
(* When the controller asks again: how long it waits after a failed        *)
(* firewall rule creation, and how it polls an operation.  Times are       *)
(* numbers of seconds for the first and of milliseconds for the second.    *)
(***************************************************************************)
EXTENDS Integers

CONSTANTS
    firewallRuleCreateRetryDelay,   \* seconds
    maxBackOffSeconds               \* the longest pause between two polls, without jitter

ASSUME PacingAssumption ==
    /\ firewallRuleCreateRetryDelay \in Nat
    /\ maxBackOffSeconds \in Nat \ {0}

Smaller(a, b) == IF a <= b THEN a ELSE b
Larger(a, b) == IF a <= b THEN b ELSE a

-----------------------------------------------------------------------------
(* A failed firewall rule creation *)

\* A time the API gives.  One that is missing or does not parse is not usable.
Timestamp == [usable: BOOLEAN, at: Int]

Operation == [CompletedAt: Timestamp, StartedAt: Timestamp]

hasTimestamp(op) == op.CompletedAt.usable \/ op.StartedAt.usable

\* Mutant: the delay counts from when the operation was started.
startedAt(op) == IF op.StartedAt.usable THEN op.StartedAt.at ELSE op.CompletedAt.at

settledAt(op) == IF op.CompletedAt.usable THEN op.CompletedAt.at ELSE op.StartedAt.at

firewallRuleRetryWait(op, now) ==
    IF hasTimestamp(op)
    THEN Smaller(firewallRuleCreateRetryDelay,
                 Larger(0, settledAt(op) + firewallRuleCreateRetryDelay - now))
    ELSE 0

\* The pass that submits the rule again, when each pass asks for another one
\* after its wait and the first one runs at `from'.
Resubmission(op, from) ==
    LET end == Larger(from, settledAt(op) + firewallRuleCreateRetryDelay)
        at[now \in from..end] ==
            IF firewallRuleRetryWait(op, now) = 0
            THEN now
            ELSE at[now + firewallRuleRetryWait(op, now)]
    IN  at[from]

-----------------------------------------------------------------------------
(* Polling an operation *)

\* backoffSecondsFloat in 64ths of a second: no fraction is lost up to the cap.
Fraction == 64

\* Mutant: the pause grows without a limit.
uncapped(pause) == (pause * 7) \div 4

nextBackoff(pause) == Smaller((pause * 7) \div 4, Fraction * maxBackOffSeconds)

backoff[poll \in Nat] == IF poll = 0 THEN Fraction ELSE nextBackoff(backoff[poll - 1])

\* time.Duration(backoffSecondsFloat) drops the fraction.
sleepAfter(poll, jitter) == 1000 * (backoff[poll] \div Fraction) + jitter

pollTime(jitter) ==
    LET at[poll \in Nat] ==
            IF poll = 0 THEN 0 ELSE at[poll - 1] + sleepAfter(poll - 1, jitter)
    IN  at

\* When WaitForOperation returns, for an operation that settles that long after
\* it was submitted, 0 if the reply to the submission shows it settled.  It sleeps
\* once more after the poll that has seen the end.
WaitForOperation(settles, jitter) ==
    LET at == pollTime(jitter)
        last == CHOOSE poll \in 0..settles : /\ at[poll] >= settles
                                             /\ \A before \in 0..(poll - 1) : at[before] < settles
    IN  IF settles = 0 THEN 0 ELSE at[last] + sleepAfter(last, jitter)
=============================================================================
