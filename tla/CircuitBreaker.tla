--------------------------- MODULE CircuitBreaker ---------------------------
(***************************************************************************)
(* The circuit breaker of middleware.go: the goroutines of a Map stage ask *)
(* allow() before they call the function and record its outcome after it.  *)
(* The breaker may change its state while a call is running, so an outcome *)
(* may be recorded in another state than the one that admitted the call.   *)
(*                                                                         *)
(* openUntil and halfOpenDeadline are kept as the ticks left until them.   *)
(***************************************************************************)
EXTENDS Integers, FiniteSets

CONSTANTS
  Configs  \* the stages of the run, as records
           \*   workers: the goroutines of the stage
           \*   failureThreshold, cooldown, halfOpenProbes
           \*   halfOpenTimeout: 0 for none

VARIABLES
  cfg,       \* circuitBreakerConfig and the concurrency of the stage
  state,     \* cb.state
  failures,  \* cb.failures
  needed,    \* cb.successesNeeded
  cool,      \* ticks until openUntil
  deadline,  \* ticks until the half-open deadline has passed
  call,      \* call[w]: "none", or the running call of w: a "probe" of the
             \* present half-open period, or an "other" one
  healthy,   \* the service behind the function has recovered for good
  probes,    \* history: calls let through in the present half-open period,
             \* counted up to one more than halfOpenProbes
  wins       \* history: successes among them

vars == <<cfg, state, failures, needed, cool, deadline, call, healthy, probes, wins>>

TypeOK ==
  /\ cfg \in Configs
  /\ state \in {"closed", "open", "half"}
  /\ failures \in 0..(cfg.failureThreshold - 1)
  /\ needed \in 0..cfg.halfOpenProbes
  /\ cool \in 0..cfg.cooldown /\ deadline \in 0..(cfg.halfOpenTimeout + 1)
  /\ call \in [cfg.workers -> {"none", "probe", "other"}]
  /\ healthy \in BOOLEAN
  /\ probes \in 0..(cfg.halfOpenProbes + 1) /\ wins \in 0..cfg.halfOpenProbes

Init ==
  /\ cfg \in Configs
  /\ state = "closed" /\ failures = 0 /\ needed = 0 /\ cool = 0 /\ deadline = 0
  /\ call = [w \in cfg.workers |-> "none"] /\ healthy = FALSE
  /\ probes = 0 /\ wins = 0

-----------------------------------------------------------------------------
\* The half-open period is over: what still runs was not admitted by the next.
Aged(c) == [v \in cfg.workers |-> IF c[v] = "probe" THEN "other" ELSE c[v]]

Trip == state' = "open" /\ cool' = cfg.cooldown /\ failures' = 0

\* allow() in the closed state.
AllowClosed(w) ==
  /\ call[w] = "none" /\ state = "closed"
  /\ call' = [call EXCEPT ![w] = "other"]
  /\ UNCHANGED <<cfg, state, failures, needed, cool, deadline, healthy, probes, wins>>

\* Mutant: one probe fewer is asked for.
AllowAfterCooldownMutant(w) ==
  /\ call[w] = "none" /\ state = "open" /\ cool = 0
  /\ state' = "half" /\ needed' = cfg.halfOpenProbes - 1
  /\ deadline' = IF cfg.halfOpenTimeout > 0 THEN cfg.halfOpenTimeout + 1 ELSE deadline
  /\ call' = [call EXCEPT ![w] = "probe"] /\ probes' = 1 /\ wins' = 0
  /\ UNCHANGED <<cfg, failures, cool, healthy>>

\* allow() after the cooldown: the first probe.
AllowAfterCooldown(w) ==
  /\ call[w] = "none" /\ state = "open" /\ cool = 0
  /\ state' = "half" /\ needed' = cfg.halfOpenProbes
  /\ deadline' = IF cfg.halfOpenTimeout > 0 THEN cfg.halfOpenTimeout + 1 ELSE deadline
  /\ call' = [call EXCEPT ![w] = "probe"] /\ probes' = 1 /\ wins' = 0
  /\ UNCHANGED <<cfg, failures, cool, healthy>>

\* allow() in the half-open state, before its deadline.
AllowHalfOpen(w) ==
  /\ call[w] = "none" /\ state = "half" /\ (cfg.halfOpenTimeout > 0 => deadline > 0)
  /\ call' = [call EXCEPT ![w] = "probe"]
  /\ probes' = IF probes <= cfg.halfOpenProbes THEN probes + 1 ELSE probes
  /\ UNCHANGED <<cfg, state, failures, needed, cool, deadline, healthy, wins>>

\* allow() after that deadline refuses and reopens.
HalfOpenExpired(w) ==
  /\ call[w] = "none" /\ state = "half" /\ cfg.halfOpenTimeout > 0 /\ deadline = 0
  /\ Trip /\ call' = Aged(call)
  /\ UNCHANGED <<cfg, needed, deadline, healthy, probes, wins>>

\* Mutant: a success in the half-open state only resets the failures.
RecordSuccessMutant(w) ==
  /\ call[w] # "none"
  /\ wins' = IF call[w] = "probe" /\ wins < cfg.halfOpenProbes THEN wins + 1 ELSE wins
  /\ failures' = 0
  /\ call' = [call EXCEPT ![w] = "none"]
  /\ UNCHANGED <<cfg, state, needed, deadline, cool, healthy, probes>>

\* fn succeeds, recordSuccess().
RecordSuccess(w) ==
  /\ call[w] # "none"
  /\ wins' = IF call[w] = "probe" THEN wins + 1 ELSE wins
  /\ LET done == [call EXCEPT ![w] = "none"]
     IN \/ /\ state = "half" /\ needed > 1
           /\ needed' = needed - 1 /\ call' = done
           /\ UNCHANGED <<state, failures, deadline>>
        \/ /\ state = "half" /\ needed <= 1
           /\ needed' = needed - 1 /\ call' = Aged(done)
           /\ state' = "closed" /\ failures' = 0 /\ deadline' = 0
        \/ /\ state # "half"
           /\ failures' = 0 /\ call' = done
           /\ UNCHANGED <<state, needed, deadline>>
  /\ UNCHANGED <<cfg, cool, healthy, probes>>

\* fn fails, recordFailure(); in the open state enough failures of calls that
\* were admitted earlier start the cooldown again.
RecordFailure(w) ==
  /\ call[w] # "none" /\ ~healthy
  /\ LET done == [call EXCEPT ![w] = "none"]
     IN IF state = "half" \/ failures + 1 >= cfg.failureThreshold
        THEN Trip /\ call' = Aged(done)
        ELSE failures' = failures + 1 /\ call' = done /\ UNCHANGED <<state, cool>>
  /\ UNCHANGED <<cfg, needed, deadline, healthy, probes, wins>>

-----------------------------------------------------------------------------
Tick ==
  /\ cool > 0 \/ deadline > 0
  /\ cool' = IF cool > 0 THEN cool - 1 ELSE 0
  /\ deadline' = IF deadline > 0 THEN deadline - 1 ELSE 0
  /\ UNCHANGED <<cfg, state, failures, needed, call, healthy, probes, wins>>

Heal ==
  /\ ~healthy /\ healthy' = TRUE
  /\ UNCHANGED <<cfg, state, failures, needed, cool, deadline, call, probes, wins>>

Allow(w) == \/ AllowClosed(w) \/ AllowAfterCooldown(w)
            \/ AllowHalfOpen(w) \/ HalfOpenExpired(w)

AllWorkers == UNION {c.workers : c \in Configs}
Next == \/ \E w \in AllWorkers :
             /\ w \in cfg.workers
             /\ Allow(w) \/ RecordSuccess(w) \/ RecordFailure(w)
        \/ Tick \/ Heal

\* Items keep coming, calls end, and time passes.
Fairness ==
  /\ \A w \in AllWorkers :
       /\ WF_vars(w \in cfg.workers /\ Allow(w))
       /\ WF_vars(w \in cfg.workers /\ (RecordSuccess(w) \/ RecordFailure(w)))
  /\ WF_vars(Tick)
Spec == Init /\ [][Next]_vars /\ Fairness

-----------------------------------------------------------------------------
\* Probes decide what a half-open circuit becomes.  A probe that fails opens
\* it again ("If any fail, the circuit opens again"); a stage with one
\* goroutine lets at most halfOpenProbes calls through in a half-open period
\* and closes the circuit only after that many successes in it.  With more
\* goroutines the success of an older call counts as well, and more calls
\* are let through.
ProbeStep ==
  /\ \A w \in cfg.workers :
       (state = "half" /\ call[w] = "probe" /\ call'[w] = "none" /\ wins' = wins) => state' = "open"
  /\ Cardinality(cfg.workers) = 1 =>
       /\ state' = "half" => probes' <= cfg.halfOpenProbes
       /\ state = "half" /\ state' = "closed" => wins' = cfg.halfOpenProbes
=============================================================================
