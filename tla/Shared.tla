------------------------------- MODULE Shared -------------------------------
(***************************************************************************)
(* The objects that goroutines share: an outbox, a channel source or a     *)
(* circuit breaker per behaviour.                                          *)
(***************************************************************************)
EXTENDS Integers, FiniteSets

CONSTANTS
  Users,                         \* goroutines that send into an outbox
  Outboxes,                      \* its configurations, see Outbox
  Pushers, TrySenders, Closers,  \* callers of a channel source
  Cap, MayCancel,                \* its buffer and the context of its senders
  MaxCalls,                      \* bound: calls of one goroutine
  Workers,                       \* goroutines of the stages behind a breaker
  Breakers                       \* its configurations, see CircuitBreaker

ASSUME SharedAssumption ==
  /\ \A o \in Outboxes : o.cap \in Nat
  /\ MaxCalls \in Nat /\ Cap \in Nat /\ MayCancel \in BOOLEAN
  /\ \A b \in Breakers :
       /\ {b.failureThreshold, b.halfOpenProbes} \subseteq Nat \ {0}
       /\ {b.cooldown, b.halfOpenTimeout} \subseteq Nat /\ IsFiniteSet(b.workers)

VARIABLES
  which,  \* the object of this behaviour; the others' variables stay Idle
  lock, dropped, lost, failed,
  chClosed, closed, readers, writer, once, accepted, stage,
  state, failures, needed, cool, deadline, call, healthy, probes, wins,
  cfg, ch, pc, calls, received, ctxDone

O == INSTANCE Outbox WITH Senders <- Users, Configs <- Outboxes
C == INSTANCE Channel WITH Senders <- Pushers
B == INSTANCE CircuitBreaker WITH Configs <- Breakers

Idle == "idle"
outboxVars == O!vars
channelVars == C!vars
breakerVars == B!vars
onlyOutbox == <<lock, dropped, lost, failed>>
onlyChannel == <<chClosed, closed, readers, writer, once, accepted, stage>>
onlyBreaker == <<state, failures, needed, cool, deadline, call, healthy, probes, wins>>
OutboxIdle == lock = Idle /\ dropped = Idle /\ lost = Idle /\ failed = Idle
ChannelIdle == chClosed = Idle /\ closed = Idle /\ readers = Idle /\ writer = Idle /\ once = Idle /\ accepted = Idle /\ stage = Idle
BreakerIdle == state = Idle /\ failures = Idle /\ needed = Idle /\ cool = Idle /\ deadline = Idle /\ call = Idle /\ healthy = Idle /\ probes = Idle /\ wins = Idle

Init ==
  \/ which = "outbox" /\ O!Init /\ ChannelIdle /\ BreakerIdle
  \/ which = "channel" /\ C!Init /\ OutboxIdle /\ BreakerIdle /\ cfg = Idle
  \/ /\ which = "breaker" /\ B!Init /\ OutboxIdle /\ ChannelIdle
     /\ ch = Idle /\ pc = Idle /\ calls = Idle /\ received = Idle /\ ctxDone = Idle

Next ==
  \/ which = "outbox" /\ O!Next /\ UNCHANGED <<which, onlyChannel, onlyBreaker>>
  \/ which = "channel" /\ C!Next /\ UNCHANGED <<which, onlyOutbox, onlyBreaker, cfg>>
  \/ which = "breaker" /\ B!Next /\ UNCHANGED <<which, onlyOutbox, onlyChannel, ch, pc, calls, received, ctxDone>>

vars == <<which, onlyOutbox, onlyChannel, onlyBreaker, cfg, ch, pc, calls, received, ctxDone>>

\* Each component's own fairness.
Fairness ==
  /\ \A s \in Users : WF_outboxVars(which = "outbox" /\ O!Sending(s))
  /\ \A p \in Pushers \cup TrySenders : WF_channelVars(which = "channel" /\ C!Sending(p))
  /\ \A p \in Closers : WF_channelVars(which = "channel" /\ (C!Lock(p) \/ C!CloseCh(p)))
  /\ WF_channelVars(which = "channel" /\ C!Read)
  /\ \A w \in Workers :
       /\ WF_breakerVars(which = "breaker" /\ w \in cfg.workers /\ B!Allow(w))
       /\ WF_breakerVars(which = "breaker" /\ w \in cfg.workers /\ (B!RecordSuccess(w) \/ B!RecordFailure(w)))
  /\ WF_breakerVars(which = "breaker" /\ B!Tick)

Spec == Init /\ [][Next]_vars /\ Fairness

-----------------------------------------------------------------------------
\* Every item given to an outbox is in exactly one place, buffered, read,
\* dropped, refused or in its sender's hands, and Dropped() counts what OnDrop
\* saw.
Accounted == which = "outbox" => O!Accounted

\* The consumer of an outbox never sees two items of one sender in the wrong
\* order, evictions and shards notwithstanding; a channel source delivers the
\* accepted items in the order of their acceptance and, once it is closed, all
\* of them.
InOrder ==
  CASE which = "outbox" -> O!SenderOrder
    [] which = "channel" -> C!DrainedOnClose
    [] which = "breaker" -> TRUE

\* Nobody sends on a channel source's closed Go channel, which would panic,
\* also when Close starts in the middle of a Send.
NoSendOnClosed == which = "channel" => C!NoSendOnClosed

\* Every Send on an outbox returns even if nobody ever reads, except that a
\* blocking one may wait for room or the cancellation; every Send, TrySend and
\* Close of a channel source returns unless the pipeline stops reading:
\* readers, a waiting writer and a full buffer never block one another for
\* good.
\* (The calls are bounded, so each returns if again and again all have.)
NobodyHeld ==
  CASE which = "outbox" -> \A s \in Users : ~O!MustReturn(s)
    [] which = "channel" -> C!AllReturned \/ stage = "stopped"
    [] which = "breaker" -> TRUE
CallsReturn == []<>NobodyHeld

\* A failed probe opens the circuit again; with one goroutine at most
\* halfOpenProbes calls are let through in a half-open period, and only that
\* many successes close the circuit.
ProbesDecide == [][which = "breaker" => B!ProbeStep]_vars

\* Once the service has recovered the circuit closes and stays closed,
\* whatever was in flight when it tripped.  A half-open deadline may end
\* every period before enough slow probes have succeeded, and is left out.
NoDeadline == which = "breaker" /\ cfg.halfOpenTimeout = 0
Healthy == which = "breaker" /\ healthy
Recovers == (NoDeadline /\ <>Healthy) => <>[](state = "closed")
=============================================================================
