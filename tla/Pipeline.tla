------------------------------ MODULE Pipeline ------------------------------
(***************************************************************************)
(* One Run of a linear pipeline: stage 1 is a source, stage N a terminal,  *)
(* and stage s writes the bounded channel that stage s+1 reads.  Every     *)
(* stage is a goroutine of one errgroup.  Three signals stop them: the     *)
(* errgroup context, the run-wide done channel, and each producer's        *)
(* ref-counted drain channel (the cooperative-drain protocol).  DrainChan  *)
(* goroutines empty the inputs of stages that left otherwise.              *)
(*                                                                         *)
(* Each stage function of the code is a Kind.  Kinds differ in what their  *)
(* selects listen to and in whether they micro-batch, which is all that    *)
(* the protocol depends on.                                                *)
(***************************************************************************)
EXTENDS Integers, Sequences, FiniteSets

CONSTANTS
  N,          \* number of stages of this run
  Kind,       \* Kind[s]: the stage function the build phase chose for stage s
  Cap,        \* Cap[s]: buffer of stage s's output channel, which is positive:
              \* the rendezvous of a stage with Buffer(0) is not modelled
  NItems,     \* the source's items are 1..NItems
  Consumers,  \* Consumers[s]: consumerCount of stage s's pipeline at build time
  TakeN,      \* the n of Take
  BatchSize,  \* internal.ReceiveBatchSize
  CanFail,    \* stages whose user function may return an error
  CanSkip,    \* stages that may drop an item (Skip handler, false predicate)
  MayCancel,  \* whether the caller may cancel the context given to Run
  WithDrain   \* whether the run has a drain timeout

Stages == 1..N
Chans == 1..(N - 1)

Sources == {"slice", "generate"}
Terminals == {"foreach", "fastforeach", "fused"}
Middles == {"map", "fastmap", "fastfilter", "take"}
Kinds == Sources \cup Middles \cup Terminals

ASSUME PipelineAssumption ==
  /\ N \in Nat /\ N >= 2
  /\ Kind \in [Stages -> Kinds]
  /\ \A s \in Stages : /\ s = 1 <=> Kind[s] \in Sources
                       /\ s = N <=> Kind[s] \in Terminals
  /\ Cap \in [Chans -> Nat \ {0}]
  /\ NItems \in Nat /\ TakeN \in Nat
  /\ Consumers \in [Chans -> Nat]
  /\ BatchSize \in Nat \ {0}
  /\ CanFail \subseteq Stages /\ CanSkip \subseteq Stages
  /\ MayCancel \in BOOLEAN /\ WithDrain \in BOOLEAN

-----------------------------------------------------------------------------
(* What each stage function listens to. *)

\* Stage functions that receive one item blocking and then top up a
\* micro-batch with non-blocking receives.
Batching == {"fastmap", "fastfilter", "fastforeach", "fused"}

\* Stage functions whose receive select has a ctx.Done() case.
RecvCtx == {"map", "fastfilter", "take", "foreach", "fused"}

\* Stage functions whose receive select has a drain case.
RecvDrain == {"map", "fastmap", "fastfilter", "take"}

\* Stage functions that test ctx between the user function and the send.
CheckCtx == {"map"}

\* Stage functions whose send select has a ctx.Done() case.
SendCtx == {"slice", "map", "take"}

\* Mutant: the fast path's blocked send does not watch its drain channel.
SendDrainMutant == {"slice", "generate", "take"}

\* Stage functions whose send select has a drain case.
SendDrain == {"slice", "generate", "fastmap", "take"}

\* Stage functions whose send select has a done case.
SendDone == {"generate"}

\* Stage functions that poll the drain channel after each micro-batch.
PollDrain == {"fastfilter"}

\* Stage functions whose exit runs signalDone.
SignalsDone == {"take"}

-----------------------------------------------------------------------------
VARIABLES
  ch,         \* ch[c]: contents of the channel written by stage c
  closed,     \* closed[c]: close(outCh) has run
  refs,       \* refs[c]: drainEntry.refs of producer c
  drained,    \* drained[c]: drainEntry.ch of producer c is closed
  drainer,    \* drainer[c]: the DrainChan goroutine of channel c
  pc,         \* pc[s]: where the goroutine of stage s is
  hand,       \* hand[s]: items stage s has received (a source: has yet to send)
  sawClose,   \* sawClose[s]: the local closed flag of a micro-batching stage
  coop,       \* coop[s]: the local cooperativeDrain flag
  ret,        \* ret[s]: what stage s returns to the errgroup
  taken,      \* taken[s]: the local count of a Take stage
  done,       \* rc.done is closed
  stageCtx,   \* Generate's watcher has cancelled stageCtx
  ctxDone,    \* the errgroup context is cancelled
  parentDone, \* the context given to Run is cancelled
  runErr,     \* the first error returned to the errgroup
  watcher,    \* the goroutine of runWithDrain
  result,     \* what Run returned, or "running"
  delivered,  \* history: items the terminal function accepted, in order
  skipped     \* history: <<stage, item>> pairs a stage dropped by its own rule

netVars == <<ch, closed, drainer>>
drainVars == <<refs, drained, coop>>
stageVars == <<pc, hand, sawClose, ret, taken>>
runVars == <<done, stageCtx, ctxDone, parentDone, runErr, watcher, result>>
histVars == <<delivered, skipped>>
vars == <<netVars, drainVars, stageVars, runVars, histVars>>

Pcs == {"recv", "fill", "work", "send", "turn", "park",
        "sigdone", "signal", "close", "return", "end"}
Signalled == {"close", "return", "end"}
Errs == {"nil", "user", "ctx"}

TypeOK ==
  /\ ch \in [Chans -> Seq(Nat)]
  /\ closed \in [Chans -> BOOLEAN]
  /\ refs \in [Chans -> Nat]
  /\ drained \in [Chans -> BOOLEAN]
  /\ drainer \in [Chans -> {"none", "running", "ended"}]
  /\ pc \in [Stages -> Pcs]
  /\ hand \in [Stages -> Seq(Nat)]
  /\ sawClose \in [Stages -> BOOLEAN]
  /\ coop \in [Stages -> BOOLEAN]
  /\ ret \in [Stages -> Errs]
  /\ taken \in [Stages -> Nat]
  /\ done \in BOOLEAN /\ stageCtx \in BOOLEAN
  /\ ctxDone \in BOOLEAN /\ parentDone \in BOOLEAN
  /\ runErr \in Errs
  /\ watcher \in {"wait", "timer", "end"}
  /\ result \in Errs \cup {"running"}
  /\ delivered \in Seq(Nat)
  /\ skipped \in SUBSET (Stages \X Nat)

-----------------------------------------------------------------------------
\* Mutant: the consumer a source was built for is not counted.
InitialRefsMutant(n) == n - 1

(* initDrainNotify: an entry starts at max(1, consumerCount) references. *)
InitialRefs(n) == IF n < 1 THEN 1 ELSE n

Init ==
  /\ ch = [c \in Chans |-> << >>]
  /\ closed = [c \in Chans |-> FALSE]
  /\ refs = [c \in Chans |-> InitialRefs(Consumers[c])]
  /\ drained = [c \in Chans |-> FALSE]
  /\ drainer = [c \in Chans |-> "none"]
  /\ pc = [s \in Stages |-> IF s > 1 THEN "recv"
                          ELSE IF NItems > 0 THEN "send" ELSE "turn"]
  /\ hand = [s \in Stages |-> IF s = 1 THEN [i \in 1..NItems |-> i] ELSE << >>]
  /\ sawClose = [s \in Stages |-> FALSE]
  /\ coop = [s \in Stages |-> FALSE]
  /\ ret = [s \in Stages |-> "nil"]
  /\ taken = [s \in Stages |-> 0]
  /\ done = FALSE /\ stageCtx = FALSE
  /\ ctxDone = FALSE /\ parentDone = FALSE
  /\ runErr = "nil" /\ watcher = "wait" /\ result = "running"
  /\ delivered = << >> /\ skipped = {}

-----------------------------------------------------------------------------
(* Control helpers. *)

Goto(s, l) == pc' = [pc EXCEPT ![s] = l]

\* A stage body returns e: the first deferred call it then runs depends on
\* its kind (a source has only the close of its channel).
FirstDefer(s) ==
  IF Kind[s] \in Sources THEN "close"
  ELSE IF Kind[s] \in SignalsDone THEN "sigdone" ELSE "signal"

Leave(s, e) ==
  /\ Goto(s, FirstDefer(s))
  /\ ret' = [ret EXCEPT ![s] = e]

\* The stage leaves through its drain case: cooperativeDrain = true.
LeaveDrained(s) ==
  /\ drained[s]
  /\ Leave(s, "nil")
  /\ coop' = [coop EXCEPT ![s] = TRUE]

\* Where a stage goes with the items rest still in hand: on with them, to the
\* end of its batch or of its items, or back to its receive.
Resume(s, rest) ==
  IF rest # << >> THEN IF Kind[s] \in Sources THEN "send" ELSE "work"
  ELSE IF Kind[s] \in Batching \cup Sources THEN "turn" ELSE "recv"

\* Mutant: one item too many.
TakeDoneMutant(s) == Kind[s] = "take" /\ taken[s] > TakeN

\* Whether a Take has emitted all it should.
TakeDone(s) == Kind[s] = "take" /\ taken[s] >= TakeN

\* The context Generate passes to the user function.
StageCtxDone == stageCtx \/ ctxDone

-----------------------------------------------------------------------------
(* Receiving. *)

\* The blocking receive takes the oldest buffered item.
Recv(s) ==
  /\ pc[s] = "recv" /\ ~TakeDone(s)
  /\ ch[s-1] # << >>
  /\ ch' = [ch EXCEPT ![s-1] = Tail(@)]
  /\ hand' = [hand EXCEPT ![s] = <<Head(ch[s-1])>>]
  /\ Goto(s, IF Kind[s] \in Batching THEN "fill" ELSE "work")
  /\ UNCHANGED <<closed, drainer, drainVars, sawClose, ret, taken, runVars, histVars>>

\* The receive finds the channel closed and empty.
RecvClosed(s) ==
  /\ pc[s] = "recv" /\ ~TakeDone(s)
  /\ ch[s-1] = << >> /\ closed[s-1]
  /\ Leave(s, "nil")
  /\ UNCHANGED <<netVars, drainVars, hand, sawClose, taken, runVars, histVars>>

\* Take has emitted n items.
TakeExit(s) ==
  /\ pc[s] = "recv" /\ TakeDone(s)
  /\ Leave(s, "nil")
  /\ UNCHANGED <<netVars, drainVars, hand, sawClose, taken, runVars, histVars>>

\* The receive select takes its ctx.Done() case.
RecvCtxDone(s) ==
  /\ pc[s] = "recv" /\ ~TakeDone(s)
  /\ Kind[s] \in RecvCtx /\ ctxDone
  /\ Leave(s, "ctx")
  /\ UNCHANGED <<netVars, drainVars, hand, sawClose, taken, runVars, histVars>>

\* The receive select takes its drain case.
RecvDrained(s) ==
  /\ pc[s] = "recv" /\ ~TakeDone(s)
  /\ Kind[s] \in RecvDrain
  /\ LeaveDrained(s)
  /\ UNCHANGED <<netVars, refs, drained, hand, sawClose, taken, runVars, histVars>>

\* One non-blocking receive of the fill loop.
Fill(s) ==
  /\ pc[s] = "fill" /\ Len(hand[s]) < BatchSize
  /\ ch[s-1] # << >>
  /\ ch' = [ch EXCEPT ![s-1] = Tail(@)]
  /\ hand' = [hand EXCEPT ![s] = Append(@, Head(ch[s-1]))]
  /\ UNCHANGED <<closed, drainer, drainVars, pc, sawClose, ret, taken, runVars, histVars>>

\* The fill loop ends: batch full, nothing to receive, or channel closed.
FillEnd(s) ==
  /\ pc[s] = "fill"
  /\ Len(hand[s]) >= BatchSize \/ ch[s-1] = << >>
  /\ sawClose' = [sawClose EXCEPT ![s] =
                    Len(hand[s]) < BatchSize /\ ch[s-1] = << >> /\ closed[s-1]]
  /\ Goto(s, "work")
  /\ UNCHANGED <<netVars, drainVars, hand, ret, taken, runVars, histVars>>

-----------------------------------------------------------------------------
(* The user function on the item in hand. *)

\* It accepts the item.  A terminal is then ready for the next item; another
\* stage sends the result, unless its context is already cancelled.
WorkOk(s) ==
  /\ pc[s] = "work" /\ hand[s] # << >>
  /\ IF Kind[s] \in Terminals
     THEN /\ delivered' = Append(delivered, Head(hand[s]))
          /\ hand' = [hand EXCEPT ![s] = Tail(@)]
          /\ Goto(s, Resume(s, Tail(hand[s]))) /\ UNCHANGED ret
     ELSE /\ IF Kind[s] \in CheckCtx /\ ctxDone
             THEN Leave(s, "ctx")
             ELSE Goto(s, "send") /\ UNCHANGED ret
          /\ UNCHANGED <<delivered, hand>>
  /\ UNCHANGED <<netVars, drainVars, sawClose, taken, runVars, skipped>>

\* Mutant: a dropped item abandons the rest of the batch (break for continue).
WorkSkipMutant(s) ==
  /\ pc[s] = "work" /\ hand[s] # << >> /\ s \in CanSkip
  /\ skipped' = skipped \cup {<<s, Head(hand[s])>>}
  /\ hand' = [hand EXCEPT ![s] = << >>]
  /\ Goto(s, Resume(s, << >>))
  /\ UNCHANGED <<netVars, drainVars, sawClose, ret, taken, runVars, delivered>>

\* The item is dropped: ErrSkipped, or a predicate that says no.
WorkSkip(s) ==
  /\ pc[s] = "work" /\ hand[s] # << >> /\ s \in CanSkip
  /\ skipped' = skipped \cup {<<s, Head(hand[s])>>}
  /\ hand' = [hand EXCEPT ![s] = Tail(@)]
  /\ Goto(s, Resume(s, Tail(hand[s])))
  /\ UNCHANGED <<netVars, drainVars, sawClose, ret, taken, runVars, delivered>>

\* It fails, or gives up because its context is cancelled: the stage returns
\* the (wrapped) error and forgets its batch.
WorkFail(s) ==
  /\ pc[s] = "work" /\ hand[s] # << >> /\ s \in CanFail
  /\ \/ Leave(s, "user")
     \/ ctxDone /\ Leave(s, "ctx")
  /\ UNCHANGED <<netVars, drainVars, hand, sawClose, taken, runVars, histVars>>

-----------------------------------------------------------------------------
(* Sending. *)

\* The send select delivers to the channel.  Generate's yield reports false
\* once its context is cancelled, and the user function then returns nil.
Send(s) ==
  /\ pc[s] = "send" /\ Len(ch[s]) < Cap[s]
  /\ ch' = [ch EXCEPT ![s] = Append(@, Head(hand[s]))]
  /\ hand' = [hand EXCEPT ![s] = Tail(@)]
  /\ taken' = [taken EXCEPT ![s] = IF Kind[s] = "take" THEN @ + 1 ELSE @]
  /\ IF Kind[s] = "generate" /\ StageCtxDone
     THEN Leave(s, "nil")
     ELSE Goto(s, Resume(s, Tail(hand[s]))) /\ UNCHANGED ret
  /\ UNCHANGED <<closed, drainer, drainVars, sawClose, runVars, histVars>>

SendCtxDone(s) ==
  /\ pc[s] = "send" /\ Kind[s] \in SendCtx /\ ctxDone
  /\ Leave(s, "ctx")
  /\ UNCHANGED <<netVars, drainVars, hand, sawClose, taken, runVars, histVars>>

SendDrained(s) ==
  /\ pc[s] = "send" /\ Kind[s] \in SendDrain
  /\ LeaveDrained(s)
  /\ UNCHANGED <<netVars, refs, drained, hand, sawClose, taken, runVars, histVars>>

SendStopped(s) ==
  /\ pc[s] = "send" /\ Kind[s] \in SendDone /\ done
  /\ Leave(s, "nil")
  /\ UNCHANGED <<netVars, drainVars, hand, sawClose, taken, runVars, histVars>>

-----------------------------------------------------------------------------
(* The end of the items in hand. *)

\* A source has no item left: FromSlice returns, and a Generate function
\* returns, fails (after any number of items: NItems) or blocks on its context.
SourceEnd(s) ==
  /\ pc[s] = "turn" /\ Kind[s] \in Sources
  /\ \/ Leave(s, "nil")
     \/ Kind[s] = "generate" /\ s \in CanFail /\ Leave(s, "user")
     \/ Kind[s] = "generate" /\ Goto(s, "park") /\ UNCHANGED ret
  /\ UNCHANGED <<netVars, drainVars, hand, sawClose, taken, runVars, histVars>>

\* The parked user function returns ctx.Err(), which Generate reports only
\* when the run's own context is cancelled.
Unpark(s) ==
  /\ pc[s] = "park" /\ StageCtxDone
  /\ Leave(s, IF ctxDone THEN "ctx" ELSE "nil")
  /\ UNCHANGED <<netVars, drainVars, hand, sawClose, taken, runVars, histVars>>

\* A micro-batching stage has worked its batch off: it leaves on the closed
\* flag, on ctx.Err() or (PollDrain) on its drain channel, or receives again.
BatchEnd(s) ==
  /\ pc[s] = "turn" /\ Kind[s] \in Batching
  /\ IF sawClose[s] \/ ctxDone
     THEN /\ Leave(s, IF sawClose[s] THEN "nil" ELSE "ctx")
          /\ UNCHANGED coop
     ELSE IF Kind[s] \in PollDrain /\ drained[s]
          THEN LeaveDrained(s)
          ELSE Goto(s, "recv") /\ UNCHANGED <<ret, coop>>
  /\ UNCHANGED <<netVars, refs, drained, hand, sawClose, taken, runVars, histVars>>

-----------------------------------------------------------------------------
(* Deferred calls, last registered first. *)

DeferSignalDone(s) ==
  /\ pc[s] = "sigdone"
  /\ done' = TRUE
  /\ Goto(s, "signal")
  /\ UNCHANGED <<netVars, drainVars, hand, sawClose, ret, taken,
                 stageCtx, ctxDone, parentDone, runErr, watcher, result, histVars>>

\* Mutant: a stage signals its own drain entry instead of its producer's.
SignalDrainMutant(c) ==
  /\ refs' = [refs EXCEPT ![c+1] = @ - 1]
  /\ drained' = [drained EXCEPT ![c+1] = @ \/ refs[c+1] - 1 = 0]

\* signalDrain(producer): the last reference closes the drain channel.
SignalDrain(c) ==
  /\ refs' = [refs EXCEPT ![c] = @ - 1]
  /\ drained' = [drained EXCEPT ![c] = @ \/ refs[c] - 1 = 0]

\* Mutant: a cooperative exit skips the deferred drainFn too.
DeferSignalDrainMutant(s) ==
  /\ pc[s] = "signal"
  /\ IF Kind[s] = "fused" \/ coop[s] THEN UNCHANGED <<refs, drained>>
                                     ELSE SignalDrain(s-1)
  /\ drainer' = IF coop[s] THEN drainer ELSE [drainer EXCEPT ![s-1] = "running"]
  /\ Goto(s, IF s = N THEN "return" ELSE "close")
  /\ UNCHANGED <<ch, closed, coop, hand, sawClose, ret, taken, runVars, histVars>>

\* The deferred drainFn, and go DrainChan(inCh) except on a cooperative exit.
\* A fused terminal replaced its producer's drain entry after the producer
\* had captured the old one, so its signal reaches nobody.  A terminal has no
\* output channel to close.
DeferSignalDrain(s) ==
  /\ pc[s] = "signal"
  /\ IF Kind[s] = "fused" THEN UNCHANGED <<refs, drained>> ELSE SignalDrain(s-1)
  /\ drainer' = IF coop[s] THEN drainer ELSE [drainer EXCEPT ![s-1] = "running"]
  /\ Goto(s, IF s = N THEN "return" ELSE "close")
  /\ UNCHANGED <<ch, closed, coop, hand, sawClose, ret, taken, runVars, histVars>>

\* Mutant: the output channel is closed on success only.
DeferCloseMutant(s) ==
  /\ pc[s] = "close"
  /\ closed' = [closed EXCEPT ![s] = ret[s] = "nil"]
  /\ Goto(s, "return")
  /\ UNCHANGED <<ch, drainer, drainVars, hand, sawClose, ret, taken, runVars, histVars>>

DeferClose(s) ==
  /\ pc[s] = "close"
  /\ closed' = [closed EXCEPT ![s] = TRUE]
  /\ Goto(s, "return")
  /\ UNCHANGED <<ch, drainer, drainVars, hand, sawClose, ret, taken, runVars, histVars>>

\* Mutant: a later error replaces the first one.
GroupReturnMutant(s) ==
  /\ pc[s] = "return"
  /\ Goto(s, "end")
  /\ IF ret[s] # "nil" THEN runErr' = ret[s] /\ ctxDone' = TRUE
                       ELSE UNCHANGED <<runErr, ctxDone>>
  /\ UNCHANGED <<netVars, drainVars, hand, sawClose, ret, taken,
                 done, stageCtx, parentDone, watcher, result, histVars>>

\* The errgroup keeps the first error and cancels the shared context.
GroupReturn(s) ==
  /\ pc[s] = "return"
  /\ Goto(s, "end")
  /\ IF ret[s] # "nil" /\ runErr = "nil"
     THEN runErr' = ret[s] /\ ctxDone' = TRUE
     ELSE UNCHANGED <<runErr, ctxDone>>
  /\ UNCHANGED <<netVars, drainVars, hand, sawClose, ret, taken,
                 done, stageCtx, parentDone, watcher, result, histVars>>

-----------------------------------------------------------------------------
(* The other goroutines. *)

\* DrainChan discards one item, or ends when the channel is closed.
DrainStep(c) ==
  /\ drainer[c] = "running"
  /\ \/ /\ ch[c] # << >>
        /\ ch' = [ch EXCEPT ![c] = Tail(@)]
        /\ UNCHANGED drainer
     \/ /\ ch[c] = << >> /\ closed[c]
        /\ drainer' = [drainer EXCEPT ![c] = "ended"]
        /\ UNCHANGED ch
  /\ UNCHANGED <<closed, drainVars, stageVars, runVars, histVars>>

\* Generate's watcher turns done or drain into a cancelled stageCtx.
Watch ==
  /\ Kind[1] = "generate" /\ pc[1] \notin {"return", "end"} /\ ~stageCtx
  /\ done \/ drained[1]
  /\ stageCtx' = TRUE
  /\ UNCHANGED <<netVars, drainVars, stageVars, done, ctxDone, parentDone,
                 runErr, watcher, result, histVars>>

\* The caller cancels the context it gave to Run.  With a drain timeout the
\* stages run under a context of their own.
Cancel ==
  /\ MayCancel /\ ~parentDone /\ result = "running"
  /\ parentDone' = TRUE
  /\ ctxDone' = (ctxDone \/ ~WithDrain)
  /\ UNCHANGED <<netVars, drainVars, stageVars, done, stageCtx, runErr, watcher,
                 result, histVars>>

\* Mutant: the goroutine of runWithDrain just ends with the caller's context.
DrainPhaseMutant ==
  /\ WithDrain /\ watcher = "wait" /\ parentDone
  /\ watcher' = "end"
  /\ UNCHANGED <<netVars, drainVars, stageVars, done, stageCtx, ctxDone, parentDone,
                 runErr, result, histVars>>

\* runWithDrain, phase 1: tell the sources to stop and start the timer.
DrainPhase ==
  /\ WithDrain /\ watcher = "wait" /\ parentDone
  /\ done' = TRUE /\ watcher' = "timer"
  /\ UNCHANGED <<netVars, drainVars, stageVars, stageCtx, ctxDone, parentDone,
                 runErr, result, histVars>>

\* runWithDrain, hard stop: the timer fires.
HardStop ==
  /\ watcher = "timer" /\ result = "running"
  /\ ctxDone' = TRUE /\ watcher' = "end"
  /\ UNCHANGED <<netVars, drainVars, stageVars, done, stageCtx, parentDone,
                 runErr, result, histVars>>

\* g.Wait() returns; a drained run hides context errors of its hard stop.
\* The deferred drainCancel ends the goroutine of runWithDrain.
RunReturn ==
  /\ result = "running" /\ \A s \in Stages : pc[s] = "end"
  /\ result' = IF WithDrain /\ parentDone /\ runErr = "ctx" THEN "nil" ELSE runErr
  /\ watcher' = "end"
  /\ UNCHANGED <<netVars, drainVars, stageVars, done, stageCtx, ctxDone,
                 parentDone, runErr, histVars>>

-----------------------------------------------------------------------------
Receive(s) == \/ Recv(s) \/ RecvClosed(s) \/ TakeExit(s) \/ RecvCtxDone(s)
              \/ RecvDrained(s) \/ Fill(s) \/ FillEnd(s)
Work(s) == WorkOk(s) \/ WorkSkip(s) \/ WorkFail(s)
SendOut(s) == Send(s) \/ SendCtxDone(s) \/ SendDrained(s) \/ SendStopped(s)
Turn(s) == SourceEnd(s) \/ Unpark(s) \/ BatchEnd(s)
Defers(s) == \/ DeferSignalDone(s) \/ DeferSignalDrain(s) \/ DeferClose(s)
             \/ GroupReturn(s)

StageStep(s) == Receive(s) \/ Work(s) \/ SendOut(s) \/ Turn(s) \/ Defers(s)

Finished == /\ result # "running"
            /\ \A c \in Chans : drainer[c] # "running"

\* The process goes on after Run has returned; the model idles.
Idle == Finished /\ UNCHANGED vars

Next == \/ \E s \in Stages : StageStep(s)
        \/ \E c \in Chans : DrainStep(c)
        \/ Watch \/ Cancel \/ DrainPhase \/ HardStop \/ RunReturn \/ Idle

\* Every goroutine that can go on does; user functions return; the drain
\* timer fires.  The caller need not cancel.
Fairness == /\ \A s \in Stages : WF_vars(StageStep(s))
            /\ \A c \in Chans : WF_vars(DrainStep(c))
            /\ WF_vars(Watch) /\ WF_vars(DrainPhase) /\ WF_vars(HardStop)
            /\ WF_vars(RunReturn)

Spec == Init /\ [][Next]_vars /\ Fairness

-----------------------------------------------------------------------------
(* Safety. *)

\* A producer's drain channel closes only after its consumer has left its
\* loop for good and run its deferred drainFn: no stage is ever told to stop
\* producing while somebody still reads what it sends (signalDrain).
DrainSafety == \A c \in Chans : drained[c] => pc[c+1] \in Signalled

\* A stage that left cooperatively spawns no DrainChan, so by then its own
\* producer must have been told to stop, or it may block on a full channel
\* for ever (the cooperativeDrain flag and drainFn).
NoStranding ==
  \A s \in Stages \ {1} : (coop[s] /\ pc[s] \in Signalled) => drained[s-1]

\* Run reports a context error only if the caller cancelled the context: the
\* cancellations a failing stage causes in its siblings never win over the
\* failure itself (RunStages, runWithDrain).
ErrorAttribution == result = "ctx" => parentDone /\ ~WithDrain

\* The terminal sees the source's items in order, each at most once, and with
\* no gap except what a stage dropped by its own rule: teardown and DrainChan
\* never take an item out of the middle of the stream.
Skipped == {p[2] : p \in skipped}
Delivered == {delivered[i] : i \in 1..Len(delivered)}
InOrderNoGap ==
  /\ \A i, j \in 1..Len(delivered) : i < j => delivered[i] < delivered[j]
  /\ \A x \in Delivered : 1..x \subseteq Delivered \cup Skipped

\* When Run returns and nothing cancelled the stages, nothing is lost but what
\* an early exit leaves behind: no Take lets more than TakeN items through,
\* and unless one has had them all, every item the source sent reached the
\* terminal or was dropped by a stage's own rule, and without a cancelled
\* caller the source has sent everything.
Emitted == NItems - Len(hand[1])
TakeStages == {s \in Stages : Kind[s] = "take"}
SkippedBy(S) == Cardinality({p \in skipped : p[1] \in S})
PassedBy(t) == Len(delivered) + SkippedBy(t+1..N)
DeliveryComplete ==
  (result # "running" /\ ~ctxDone) =>
     /\ Len(delivered) + SkippedBy(Stages) <= Emitted
     /\ \A t \in TakeStages : PassedBy(t) <= TakeN
     /\ (\A t \in TakeStages : PassedBy(t) < TakeN) =>
          /\ Len(delivered) + SkippedBy(Stages) = Emitted
          /\ parentDone \/ Emitted = NItems

-----------------------------------------------------------------------------
(* The inductive strengthening of the drain and error invariants. *)

\* Where a stage is says what kind it is, and a stage about to send holds an
\* item.
Shape ==
  \A s \in Stages :
    /\ pc[s] \in {"recv", "fill", "work", "sigdone", "signal"} => Kind[s] \notin Sources
    /\ pc[s] \in {"send", "close"} => Kind[s] \notin Terminals
    /\ pc[s] = "send" => hand[s] # << >>
    /\ pc[s] = "fill" => Kind[s] \in Batching

\* Stage s has run its deferred drainFn on the entry its producer captured.
HasSignalled(s) == pc[s] \in Signalled /\ Kind[s] # "fused"

\* The reference count is the initial one less the signals sent so far, the
\* drain channel is closed exactly when it has reached zero, and only a
\* stage with a drain case ever leaves cooperatively.
DrainInv ==
  /\ \A c \in Chans :
       /\ refs[c] = InitialRefs(Consumers[c]) - (IF HasSignalled(c+1) THEN 1 ELSE 0)
       /\ drained[c] <=> refs[c] = 0
  /\ \A s \in Stages : coop[s] => Kind[s] # "fused"

\* A stage returns a context error only under a cancelled context, and a
\* context is cancelled only by the caller or by a recorded failure.
ErrorInv ==
  /\ \A s \in Stages : ret[s] = "ctx" => ctxDone
  /\ ctxDone => parentDone \/ runErr = "user"
  /\ runErr = "ctx" => parentDone
  /\ watcher = "timer" => parentDone /\ WithDrain
  /\ ErrorAttribution

-----------------------------------------------------------------------------
(* Liveness. *)

\* Run returns: no early exit, failure or end of input leaves a stage
\* blocked on a channel nobody reads or writes any more.
Termination == <>(result # "running")

\* Run returns after the caller cancels its context, even if the source
\* would go on for ever.
CancelTerminates == parentDone ~> (result # "running")

\* No DrainChan goroutine outlives the run for ever.
NoLeak == [](result # "running" => <>Finished)
=============================================================================
