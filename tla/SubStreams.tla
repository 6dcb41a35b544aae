----------------------------- MODULE SubStreams -----------------------------
(***************************************************************************)
(* The stages that turn each item into a stream of its own: FlatMap        *)
(* (serial, also as ConcatMap, its fast path, concurrent and ordered),     *)
(* SwitchMap and ExhaustMap, without a supervision policy.  A goroutine    *)
(* per item runs the user's function, whose outputs are collected and sent *)
(* only when the call has succeeded; the fast path sends them at once.     *)
(***************************************************************************)
EXTENDS Integers, FiniteSets, SequencesExt

CONSTANTS
  SubKinds,    \* the stages of the run
  NItems,      \* the input is 1..NItems, then it is closed
  Concurrency, \* cfg.concurrency of the concurrent and ordered stages
  Widths,      \* how many outputs an item may have
  OutCap,      \* buffer of the output channel
  Retryable,   \* items whose first failure the error handler may retry
  Batch        \* ReceiveBatchSize

VARIABLES
  kind,      \* the stage
  next,      \* next item of the input; NItems + 1 when it is closed
  disp,      \* the stage's own goroutine: where it is, and why it stops
  batch,     \* items received and not yet handed over
  g,         \* g[i]: the goroutine (serial: the call) of item i
  cur,       \* SwitchMap: the item whose cancel function is kept; 0: none
  over,      \* SwitchMap: items whose context has been cancelled
  inner,     \* cancel() of innerCtx has been called
  errs,      \* the one-slot error channel: "nil" or the error in it
  line, dr,  \* ordered: slots in line, and the drainer
  ch, consumer, ctx,  \* output channel, "reading", "discarding" or "gone", the run's context
  ret,       \* "run", or what the stage returned
  sent, failed  \* history: outputs sent; items whose failure nobody handled

stageVars == <<disp, batch, g, cur, over, inner, errs, line, dr, ret, failed>>
vars == <<kind, next, stageVars, ch, consumer, ctx, sent>>

Items == 1..NItems
Is(k) == kind = k
Alone == kind \in {"fast", "serial"}
\* The drain channel closes when the consumer leaves.
Left == consumer # "reading"
Live == {i \in Items : g[i].pc \in {"call", "wait", "send"}}

Init ==
  /\ kind \in SubKinds /\ next = 1 /\ disp = [pc |-> "recv", why |-> "none"] /\ batch = << >>
  /\ g = [i \in Items |-> [pc |-> "none", n |-> 0, j |-> 0, tries |-> 0]]
  /\ cur = 0 /\ over = {} /\ inner = FALSE /\ errs = "nil" /\ line = << >>
  /\ dr = [pc |-> IF kind = "ordered" THEN "take" ELSE "end", item |-> 0, err |-> "nil"]
  /\ ch = << >> /\ consumer = "reading" /\ ctx = FALSE /\ ret = "run"
  /\ sent = << >> /\ failed = {}

-----------------------------------------------------------------------------
(* The stage's goroutine. *)
dispRest == <<kind, ch, consumer, ctx, sent, failed>>

Start(i) == g' = [g EXCEPT ![i].pc = "call"]
Goes(pc) == disp' = [disp EXCEPT !.pc = pc]
Ends(why) == disp' = [pc |-> "wait", why |-> why]

\* An item comes.  SwitchMap cancels the previous item's goroutine and starts
\* this one's.
SwitchRecv ==
  /\ Is("switch")
  /\ over' = over \cup ({cur} \ {0}) /\ cur' = next
  /\ Start(next) /\ UNCHANGED <<batch, disp>>

\* ExhaustMap starts one only if none is live and drops the item otherwise.
ExhaustRecv ==
  /\ Is("exhaust")
  /\ IF Live = {} THEN Start(next) ELSE UNCHANGED g
  /\ UNCHANGED <<batch, cur, over, disp>>

\* FlatMap works on it, or queues for a token.
FlatRecv ==
  /\ kind \notin {"switch", "exhaust"}
  /\ batch' = <<next>> /\ Goes(IF Alone THEN "next" ELSE "sem")
  /\ UNCHANGED <<g, cur, over>>

Receive ==
  /\ disp.pc = "recv" /\ next <= NItems /\ batch = << >> /\ next' = next + 1
  /\ SwitchRecv \/ ExhaustRecv \/ FlatRecv
  /\ UNCHANGED <<dispRest, inner, errs, line, dr, ret>>

\* The fast path takes along what is ready.
Fill ==
  /\ Is("fast") /\ disp.pc = "next" /\ Live = {} /\ next <= NItems
  /\ batch # << >> /\ g[batch[1]].pc = "none" /\ Len(batch) < Batch /\ batch[1] + Len(batch) = next
  /\ batch' = Append(batch, next) /\ next' = next + 1
  /\ UNCHANGED <<dispRest, disp, g, cur, over, inner, errs, line, dr, ret>>

\* A serial stage works on its items itself.
TakeUp ==
  /\ Alone /\ disp.pc = "next" /\ Live = {}
  /\ IF batch = << >> THEN Goes("recv") /\ UNCHANGED <<g, batch>>
                      ELSE Start(batch[1]) /\ batch' = Tail(batch) /\ UNCHANGED disp
  /\ UNCHANGED <<dispRest, next, cur, over, inner, errs, line, dr, ret>>

\* Mutant: a goroutine whose item is skipped keeps its token.
SpawnMutant ==
  /\ disp.pc = "sem" /\ Cardinality(Live \cup {i \in Items : g[i].pc = "skip"}) < Concurrency
  /\ IF Is("ordered") THEN Len(line) < 2 * Concurrency /\ line' = Append(line, batch[1]) ELSE UNCHANGED line
  /\ Start(batch[1]) /\ batch' = << >> /\ Goes("recv")
  /\ UNCHANGED <<dispRest, next, cur, over, inner, errs, dr, ret>>

\* A token of the semaphore, the slot of an ordered stage, and the goroutine.
\* (The goroutine gives its token back as the last thing it does.  Nobody else
\* takes tokens, so that holding one while waiting for a slot shows nowhere
\* and the two waits are one step.)
Spawn ==
  /\ disp.pc = "sem" /\ Cardinality(Live) < Concurrency
  /\ IF Is("ordered") THEN Len(line) < 2 * Concurrency /\ line' = Append(line, batch[1]) ELSE UNCHANGED line
  /\ Start(batch[1]) /\ batch' = << >> /\ Goes("recv")
  /\ UNCHANGED <<dispRest, next, cur, over, inner, errs, dr, ret>>

\* Why the receiving loop ends.
Stop ==
  /\ \/ disp.pc = "recv" /\ batch = << >> /\ next > NItems /\ Ends("closed") /\ UNCHANGED <<inner, over, errs>>
     \/ /\ disp.pc = "recv" /\ ctx /\ Ends("ctx") /\ UNCHANGED <<inner, errs>>
        /\ over' = IF Is("switch") THEN over \cup ({cur} \ {0}) ELSE over
     \/ /\ disp.pc = "recv" /\ Left /\ Ends("drain") /\ UNCHANGED errs
        /\ inner' = (kind \in {"concurrent", "ordered"})
        /\ over' = IF Is("switch") THEN over \cup ({cur} \ {0}) ELSE over
     \/ /\ disp.pc = "recv" /\ kind \in {"switch", "exhaust"} /\ errs # "nil" /\ Ends(errs)
        /\ errs' = "nil" /\ UNCHANGED inner
        /\ over' = IF Is("switch") THEN over \cup ({cur} \ {0}) ELSE over
     \/ disp.pc \in {"recv", "sem"} /\ kind \in {"concurrent", "ordered"} /\ (inner \/ ctx) /\ Ends("inner") /\ UNCHANGED <<inner, over, errs>>
  /\ UNCHANGED <<dispRest, next, batch, g, cur, line, dr, ret>>

\* wg.Wait (ordered: all tokens, then the drainer) and the result.  SwitchMap
\* returns nil when it is cancelled; ExhaustMap does not look at errCh when
\* its consumer has left.
Return ==
  /\ disp.pc = "wait" /\ Live = {} /\ ret = "run" /\ dr.pc = "end"
  /\ ret' = CASE Is("switch") -> (IF disp.why = "user" THEN "user" ELSE errs)
              [] Is("exhaust") -> (IF disp.why \in {"ctx", "user"} THEN disp.why
                                   ELSE IF disp.why = "closed" THEN errs ELSE "nil")
              [] Is("concurrent") -> errs
              [] Is("ordered") -> dr.err
              [] OTHER -> (IF disp.why \in {"ctx", "user"} THEN disp.why ELSE "nil")
  /\ UNCHANGED <<dispRest, next, disp, batch, g, cur, over, inner, errs, line, dr>>

Dispatch == Receive \/ Fill \/ TakeUp \/ Spawn \/ Stop \/ Return

-----------------------------------------------------------------------------
(* The goroutine of item i: ProcessFlatMapItem. *)
workRest == <<kind, next, batch, cur, over, line, dr, consumer, ctx, ret>>

\* The context the goroutine sends and waits with.
Done(i) ==
  \/ ctx
  \/ kind \in {"concurrent", "ordered"} /\ inner
  \/ Is("switch") /\ i \in over

\* The goroutine of i ends with error e, or with none ("nil").  It reports the first
\* error, unless its own context is cancelled (SwitchMap, ExhaustMap); an
\* ordered one leaves it in its slot; a serial stage returns it.
Finish(i, e) ==
  LET kept == IF errs = "nil" THEN e ELSE errs IN
  /\ g' = [g EXCEPT ![i].pc = IF e = "nil" THEN "done" ELSE e, ![i].tries = 0]
  /\ CASE e = "nil" -> UNCHANGED <<errs, inner, disp>>
       [] e # "nil" /\ Alone -> Ends(e) /\ UNCHANGED <<errs, inner>>
       [] e # "nil" /\ Is("concurrent") -> errs' = kept /\ inner' = TRUE /\ UNCHANGED disp
       [] e # "nil" /\ Is("ordered") -> UNCHANGED <<errs, inner, disp>>
       [] OTHER -> errs' = (IF Done(i) THEN errs ELSE kept) /\ UNCHANGED <<inner, disp>>

\* The call succeeds with n outputs.
Succeed(i) ==
  /\ g[i].pc = "call"
  /\ \E n \in Widths :
       IF Is("ordered") \/ n = 0
       THEN g' = [g EXCEPT ![i].pc = "done", ![i].n = n, ![i].tries = 0]
       ELSE g' = [g EXCEPT ![i].pc = "send", ![i].n = n]
  /\ UNCHANGED <<workRest, errs, inner, disp, ch, sent, failed>>

\* It fails: the handler skips the item, tries again after a while, or gives
\* up.  (The fast path has no handler.)
Fail(i) ==
  /\ \/ g[i].pc = "call"
     \/ g[i].pc = "send" /\ Is("fast")
  /\ \/ Finish(i, "user") /\ failed' = IF Done(i) THEN failed ELSE failed \cup {i}
     \/ /\ ~Is("fast") /\ UNCHANGED <<errs, inner, disp, failed>>
        /\ \/ g' = [g EXCEPT ![i].pc = "skip", ![i].tries = 0]
           \/ i \in Retryable /\ g[i].tries = 0 /\ g' = [g EXCEPT ![i].pc = "wait", ![i].tries = @ + 1]
  /\ UNCHANGED <<workRest, ch, sent>>

Backoff(i) ==
  /\ g[i].pc = "wait"
  /\ \/ Start(i) /\ UNCHANGED <<errs, inner, disp>>
     \/ Done(i) /\ Finish(i, "ctx")
  /\ UNCHANGED <<workRest, ch, sent, failed>>

\* outbox.Send of the next output: the channel or the context, whichever
\* the select takes; a bare send on the fast path.
Send(i) ==
  /\ g[i].pc = "send"
  /\ \/ /\ Len(ch) < OutCap
        /\ ch' = Append(ch, <<i, g[i].j + 1>>) /\ sent' = Append(sent, <<i, g[i].j + 1>>)
        /\ IF g[i].j + 1 = g[i].n THEN Finish(i, "nil")
           ELSE g' = [g EXCEPT ![i].j = @ + 1] /\ UNCHANGED <<errs, inner, disp>>
     \/ Done(i) /\ ~Is("fast") /\ Finish(i, "ctx") /\ UNCHANGED <<ch, sent>>
  /\ UNCHANGED <<workRest, failed>>

Work(i) == Succeed(i) \/ Backoff(i) \/ Send(i)

-----------------------------------------------------------------------------
(* The drainer of an ordered stage. *)
drainRest == <<kind, next, disp, batch, cur, over, errs, consumer, ctx, ret, failed>>

DrainerTakes ==
  /\ dr.pc = "take"
  /\ \/ line # << >> /\ line' = Tail(line) /\ dr' = [dr EXCEPT !.pc = "get", !.item = Head(line)]
     \/ line = << >> /\ disp.pc = "wait" /\ Live = {} /\ dr' = [dr EXCEPT !.pc = "end"] /\ UNCHANGED line
  /\ UNCHANGED <<drainRest, g, inner, ch, sent>>
DrainerGets ==
  /\ dr.pc = "get"
  /\ LET r == g[dr.item] IN
       CASE r.pc = "done" -> dr' = [dr EXCEPT !.pc = IF r.n > 0 THEN "send" ELSE "take"] /\ UNCHANGED inner
         [] r.pc = "skip" -> dr' = [dr EXCEPT !.pc = "take"] /\ UNCHANGED inner
         [] r.pc \in {"user", "ctx"} -> dr' = [dr EXCEPT !.pc = "end", !.err = r.pc] /\ inner' = TRUE
         [] OTHER -> FALSE
  /\ UNCHANGED <<drainRest, g, line, ch, sent>>
DrainerSends ==
  /\ dr.pc = "send"
  /\ LET i == dr.item IN
       \/ /\ Len(ch) < OutCap
          /\ ch' = Append(ch, <<i, g[i].j + 1>>) /\ sent' = Append(sent, <<i, g[i].j + 1>>)
          /\ g' = [g EXCEPT ![i].j = @ + 1]
          /\ dr' = [dr EXCEPT !.pc = IF g[i].j + 1 = g[i].n THEN "take" ELSE "send"] /\ UNCHANGED inner
       \/ (inner \/ ctx) /\ dr' = [dr EXCEPT !.pc = "end", !.err = "ctx"] /\ inner' = TRUE /\ UNCHANGED <<ch, g, sent>>
  /\ UNCHANGED <<drainRest, line>>
Drainer == DrainerTakes \/ DrainerGets \/ DrainerSends

-----------------------------------------------------------------------------
(* The consumer and the caller.  A consumer whose own consumer has left goes *)
(* without emptying the channel (DrainChan); one that is cancelled does not. *)
envRest == <<kind, next, stageVars, sent>>
Consume == consumer # "gone" /\ ch # << >> /\ ch' = Tail(ch) /\ UNCHANGED <<envRest, consumer, ctx>>
Leave ==
  /\ consumer = "reading" /\ ret = "run"
  /\ consumer' \in (IF ctx THEN {"discarding"} ELSE {"discarding", "gone"})
  /\ UNCHANGED <<envRest, ch, ctx>>
Cancel == ret = "run" /\ ~ctx /\ ctx' = TRUE /\ UNCHANGED <<envRest, ch, consumer>>

\* A send waits for room in a channel nobody empties any more.
Stuck ==
  /\ consumer = "gone" /\ Len(ch) = OutCap
  /\ \/ \E i \in Items : g[i].pc = "send" /\ (Is("fast") \/ ~Done(i))
     \/ dr.pc = "send" /\ ~inner /\ ~ctx
Halted == (ret # "run" \/ Stuck) /\ UNCHANGED vars

Next ==
  \/ Dispatch \/ Drainer \/ Consume \/ Leave \/ Cancel \/ Halted
  \/ \E i \in Items : Work(i) \/ Fail(i)

\* Every goroutine goes on, and the user's function returns.
Fairness ==
  /\ WF_vars(Dispatch) /\ WF_vars(Drainer) /\ WF_vars(Consume)
  /\ \A i \in Items : WF_vars(Work(i))

Spec == Init /\ [][Next]_vars /\ Fairness

-----------------------------------------------------------------------------
Outputs(i) == {sent[p][2] : p \in {q \in DOMAIN sent : sent[q][1] = i}}
\* Nobody has cut the run short.
Whole == ret = "nil" /\ ~ctx /\ ~Left

\* Outputs of an item go out once, in order and without a gap, whatever was
\* retried; serial, ordered and exhausting stages send item after item; and a
\* stage that ends by itself has sent all outputs of every item that was not
\* skipped, SwitchMap at least those of the last one, ExhaustMap those of the
\* items it took.
SubStreamsWhole ==
  /\ \A p, q \in DOMAIN sent : p < q =>
       /\ sent[p][1] = sent[q][1] => sent[p][2] < sent[q][2]
       /\ kind \notin {"concurrent", "switch"} => sent[p][1] <= sent[q][1]
  /\ \A i \in Items : \E n \in 0..g[i].n : Outputs(i) = 1..n
  /\ Whole => \A i \in Items :
       \/ g[i].pc = "done" /\ Outputs(i) = 1..g[i].n
       \/ g[i].pc = "skip" /\ Outputs(i) = {}
       \/ Is("switch") /\ i < NItems
       \/ Is("exhaust") /\ g[i].pc = "none"

\* A failure that no handler took and that no cancellation came before is the
\* stage's result, unless the stage had been told to stop; and a stage
\* reports a failure or a cancellation only if there was one, where the
\* parting consumer of a parallel FlatMap counts as one.
FailureSurfaces ==
  /\ Whole => failed = {}
  /\ ret = "user" => \E i \in Items : g[i].pc = "user"
  /\ ret = "ctx" => ctx \/ (Left /\ kind \in {"concurrent", "ordered"})

\* The stage has returned, or a send waits for a consumer that has left
\* because its own consumer had.
Ended == ret # "run" \/ Stuck
=============================================================================
