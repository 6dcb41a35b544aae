------------------------------- MODULE Effects -------------------------------
(***************************************************************************)
(* Successive runs of source -> Effect -> consumer, where the Effect may   *)
(* be a Segment whose output a development store captures and replays.     *)
(* The idempotency store and the development store outlive a run, which    *)
(* may fail, be cancelled, be left by its consumer or crash.               *)
(***************************************************************************)
EXTENDS Integers, FiniteSets, SequencesExt

CONSTANTS
  Policies,     \* records: idem: "none", "run" (one store per run) or "store" (one for all);
                \* max: MaxAttempts; len: length of the input 1..len; dry: WithDryRun; required: Required or BestEffort; seg: with a DevStore
  EffItems,     \* bound on the length of an input
  Key(_),       \* the idempotency key; 0 is the empty one
  MaxRuns,      \* bound on the runs
  EffCap        \* buffer of a channel

VARIABLES
  policy,
  run, kind,   \* number of the run; "live" or "replay"
  phase,       \* "on" or, between runs, the result
  next,        \* next item of the input, or of the snapshot in a replay
  e,           \* the Effect: where it is, its item, attempts made, the outcome
  seen,        \* keys in the idempotency store
  stats,       \* success, failure and deduped counters of the run
  ch,          \* the Effect's output channel
  cap, cch,    \* the goroutine that captures or replays, its buffer and its output channel
  consumer, ctx,
  snap,        \* the snapshot: how: "none", "torn" or "ok"; its items
  late,        \* <<run, snapshot>> that goroutines of earlier runs have yet to save
  did,         \* history: items whose effect took place
  claims,      \* history: <<run, item>> for whose key the store was asked first
  episodes,    \* history: <<run, item>> whose function was called
  outs, got    \* history: outcomes sent by the Effect in each run; outcomes received in this run

vars == <<policy, run, kind, phase, next, e, seen, stats, ch, cap, cch, consumer, ctx, snap, late,
          did, claims, episodes, outs, got>>

Items == 1..EffItems
Idle == [pc |-> "recv", item |-> 0, tries |-> 0, how |-> "none"]
NoStats == [ok |-> 0, fail |-> 0, dup |-> 0]
Running == phase = "on"
Live == Running /\ kind = "live"
Captures == Live /\ policy.seg
Left == consumer \in {"discarding", "gone"}

\* Apply asks the store for a snapshot; an unreadable one counts as missing.
Begins == IF policy.seg /\ snap.how = "ok" THEN "replay" ELSE "live"
NoCapture == [pc |-> "recv", item |-> << >>, buf |-> << >>, took |-> << >>]
Saved(b) == [how |-> "ok", items |-> b]

\* s is q with some of its elements left out.
Thins(s, q) ==
  \E at \in [1..Len(s) -> 1..Len(q)] :
    /\ \A m, n \in 1..Len(s) : m < n => at[m] < at[n]
    /\ \A n \in 1..Len(s) : s[n] = q[at[n]]
Thinned(q) == {s \in UNION {[1..k -> ToSet(q)] : k \in 0..Len(q)} : Thins(s, q)}

Init ==
  /\ policy \in Policies /\ run = 1 /\ kind = "live" /\ phase = "on" /\ next = 1 /\ e = Idle /\ seen = {} /\ stats = NoStats
  /\ ch = << >> /\ cap = NoCapture /\ cch = << >>
  /\ consumer = "reading" /\ ctx = FALSE /\ snap = [how |-> "none", items |-> << >>] /\ late = {}
  /\ did = {} /\ claims = {} /\ episodes = {}
  /\ outs = [r \in 1..MaxRuns |-> << >>] /\ got = << >>

-----------------------------------------------------------------------------
(* The Effect. *)
eRest == <<policy, run, kind, phase, cap, cch, consumer, ctx, snap, late, got>>
HasKey(i) == policy.idem # "none" /\ Key(i) # 0
At(pc, i, n, how) == e' = [pc |-> pc, item |-> i, tries |-> n, how |-> how]
Counts(c) == stats' = [stats EXCEPT ![c] = @ + 1]

\* The store's Add of a key it does not have.
Add(key) == seen' = seen \cup {key}

Claims(i) == claims' = claims \cup {<<run, i>>}

\* Mutant: the key is looked up but not added.
ReceiveMutant ==
  /\ Live /\ e.pc = "recv" /\ next <= policy.len /\ next' = next + 1
  /\ IF policy.dry THEN At("send", next, 0, "dry") ELSE At("try", next, 0, "none")
  /\ UNCHANGED <<seen, stats, claims, eRest, ch, did, episodes, outs>>

\* An item comes.  A dry run passes it on; a key that is in the store makes
\* it a duplicate; a store that fails, and that may have added the key, makes
\* it a failure.
Receive ==
  /\ Live /\ e.pc = "recv" /\ next <= policy.len /\ next' = next + 1
  /\ \/ policy.dry /\ At("send", next, 0, "dry") /\ UNCHANGED <<seen, stats, claims>>
     \/ /\ ~policy.dry /\ ~HasKey(next)
        /\ At("try", next, 0, "none") /\ UNCHANGED <<seen, stats, claims>>
     \/ /\ ~policy.dry /\ HasKey(next) /\ Key(next) \notin seen
        /\ Add(Key(next)) /\ Claims(next) /\ At("try", next, 0, "none") /\ UNCHANGED stats
     \/ /\ ~policy.dry /\ HasKey(next) /\ Key(next) \in seen
        /\ At("send", next, 0, "dup") /\ Counts("dup") /\ UNCHANGED <<seen, claims>>
     \/ /\ ~policy.dry /\ HasKey(next) /\ policy.idem = "store"
        /\ \/ UNCHANGED <<seen, claims>>
           \/ Key(next) \notin seen /\ Add(Key(next)) /\ Claims(next)
        /\ At("send", next, 0, "fail") /\ Counts("fail")
  /\ UNCHANGED <<eRest, ch, did, episodes, outs>>

\* Mutant: an effect that fails at the last attempt is not counted.
OutcomeMutant(how) == /\ At("send", e.item, 0, how)
                      /\ IF how = "ok" THEN Counts("ok") ELSE UNCHANGED stats

\* An outcome of the attempts, counted before it is sent.
Outcome(how) == At("send", e.item, 0, how) /\ Counts(how)

\* An attempt begins: the function is called, unless the run is cancelled.
\* Its effect may take place even if the call fails or never returns.
Attempt ==
  /\ Live /\ e.pc = "try"
  /\ \/ ctx /\ Outcome("fail") /\ UNCHANGED <<did, episodes>>
     \/ /\ ~ctx /\ At("call", e.item, e.tries, "none") /\ UNCHANGED stats
        /\ episodes' = episodes \cup {<<run, e.item>>} /\ did' \in {did, did \cup {e.item}}
  /\ UNCHANGED <<eRest, next, seen, ch, claims, outs>>
\* The call returns.
Return ==
  /\ Live /\ e.pc = "call"
  /\ \/ e.item \in did /\ Outcome("ok")
     \/ Outcome("fail") \* the last attempt, or an error that is not retryable
     \/ e.tries + 1 < policy.max /\ At("wait", e.item, e.tries + 1, "none") /\ UNCHANGED stats
  /\ UNCHANGED <<eRest, next, seen, ch, did, claims, episodes, outs>>
Backoff ==
  /\ Live /\ e.pc = "wait"
  /\ \/ At("try", e.item, e.tries, "none") /\ UNCHANGED stats
     \/ ctx /\ Outcome("fail")
  /\ UNCHANGED <<eRest, next, seen, ch, did, claims, episodes, outs>>
Send ==
  /\ Live /\ e.pc = "send" /\ Len(ch) < EffCap
  /\ ch' = Append(ch, <<e.item, e.how>>) /\ outs' = [outs EXCEPT ![run] = Append(@, <<e.item, e.how>>)]
  /\ e' = Idle /\ UNCHANGED <<eRest, next, seen, stats, did, claims, episodes>>
EffectEnds ==
  /\ Live
  /\ \/ e.pc = "recv" /\ next > policy.len
     \/ e.pc \in {"recv", "send"} /\ (ctx \/ Left)
  /\ e' = [Idle EXCEPT !.pc = "end"]
  /\ UNCHANGED <<eRest, next, seen, stats, ch, did, claims, episodes, outs>>

-----------------------------------------------------------------------------
(* captureSegment, tryReplaySegment and the store. *)
cRest == <<policy, run, kind, phase, next, e, seen, stats, consumer, ctx, did, claims, episodes, outs, got>>

\* An item that cannot be marshalled is forwarded but not captured.
CaptureTakes ==
  /\ Captures /\ cap.pc = "recv" /\ ch # << >> /\ ch' = Tail(ch)
  /\ \E b \in {cap.buf, Append(cap.buf, Head(ch))} :
       cap' = [pc |-> "send", item |-> Head(ch), buf |-> b, took |-> Append(cap.took, Head(ch))]
  /\ UNCHANGED <<cRest, cch, snap, late>>
CaptureSends ==
  /\ Captures /\ cap.pc = "send" /\ Len(cch) < EffCap
  /\ cch' = Append(cch, cap.item) /\ cap' = [cap EXCEPT !.pc = "recv"]
  /\ UNCHANGED <<cRest, ch, snap, late>>

\* Mutant: the output is closed first and the snapshot saved afterwards.
CaptureEndsMutant ==
  /\ Captures /\ cap.pc = "recv" /\ ch = << >> /\ e.pc = "end"
  /\ cap' = [cap EXCEPT !.pc = "end"] /\ late' = late \cup {<<run, cap.buf>>}
  /\ UNCHANGED <<cRest, ch, cch, snap>>

\* The input is closed: Save, then close.
CaptureEnds ==
  /\ Captures /\ cap.pc = "recv" /\ ch = << >> /\ e.pc = "end"
  /\ cap' = [cap EXCEPT !.pc = "save"] /\ UNCHANGED <<cRest, ch, cch, snap, late>>
Save ==
  /\ Captures /\ cap.pc = "save"
  /\ \/ snap' = [how |-> "torn", items |-> << >>] /\ cap' = [cap EXCEPT !.pc = "write"]
     \/ cap' = [cap EXCEPT !.pc = "end"] /\ UNCHANGED snap \* Save fails: dropped
  /\ UNCHANGED <<cRest, ch, cch, late>>
Write ==
  /\ Captures /\ cap.pc = "write" /\ snap' = Saved(cap.buf) /\ cap' = [cap EXCEPT !.pc = "end"]
  /\ UNCHANGED <<cRest, ch, cch, late>>
LateSave ==
  \E s \in late : snap' = Saved(s[2]) /\ late' = late \ {s} /\ UNCHANGED <<cRest, ch, cap, cch>>
repRest == <<policy, run, kind, phase, e, seen, stats, consumer, ctx, did, claims, episodes, outs, got, ch,
             snap, late>>
ReplayOn == kind = "replay" /\ cap.pc = "recv" /\ next <= Len(cap.buf) /\ ~ctx

ReplaySends ==
  /\ Running /\ ReplayOn /\ Len(cch) < EffCap
  /\ cch' = Append(cch, cap.buf[next]) /\ next' = next + 1
  /\ UNCHANGED <<repRest, cap>>
\* An item cannot be decoded: the replay ends, without an error.
ReplayFails ==
  /\ Running /\ ReplayOn
  /\ cap' = [cap EXCEPT !.pc = "end"] /\ UNCHANGED <<repRest, next, cch>>

-----------------------------------------------------------------------------
(* The consumer, the caller, and the runs. *)
rRest == <<policy, run, kind, phase, next, e, seen, stats, cap, snap, late, did, claims, episodes, outs>>
Final == IF policy.seg THEN cch ELSE ch
\* Nothing more will come.
FinalClosed ==
  CASE Captures -> cap.pc = "end"
    [] Live /\ ~policy.seg -> e.pc = "end"
    [] OTHER -> ~ReplayOn

Consume ==
  /\ Running /\ consumer # "gone" /\ Final # << >>
  /\ IF policy.seg THEN cch' = Tail(cch) /\ UNCHANGED ch ELSE ch' = Tail(ch) /\ UNCHANGED cch
  /\ got' = IF consumer = "reading" THEN Append(got, Head(Final)) ELSE got
  /\ UNCHANGED <<rRest, consumer, ctx>>
ConsumerEnds ==
  /\ Running /\ consumer = "reading"
  /\ \/ FinalClosed /\ Final = << >> /\ consumer' = "done" /\ UNCHANGED ctx
     \/ consumer' \in {"discarding", "gone"} /\ ~ctx /\ UNCHANGED ctx  \* it has had enough
     \/ consumer' = "discarding" /\ ctx' = TRUE                \* it fails, or is cancelled
  /\ UNCHANGED <<rRest, ch, cch, got>>

\* Run returns: the stages have ended; the capturing goroutine is not one of
\* them.  It will save what is left in its input, unless it waits for room in
\* an output nobody empties.
StagesEnded == consumer # "reading" /\ (IF Live THEN e.pc = "end" ELSE ~ReplayOn)
Rest == ch \o (IF cap.pc = "send" THEN <<cap.item>> ELSE << >>)
Pending ==
  IF Captures /\ cap.pc # "end" /\ (consumer = "gone" => Len(Rest) + Len(cch) <= EffCap)
  THEN {<<run, cap.buf \o s>> : s \in Thinned(ch)} ELSE {}
RunReturns ==
  /\ Running /\ StagesEnded
  /\ phase' = CASE ctx -> "failure"
                [] ~ctx /\ stats.fail = 0 -> "success"
                [] ~ctx /\ stats.fail > 0 -> IF policy.required THEN "failure" ELSE "partial"
  /\ \/ Pending = {} /\ UNCHANGED late
     \/ \E s \in Pending : late' = late \cup {s}
  /\ UNCHANGED <<policy, run, kind, next, e, seen, stats, ch, cap, cch, consumer, ctx, snap, did, claims, episodes, outs, got>>

\* The process dies; only the two stores remain.
Crash ==
  /\ Running /\ phase' = "crash" /\ late' = {}
  /\ UNCHANGED <<policy, run, kind, next, e, seen, stats, ch, cap, cch, consumer, ctx, snap, did, claims, episodes, outs, got>>
NextRun ==
  /\ ~Running /\ run < MaxRuns /\ run' = run + 1 /\ kind' = Begins /\ phase' = "on"
  /\ next' = 1 /\ e' = Idle /\ stats' = NoStats /\ ch' = << >> /\ cch' = << >>
  /\ cap' = [NoCapture EXCEPT !.buf = IF Begins = "replay" THEN snap.items ELSE << >>] /\ consumer' = "reading" /\ ctx' = FALSE
  /\ seen' = (IF policy.idem = "store" THEN seen ELSE {}) /\ got' = << >>
  /\ UNCHANGED <<policy, snap, late, did, claims, episodes, outs>>
Done == ~Running /\ run = MaxRuns /\ UNCHANGED vars

Next ==
  \/ Receive \/ Attempt \/ Return \/ Backoff \/ Send \/ EffectEnds
  \/ CaptureTakes \/ CaptureSends \/ CaptureEnds \/ Save \/ Write \/ LateSave \/ ReplaySends \/ ReplayFails
  \/ Consume \/ ConsumerEnds \/ RunReturns \/ Crash \/ NextRun \/ Done

Spec == Init /\ [][Next]_vars

-----------------------------------------------------------------------------
\* The number of outcomes of kind h the present run has sent.
SentAs(h) == Cardinality({n \in 1..Len(outs[run]) : outs[run][n][2] = h})

\* The counters of a run, and with them its outcome, tell what became of its
\* items: an outcome that was sent was counted, in a dry run nothing is; an
\* effect reported as applied took place; a run is a success only if every
\* item it took was applied or is a duplicate, and, unless it was cut short,
\* the consumer has all of them.
OutcomesAccounted ==
  /\ \A r \in 1..MaxRuns : \A o \in ToSet(outs[r]) : o[2] = "ok" => o[1] \in did
  /\ Live => /\ SentAs("ok") <= stats.ok /\ SentAs("fail") <= stats.fail /\ SentAs("dup") <= stats.dup
             /\ e.pc = "recv" => Len(outs[run]) = SentAs("dry") + stats.ok + stats.fail + stats.dup
  /\ policy.dry => episodes = {}
  /\ phase = "success" /\ kind = "live" =>
       /\ \A o \in ToSet(outs[run]) : o[2] # "fail"
       /\ consumer = "done" => got = outs[run] /\ Len(got) = policy.len

\* Of the items of one key the function is called for one at most, in a run
\* or, with a store that outlives it, in all runs together, whichever of them
\* crash, and only its effect is reported as applied; a duplicate is one of
\* an item that claimed the key before.  That item's effect need not have been
\* applied, or even begun: its run may have crashed or been cancelled first.
OncePerKey ==
  LET same(a, b) == HasKey(a[2]) /\ Key(a[2]) = Key(b[2]) /\ (policy.idem = "run" => a[1] = b[1]) IN
  policy.idem # "none" =>
    /\ \A a, b \in episodes : same(a, b) => a = b
    /\ \A r \in 1..MaxRuns : \A o \in ToSet(outs[r]) :
         /\ o[2] = "ok" => <<r, o[1]>> \in episodes
         /\ o[2] = "dup" => \E x \in claims : x # <<r, o[1]>> /\ x[1] <= r /\ same(x, <<r, o[1]>>)

\* A snapshot is what the segment sent in an earlier run, in its order, less
\* what could not be marshalled; a replay delivers it from the beginning and
\* nothing else, all of it unless it is cut short or an item cannot be
\* decoded; a run that ends by itself has saved its snapshot, or failed to,
\* before it returns.
SnapshotsReplayed ==
  /\ snap.how = "ok" => \E r \in 1..run : Thins(snap.items, outs[r])
  /\ kind = "replay" =>
       /\ IsPrefix(got, cap.buf) /\ outs[run] = << >>
       /\ \E r \in 1..run - 1 : Thins(cap.buf, outs[r])
       /\ phase = "success" /\ consumer = "done" /\ cap.pc # "end" => got = cap.buf
  /\ phase \in {"success", "partial"} /\ policy.seg /\ kind = "live" /\ consumer = "done" =>
       cap.pc = "end" /\ \A s \in late : s[1] # run
=============================================================================
