-------------------------------- MODULE Keyed --------------------------------
(***************************************************************************)
(* The stateful stages MapWith, FlatMapWith, MapWithKey and                *)
(* FlatMapWithKey, and the references (Ref) they give to the user's        *)
(* function.  A stage is serial, concurrent (workers with state of their   *)
(* own) or ordered (the same, with a slot per item that a drainer empties  *)
(* in input order).  With keys, a dispatcher sends each item to the worker *)
(* that owns its key, and the worker finds the reference in its map.       *)
(*                                                                         *)
(* The user's function counts: it reads its reference, adds one and sends  *)
(* the result.  The consumer reads or discards whatever is sent.           *)
(***************************************************************************)
EXTENDS Integers, SequencesExt

CONSTANTS
  Modes,        \* the stages of the run; see AllModes
  N,            \* workers of a stage that is not serial
  MaxItems,     \* bound on the length of the stream 1, 2, 3, ...
  Cap,          \* room in a worker's channel (cfg.buffer + 1)
  TTL,          \* the TTL, in ticks
  MaxTime,      \* bound on the clock
  MaxRestarts,  \* restarts Supervise allows
  Key(_)        \* the key function

ASSUME KeyedAssumption ==
  /\ {N, MaxItems, Cap, TTL, MaxTime, MaxRestarts} \subseteq Nat /\ N > 0 /\ Cap > 0
  /\ \A i \in 1..MaxItems : Key(i) \in Nat
  /\ Modes \subseteq [kind : {"serial", "concurrent", "ordered"}, keyed : BOOLEAN, flat : BOOLEAN,
                     store : BOOLEAN, len : 0..MaxItems, ttl : {"none", "key", "state"},
                     fn : {"getset", "update"}]

VARIABLES
  mode,   \* kind: "serial", "concurrent" or "ordered"; keyed, flat, store: BOOLEAN;
          \* len: length of the stream; ttl: "none", "key" (WithKeyTTL) or "state" (StateTTL); fn: "getset" or "update"
  read,   \* items received
  eof,    \* the input is closed
  disp,   \* the dispatcher: where it is, its item, the next worker
  wq,     \* the workers' channels
  wk,     \* the workers: where they are, their item, what they still send
  slots,  \* items whose slots wait for the drainer
  res,    \* what is in an item's slot
  dr,     \* the drainer
  maps,   \* per worker and key: value, last access, last write
  now,    \* the clock
  ctx, cancelled, left,  \* the run's context, the stage's own, the drain channel
  err,    \* the first error reported in this round: "none", "err" or "ctx"
  stage,  \* "run", or what it returned: "nil", "err", "ctx"
  restarts,
  out,    \* history: <<item, value>> sent
  gets,   \* history: per key, the times at which its reference was looked up
  log     \* history: items counted, with worker, value, time and the look-up they used

innerVars == <<disp, wq, wk, slots, res, dr, cancelled, err>>
vars == <<mode, read, eof, innerVars, maps, now, ctx, left, stage, restarts, out, gets, log>>

Serial == mode.kind = "serial"
InOrder == mode.kind = "ordered"
\* Workers of MapWith without Ordered read the input themselves.
Pulls == Serial \/ (mode.kind = "concurrent" /\ ~mode.keyed)
Workers == 1..(IF Serial THEN 1 ELSE N)
Stopped == ctx \/ cancelled
Items == 1..MaxItems

NoRef == [val |-> 0, at |-> 0, wrote |-> 0]
Slot0 == [outs |-> << >>, how |-> "none"]

\* What inner() sets up at every start of the stage.
Fresh(m) ==
  [disp |-> [pc |-> IF m.kind = "serial" \/ (m.kind = "concurrent" /\ ~m.keyed) THEN "none" ELSE "recv",
             item |-> 0, next |-> 1],
   wk |-> [w \in 1..(IF m.kind = "serial" THEN 1 ELSE N) |-> [pc |-> "idle", item |-> 0, outs |-> << >>]],
   dr |-> [pc |-> IF m.kind = "ordered" THEN "take" ELSE "end", item |-> 0, outs |-> << >>]]

Init ==
  /\ mode \in Modes
  /\ disp = Fresh(mode).disp /\ wk = Fresh(mode).wk /\ dr = Fresh(mode).dr
  /\ wq = [w \in Workers |-> << >>] /\ slots = << >> /\ res = [i \in Items |-> Slot0]
  /\ maps = [w \in Workers |-> [k \in {Key(i) : i \in Items} \cup {0} |-> NoRef]]
  /\ read = 0 /\ eof = FALSE /\ now = 1 /\ ctx = FALSE /\ cancelled = FALSE /\ left = FALSE
  /\ err = "none" /\ stage = "run" /\ restarts = 0 /\ out = << >> /\ log = << >>
  /\ gets = [k \in {Key(i) : i \in Items} |-> << >>]

-----------------------------------------------------------------------------
(* References. *)

\* Without keys a worker has one reference, 0.
Entity(i) == IF mode.keyed THEN Key(i) ELSE 0
Old(t) == t # 0 /\ now - t > TTL

\* The entry of another reference in the map is swept when its key has been
\* idle; the entry of the item's own key goes when the key has been idle or
\* its value has expired.  A store keeps the value when the entry goes.
Swept(r) == mode.ttl = "key" /\ Old(r.at)
Expired(r) == mode.ttl = "state" /\ ~mode.store /\ Old(r.wrote)
Gone(r) == [val |-> IF mode.store THEN r.val ELSE 0, at |-> 0, wrote |-> 0]

\* Mutant: a reference that is found is not marked as used.
GetRefMutant(m, k, due) ==
  [j \in DOMAIN m |->
     CASE j = k -> LET r == IF Swept(m[j]) \/ Expired(m[j]) THEN Gone(m[j]) ELSE m[j]
                   IN IF r.at = 0 THEN [r EXCEPT !.at = now] ELSE r
       [] j # k /\ due /\ Swept(m[j]) -> Gone(m[j])
       [] OTHER -> m[j]]

\* getRef(k); a sweep is due at most every TTL/8, less than a tick.
GetRef(m, k, due) ==
  [j \in DOMAIN m |->
     CASE j = k -> [IF Swept(m[j]) \/ Expired(m[j]) THEN Gone(m[j]) ELSE m[j] EXCEPT !.at = now]
       [] j # k /\ due /\ Swept(m[j]) -> Gone(m[j])
       [] OTHER -> m[j]]

\* Ref.Get looks at StateTTL, Ref.Update does not, and neither does for a
\* value in a store.
RefGet(r) == IF Expired(r) THEN 0 ELSE r.val
RefUpdate(r) == r.val
Counted(r) ==
  LET v == (IF mode.fn = "getset" THEN RefGet(r) ELSE RefUpdate(r)) + 1
  IN [r EXCEPT !.val = v, !.wrote = now]

\* What a worker does with item i before its function runs: it looks up the
\* reference of the item's key.  Without keys it has its one reference.
Lookup(w, i) ==
  IF mode.keyed
  THEN \E due \in BOOLEAN :
         /\ due => mode.ttl = "key"
         /\ maps' = [maps EXCEPT ![w] = GetRef(@, Key(i), due)]
         /\ gets' = [gets EXCEPT ![Key(i)] = Append(@, now)]
  ELSE UNCHANGED <<maps, gets>>

-----------------------------------------------------------------------------
(* The dispatcher. *)
dispRest == <<mode, eof, wk, res, dr, maps, now, ctx, left, err, stage, restarts, out, gets, log>>

DispRecv ==
  /\ disp.pc = "recv" /\ ~eof /\ read < mode.len
  /\ read' = read + 1
  /\ disp' = [disp EXCEPT !.pc = IF InOrder THEN "slot" ELSE "give", !.item = read + 1]
  /\ UNCHANGED <<dispRest, wq, slots, cancelled>>
DispSlot ==
  /\ disp.pc = "slot" /\ Len(slots) < 2 * N
  /\ slots' = Append(slots, disp.item) /\ disp' = [disp EXCEPT !.pc = "give"]
  /\ UNCHANGED <<dispRest, read, wq, cancelled>>

\* Mutant: keys are dealt out like items without a key.
TargetMutant(i) == disp.next

\* fnv32(key) % n, or round robin.
Target(i) == IF mode.keyed THEN (Key(i) % N) + 1 ELSE disp.next
DispGive ==
  /\ disp.pc = "give"
  /\ LET t == Target(disp.item) IN
       Len(wq[t]) < Cap /\ wq' = [wq EXCEPT ![t] = Append(@, disp.item)]
  /\ disp' = [pc |-> "recv", item |-> 0, next |-> (disp.next % N) + 1]
  /\ UNCHANGED <<dispRest, read, slots, cancelled>>
\* Mutant: it leaves with its consumer wherever it is.
DispEndMutant ==
  /\ \/ disp.pc = "recv" /\ eof /\ UNCHANGED cancelled
     \/ disp.pc \in {"recv", "slot", "give"} /\ (Stopped \/ left) /\ cancelled' = TRUE
  /\ disp' = [disp EXCEPT !.pc = "end"]
  /\ UNCHANGED <<dispRest, read, wq, slots>>

\* It returns and closes the workers' channels.  A slot that is in line already
\* stays there.
DispEnd ==
  /\ \/ disp.pc = "recv" /\ eof /\ UNCHANGED cancelled
     \/ disp.pc \in {"recv", "slot", "give"} /\ Stopped /\ UNCHANGED cancelled
     \/ disp.pc = "recv" /\ left /\ cancelled' = TRUE
  /\ disp' = [disp EXCEPT !.pc = "end"]
  /\ UNCHANGED <<dispRest, read, wq, slots>>

Dispatch == DispRecv \/ DispSlot \/ DispGive \/ DispEnd

-----------------------------------------------------------------------------
(* The workers. *)
workRest == <<mode, eof, disp, slots, dr, now, ctx, left, stage, restarts>>

WorkerAt(w, pc, i, outs) == wk' = [wk EXCEPT ![w] = [pc |-> pc, item |-> i, outs |-> outs]]

WorkerTakes(w) ==
  /\ wk[w].pc = "idle"
  /\ \/ /\ Pulls /\ ~eof /\ read < mode.len /\ read' = read + 1 /\ UNCHANGED wq
        /\ WorkerAt(w, "work", read + 1, << >>) /\ Lookup(w, read + 1)
     \/ /\ ~Pulls /\ wq[w] # << >> /\ wq' = [wq EXCEPT ![w] = Tail(@)] /\ UNCHANGED read
        /\ WorkerAt(w, "work", Head(wq[w]), << >>) /\ Lookup(w, Head(wq[w]))
  /\ UNCHANGED <<workRest, res, cancelled, err, out, log>>

WorkerEnds(w) ==
  /\ wk[w].pc = "idle"
  /\ IF Pulls THEN eof \/ Stopped \/ (Serial /\ left) ELSE wq[w] = << >> /\ disp.pc = "end"
  /\ WorkerAt(w, "end", 0, << >>)
  /\ err' = IF Serial /\ ctx /\ ~eof THEN "ctx" ELSE err
  /\ UNCHANGED <<workRest, read, wq, res, maps, cancelled, out, gets, log>>

\* ProcessItem: the function counts, or it fails and its handler skips the
\* item or gives up; time may pass after the look-up.  An ordered worker
\* leaves the result in the slot.
Outputs(i, v) == IF mode.flat THEN << <<i, v>>, <<i, v>> >> ELSE << <<i, v>> >>
Leaves(w, i, how, outs) ==
  IF InOrder THEN /\ res' = [res EXCEPT ![i] = [outs |-> outs, how |-> how]]
                  /\ WorkerAt(w, "idle", 0, << >>)
  ELSE WorkerAt(w, IF how = "ok" THEN "send" ELSE "idle", i, outs) /\ UNCHANGED res
Process(w) ==
  /\ wk[w].pc = "work"
  /\ LET i == wk[w].item
         k == Entity(i)
         r == Counted(maps[w][k])
     IN \/ /\ maps' = [maps EXCEPT ![w] = [@ EXCEPT ![k] = r]] /\ Leaves(w, i, "ok", Outputs(i, r.val))
           /\ log' = Append(log, [item |-> i, w |-> w, val |-> r.val, at |-> now,
                                  n |-> IF mode.keyed THEN Len(gets[k]) ELSE 0])
        \/ Leaves(w, i, "skip", << >>) /\ UNCHANGED <<maps, log>>
  /\ UNCHANGED <<workRest, read, wq, cancelled, err, out, gets>>

\* reportErr keeps the first error; cancel ends the other workers.
Reports(e) == err' = (IF err = "none" THEN e ELSE err) /\ cancelled' = TRUE
Fail(w) ==
  /\ wk[w].pc = "work"
  /\ IF InOrder THEN Leaves(w, wk[w].item, "err", << >>) /\ UNCHANGED <<err, cancelled>>
     ELSE Reports("err") /\ WorkerAt(w, "end", 0, << >>) /\ UNCHANGED res
  /\ UNCHANGED <<workRest, read, wq, maps, out, gets, log>>

WorkerSends(w) ==
  /\ wk[w].pc = "send"
  /\ out' = Append(out, Head(wk[w].outs))
  /\ IF Len(wk[w].outs) = 1 THEN WorkerAt(w, "idle", 0, << >>) ELSE WorkerAt(w, "send", wk[w].item, Tail(wk[w].outs))
  /\ UNCHANGED <<workRest, read, wq, res, maps, cancelled, err, gets, log>>
WorkerSendStops(w) ==
  /\ wk[w].pc = "send" /\ Stopped
  /\ Reports("ctx") /\ WorkerAt(w, "end", 0, << >>)
  /\ UNCHANGED <<workRest, read, wq, res, maps, out, gets, log>>

Work(w) == WorkerTakes(w) \/ WorkerEnds(w) \/ Process(w) \/ WorkerSends(w) \/ WorkerSendStops(w)

-----------------------------------------------------------------------------
(* The drainer of an ordered stage, and the stage itself. *)
drainRest == <<mode, read, eof, disp, wq, wk, res, maps, now, ctx, left, stage, restarts, gets, log>>
AllEnded == disp.pc \in {"none", "end"} /\ \A w \in Workers : wk[w].pc = "end"

DrainerTakes ==
  /\ dr.pc = "take"
  /\ \/ slots # << >> /\ slots' = Tail(slots) /\ dr' = [dr EXCEPT !.pc = "wait", !.item = Head(slots)]
     \/ slots = << >> /\ AllEnded /\ dr' = [dr EXCEPT !.pc = "end"] /\ UNCHANGED slots
  /\ UNCHANGED <<drainRest, cancelled, err, out>>
DrainerGets ==
  /\ dr.pc = "wait" /\ res[dr.item].how # "none"
  /\ LET r == res[dr.item] IN
       CASE r.how = "ok" -> dr' = [dr EXCEPT !.pc = "send", !.outs = r.outs] /\ UNCHANGED <<cancelled, err>>
         [] r.how = "skip" -> dr' = [dr EXCEPT !.pc = "take"] /\ UNCHANGED <<cancelled, err>>
         [] r.how = "err" -> dr' = [dr EXCEPT !.pc = "end"] /\ Reports("err")
  /\ UNCHANGED <<drainRest, slots, out>>
DrainerSends ==
  /\ dr.pc = "send"
  /\ \/ /\ out' = Append(out, Head(dr.outs)) /\ UNCHANGED <<cancelled, err>>
        /\ dr' = [dr EXCEPT !.pc = IF Len(dr.outs) = 1 THEN "take" ELSE "send", !.outs = Tail(@)]
     \/ Stopped /\ Reports("ctx") /\ dr' = [dr EXCEPT !.pc = "end"] /\ UNCHANGED out
  /\ UNCHANGED <<drainRest, slots>>
Drainer == DrainerTakes \/ DrainerGets \/ DrainerSends

\* The stage of pulling workers watches the drain for them.
Monitor ==
  /\ Pulls /\ ~Serial /\ left /\ ~cancelled /\ ~AllEnded /\ cancelled' = TRUE
  /\ UNCHANGED <<mode, read, eof, disp, wq, wk, slots, res, dr, err, maps, now, ctx, left, stage, restarts, out, gets, log>>

\* inner() returns; Supervise may start it again, with the same references.
Return ==
  /\ stage = "run" /\ AllEnded /\ dr.pc = "end"
  /\ IF err = "err" /\ restarts < MaxRestarts /\ ~ctx
     THEN /\ disp' = Fresh(mode).disp /\ wk' = Fresh(mode).wk /\ dr' = Fresh(mode).dr
          /\ wq' = [w \in Workers |-> << >>] /\ slots' = << >>
          /\ cancelled' = FALSE /\ err' = "none" /\ restarts' = restarts + 1 /\ UNCHANGED stage
     ELSE stage' = (IF err = "none" THEN "nil" ELSE err) /\ UNCHANGED <<disp, wk, dr, wq, slots, cancelled, err, restarts>>
  /\ UNCHANGED <<mode, read, eof, res, maps, now, ctx, left, out, gets, log>>

-----------------------------------------------------------------------------
(* The environment. *)
envRest == <<mode, read, innerVars, maps, stage, restarts, out, gets, log>>
InputCloses == stage = "run" /\ ~eof /\ eof' = TRUE /\ UNCHANGED <<envRest, now, ctx, left>>
Cancel == stage = "run" /\ ~ctx /\ ctx' = TRUE /\ UNCHANGED <<envRest, now, eof, left>>
ConsumerLeaves == stage = "run" /\ ~left /\ left' = TRUE /\ UNCHANGED <<envRest, now, eof, ctx>>
Tick == stage = "run" /\ mode.ttl # "none" /\ now < MaxTime /\ now' = now + 1 /\ UNCHANGED <<envRest, eof, ctx, left>>

\* A slot in line whose item never reached a worker.
Orphan(i) == dr.pc = "wait" /\ dr.item = i /\ res[i].how = "none" /\ AllEnded
Orphaned == \E i \in Items : Orphan(i)
Halted == (stage # "run" \/ Orphaned) /\ UNCHANGED vars

Next ==
  \/ Dispatch \/ Drainer \/ Monitor \/ Return
  \/ \E w \in Workers : Work(w) \/ Fail(w)
  \/ InputCloses \/ Cancel \/ ConsumerLeaves \/ Tick \/ Halted

\* Goroutines go on, and the input ends at last.
Spec ==
  /\ Init /\ [][Next]_vars
  /\ WF_vars(Dispatch) /\ WF_vars(Drainer) /\ WF_vars(Return) /\ WF_vars(InputCloses)
  /\ \A w \in 1..N : WF_vars(w \in Workers /\ Work(w))

-----------------------------------------------------------------------------
\* Log entries that used the same reference.
Same(a, b) == Entity(a.item) = Entity(b.item) /\ (mode.keyed \/ a.w = b.w)
\* Between entries p and a of the log their key has been idle, not looked up
\* for longer than the TTL.
Idle(p, a) ==
  LET g == gets[Key(a.item)] IN
    mode.keyed /\ mode.ttl = "key" /\ \E x \in p.n..a.n - 1 : g[x + 1] - g[x] > TTL
\* The value that p left was too old when it was looked up for a, or when
\* Ref.Get read it.
TooOld(p, a) ==
  /\ mode.ttl = "state"
  /\ \/ mode.keyed /\ gets[Key(a.item)][a.n] - p.at > TTL
     \/ mode.fn = "getset" /\ a.at - p.at > TTL
Resets(p, a) == ~mode.store /\ (Idle(p, a) \/ TooOld(p, a))

\* What the function sees in its reference is what the previous counted item
\* of the same key (without keys: of the same worker) left there, across
\* supervised restarts, however the workers interleave and whenever idle keys
\* are swept.  It starts anew only after the TTL and never in a store.  An
\* item that is skipped or fails uses its key too: WithKeyTTL counts from the
\* last item of the key, StateTTL from the last value written.
PerKeyState ==
  \A i \in DOMAIN log :
    LET prev == {j \in 1..i - 1 : Same(log[j], log[i])}
        p == log[Max(prev)]
    IN log[i].val = IF prev = {} \/ Resets(p, log[i]) THEN 1 ELSE p.val + 1

\* Items of one key are processed, and their results sent, in input order,
\* whatever the concurrency; a serial or ordered stage sends everything in
\* input order; and a stage that returns nil, cut short or not, has sent the
\* result of every item it has counted, unless a restart has lost it.
KeyedOrder ==
  LET sentItems == {o[1] : o \in ToSet(out)}
      done == {e.item : e \in ToSet(log)} IN
  /\ mode.keyed => /\ \A i, j \in DOMAIN log : i < j /\ Key(log[i].item) = Key(log[j].item) => log[i].item < log[j].item
                   /\ \A i, j \in DOMAIN out : i < j /\ Key(out[i][1]) = Key(out[j][1]) => out[i][1] <= out[j][1]
  /\ InOrder \/ Serial => \A i, j \in DOMAIN out : i < j => out[i][1] <= out[j][1]
  /\ sentItems \subseteq done
  /\ stage = "nil" /\ restarts = 0 => sentItems = done

\* A stage returns when its input ends, its consumer leaves or the run is
\* cancelled, except that an ordered stage hangs when a cancellation is seen
\* between the slot's entry in the line and the item's way to its worker.
EndsOrOrphaned == <>(stage # "run" \/ (ctx /\ InOrder /\ Orphaned))

\* A stage returns after its run has been cancelled.
CancelReturns == ctx ~> stage # "run"
=============================================================================
