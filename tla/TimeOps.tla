------------------------------ MODULE TimeOps -------------------------------
(***************************************************************************)
(* Operators that look at the clock.  A stage may be late: a tick waits in *)
(* the timer's channel while the stage sends, and when an item and a tick  *)
(* are both there the select picks either.                                 *)
(***************************************************************************)
EXTENDS StageLoop

Timestamp(x) == Is("timestamp") /\ Reply(st, << <<x, now>> >>) /\ UNCHANGED <<timer, tick>>

\* st is the time of the previous item.
TimeInterval(x) ==
  /\ Is("timeInterval")
  /\ Reply(<<now>>, << <<x, IF st = << >> THEN 0 ELSE now - st[1]>> >>)
  /\ UNCHANGED <<timer, tick>>

\* st is lastEmit, 0 for the zero time.
Throttle(x) ==
  /\ Is("throttle")
  /\ IF st = 0 \/ now - st >= op.n THEN Reply(now, <<x>>) ELSE Reply(st, << >>)
  /\ UNCHANGED <<timer, tick>>

\* st is the latest item, if it has not been sent.
Sample(x) == Is("sample") /\ Reply(<<x>>, << >>) /\ UNCHANGED <<timer, tick>>
SampleTick ==
  /\ Is("sample") /\ pc = "recv" /\ tick
  /\ tick' = FALSE /\ Reply(<< >>, st)
  /\ UNCHANGED <<op, kept, base, input, ahead, times, marks, sent, now, timer>>

\* Mutant: a tick that is already in the channel survives the restart of the
\* timer.
RestartTimerMutant == timer' = op.n /\ UNCHANGED tick

\* timer.Stop(), take a tick that is already in the channel, timer.Reset(d).
RestartTimer == timer' = op.n /\ tick' = FALSE

Debounce(x) == Is("debounce") /\ RestartTimer /\ Reply(<<x>>, << >>)
DebounceFire ==
  /\ Is("debounce") /\ pc = "recv" /\ tick
  /\ tick' = FALSE /\ Reply(<< >>, st)
  /\ UNCHANGED <<op, kept, base, input, ahead, times, marks, sent, now, timer>>

SessionWindow(x) == Is("session") /\ RestartTimer /\ Reply(Append(st, x), << >>)
SessionFire ==
  /\ Is("session") /\ pc = "recv" /\ tick
  /\ tick' = FALSE /\ Reply(<< >>, IF st = << >> THEN << >> ELSE <<st>>)
  /\ UNCHANGED <<op, kept, base, input, ahead, times, marks, sent, now, timer>>

-----------------------------------------------------------------------------
(* Dedupe with a TTLDedupSet, which other stages may use as well.  kept is  *)
(* the set: the map entries, the queue and its read cursor; marks lists the *)
(* keys added and when.                                                     *)

\* A queue entry the cursor passes deletes its key only if the map still has
\* that expiry: otherwise the key has been added again.
Deleted(s, passed, k) == \E i \in passed : s.queue[i].key = k /\ s.queue[i].exp = s.entries[k]

\* evictLocked(t): the cursor passes the expired head of the queue, and the
\* passed part is cut off when it is at least half of the queue.
Evict(s, t) ==
  LET live == {i \in s.head + 1..Len(s.queue) : s.queue[i].exp > t}
      head == IF live = {} THEN Len(s.queue) ELSE Min(live) - 1
      passed == s.head + 1..head
      cut == head > 0 /\ head >= Len(s.queue) \div 2
  IN [entries |-> [k \in {j \in DOMAIN s.entries : ~Deleted(s, passed, j)} |-> s.entries[k]],
      queue |-> IF cut THEN SubSeq(s.queue, head + 1, Len(s.queue)) ELSE s.queue,
      head |-> IF cut THEN 0 ELSE head]

\* Add, after the eviction.
Added(s, k, t) ==
  [s EXCEPT !.entries = (k :> t + op.n) @@ @,
            !.queue = Append(@, [key |-> k, exp |-> t + op.n])]

\* set.Contains, then set.Add; the lock of the set is free between them.
DedupeTTL(x) ==
  /\ Is("dedupeTTL") /\ kept' = Evict(kept, now)
  /\ IF Key(x) \in DOMAIN kept'.entries THEN Reply(st, << >>)
     ELSE pc' = "add" /\ pend' = <<x>> /\ UNCHANGED <<st, why>>
  /\ UNCHANGED <<marks, timer, tick>>
DedupeAdd ==
  /\ pc = "add" /\ pc' = "send"
  /\ kept' = Added(Evict(kept, now), Key(pend[1]), now)
  /\ marks' = Append(marks, <<Key(pend[1]), now>>)
  /\ UNCHANGED <<op, st, base, pend, why, input, ahead, times, sent, timeVars>>

\* Another user of the set adds a key it may contain already.
OtherAdd ==
  /\ Is("dedupeTTL") /\ pc \in {"recv", "add"} /\ Len(marks) < MaxLen
  /\ kept' = Added(Evict(kept, now), Key(1), now) /\ marks' = Append(marks, <<Key(1), now>>)
  /\ UNCHANGED <<op, st, base, pc, pend, why, input, ahead, times, sent, timeVars>>

Timing(x) ==
  \/ /\ \/ Timestamp(x) \/ TimeInterval(x) \/ Throttle(x) \/ Sample(x)
        \/ Debounce(x) \/ SessionWindow(x)
     /\ UNCHANGED <<kept, marks>>
  \/ DedupeTTL(x)
=============================================================================
