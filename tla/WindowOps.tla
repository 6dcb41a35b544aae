----------------------------- MODULE WindowOps ------------------------------
(***************************************************************************)
(* Operators that collect items into slices.  st is the buffer.            *)
(***************************************************************************)
EXTENDS StageLoop

\* flush(): nothing for an empty buffer.
Flush(buf) == IF buf = << >> THEN << >> ELSE <<buf>>

\* batchMeasureFn measures an item by its own value here.
Measure(buf) == FoldLeft(LAMBDA a, b : a + b, 0, buf)

\* Batch with a count, a measure, or a count and dropPartial.  A timeout adds
\* a ticker that is not restarted by a flush; see BatchTick.
BatchKinds == {"batch", "batchMeasure", "batchDrop", "batchTimeout"}
ShouldFlush(buf) ==
  IF Is("batchMeasure") THEN Measure(buf) >= op.n
  ELSE Len(buf) >= BatchSize

\* Mutant: the flush sends the buffer and does not empty it.
BatchMutant(x) ==
  /\ op.kind \in BatchKinds
  /\ LET buf == Append(st, x)
     IN IF ShouldFlush(buf) THEN Reply(buf, Flush(buf)) ELSE Reply(buf, << >>)

Batch(x) ==
  /\ op.kind \in BatchKinds
  /\ LET buf == Append(st, x)
     IN IF ShouldFlush(buf) THEN Reply(<< >>, Flush(buf)) ELSE Reply(buf, << >>)

BatchTick ==
  /\ Is("batchTimeout") /\ pc = "recv" /\ tick
  /\ tick' = FALSE /\ Reply(<< >>, Flush(st))
  /\ UNCHANGED <<op, kept, base, input, ahead, times, marks, sent, now, timer>>

\* The input of Unbatch and Within is a stream of slices: <<x, x>> for x.
Slice(x) == <<x, x>>
Unbatch(x) == Is("unbatch") /\ Reply(st, Slice(x))

\* Within runs a nested pipeline over the slice; here one that keeps what
\* satisfies Pred.
Within(x) == Is("within") /\ Reply(st, <<SelectSeq(Slice(x), Pred)>>)

SlidingWindow(x) ==
  /\ Is("slidingWindow")
  /\ LET buf == Append(st, x)
     IN IF Len(buf) = op.n THEN Reply(SubSeq(buf, op.step + 1, op.n), <<buf>>)
                           ELSE Reply(buf, << >>)

ChunkBy(x) ==
  /\ Is("chunkBy")
  /\ IF st # << >> /\ Key(Last(st)) # Key(x) THEN Reply(<<x>>, Flush(st))
                                             ELSE Reply(Append(st, x), << >>)

\* pred(prev, curr): the stream does not fall.
ChunkWhile(x) ==
  /\ Is("chunkWhile")
  /\ IF st # << >> /\ ~(Last(st) <= x) THEN Reply(<<x>>, Flush(st))
                                       ELSE Reply(Append(st, x), << >>)

\* BufferWith: the selector's items flush, its end flushes and ends the stage.
BufferWith(x) == Is("bufferWith") /\ Reply(Append(st, x), << >>)
BufferWithFlush ==
  /\ Is("bufferWith") /\ pc = "recv" /\ Len(marks) < 2
  /\ marks' = Append(marks, Len(input))
  /\ Reply(<< >>, Flush(st)) \/ Return(<< >>, Flush(st), "self")
  /\ UNCHANGED <<op, kept, base, input, ahead, times, sent, timeVars>>

\* MapBatch, and LookupBy and Enrich on top of it: a full buffer goes to the
\* function as a whole, whose results are sent one by one.  The code has a
\* Batch (with its BatchTimeout) and a FlatMap for this; here they are one
\* loop without the channel between them.
BatchResult(buf) == [i \in DOMAIN buf |-> <<"fn", buf[i]>>]
MapBatch(x) ==
  /\ op.kind \in {"mapBatch", "mapBatchTimeout"}
  /\ LET buf == Append(st, x)
     IN IF Len(buf) >= BatchSize THEN Reply(<< >>, BatchResult(buf)) ELSE Reply(buf, << >>)
MapBatchTick ==
  /\ Is("mapBatchTimeout") /\ pc = "recv" /\ tick /\ tick' = FALSE
  /\ Reply(<< >>, BatchResult(st)) \/ (st # << >> /\ Return(st, << >>, "err"))
  /\ UNCHANGED <<op, kept, base, input, ahead, times, marks, sent, now, timer>>

\* Fetch gets each key of the batch once and may not know all of them.
UniqueKeys(buf) ==
  FoldLeft(LAMBDA ks, x : IF Contains(ks, Key(x)) THEN ks ELSE Append(ks, Key(x)), << >>, buf)
Fetched(known, ks) == [k \in known \cap ToSet(ks) |-> <<"value", k>>]
Zero == "zero"
Joined(buf, m) == [i \in DOMAIN buf |-> <<buf[i], IF Key(buf[i]) \in DOMAIN m THEN m[Key(buf[i])] ELSE Zero>>]
\* The keys the store of this run knows: fixed by the parameter n.
Known == {Key(op.n)}
LookupBy(x) ==
  /\ Is("lookupBy")
  /\ LET buf == Append(st, x)
     IN IF Len(buf) >= op.n THEN Reply(<< >>, Joined(buf, Fetched(Known, UniqueKeys(buf))))
                            ELSE Reply(buf, << >>)

Windowing(x) ==
  /\ \/ Batch(x) \/ Unbatch(x) \/ Within(x) \/ SlidingWindow(x) \/ ChunkBy(x)
     \/ ChunkWhile(x) \/ BufferWith(x) \/ MapBatch(x) \/ LookupBy(x)
  /\ UNCHANGED kept
=============================================================================
