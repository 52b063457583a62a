----------------------------- MODULE TickPipeline -----------------------------
(***************************************************************************)
(* Live capture of ticks: TickCollector polls the terminal and puts new    *)
(* ticks on a bounded queue, TickWriter takes them off, buffers them and   *)
(* writes them as numbered part files, one directory per UTC date          *)
(* (data/tick_collector.py, data/tick_writer.py), and _run_live of bot.py  *)
(* starts and stops the two tasks.  Terminal calls and file writes run in  *)
(* threads: a cancelled task leaves its thread running.  A new process     *)
(* finds the files of the one before.                                      *)
(*                                                                         *)
(* A tick is its index in the terminal's feed.                             *)
(***************************************************************************)
EXTENDS Integers, Sequences, SequencesExt, FiniteSets, FiniteSetsExt

CONSTANTS
  Msc,         \* time_msc of the ticks, in feed order
  DateOf,      \* their UTC dates
  BatchSize,   \* batch_size of a poll
  QueueMax,    \* maxsize of the queue
  FlushSize,   \* flush_size
  Faults,      \* which of AllFaults occur
  MaxRun       \* bound: restarts

AllFaults == {"write_fails", "poll_fails", "drain_timeout", "crash"}

ASSUME PipelineAssumption ==
  /\ Msc \in Seq(Nat) /\ Len(Msc) > 0 /\ Len(DateOf) = Len(Msc)
  /\ \A i, j \in DOMAIN Msc : i < j => Msc[i] <= Msc[j]
  /\ \A i \in DOMAIN Msc : Msc[i] > 0
  /\ BatchSize \in Nat \ {0, 1} /\ QueueMax \in Nat \ {0} /\ FlushSize \in Nat \ {0}
  /\ Faults \subseteq AllFaults /\ MaxRun \in Nat

VARIABLES
  arrived,     \* ticks the terminal has
  cpc, cursor, batch,   \* collector: where it is, _cursor_msc, a batch fetched
  queue,
  wpc, buffer, groups,  \* writer: where it is, its buffer, dates left to write
  threads,     \* write threads alive: [date, group, step, part, awaited]
  counters,    \* _part_counters: date -> next part
  files,       \* <<date, part>> -> ticks
  phase,       \* of _run_live: running, draining, closing, done
  run,         \* history: process lifetime
  accepted,    \* history: ticks put on the queue, in order
  troubled     \* history: what went wrong so far

collector == <<cpc, cursor, batch>>
writer    == <<wpc, buffer, groups, threads, counters, files>>
history   == <<run, accepted, troubled>>
vars == <<arrived, collector, queue, writer, phase, history>>

Empty == [x \in {} |-> 0]

\* __init__ of both and the start of their tasks; last_tick_msc seeds the
\* cursor.
Started ==
  /\ cpc' = "sleep" /\ cursor' = Msc[arrived] /\ batch' = <<>>
  /\ queue' = <<>>
  /\ wpc' = "waiting" /\ buffer' = <<>> /\ groups' = {} /\ counters' = Empty
  /\ phase' = "running"

Init ==
  /\ arrived = 1
  /\ cpc = "sleep" /\ cursor = Msc[1] /\ batch = <<>>
  /\ queue = <<>>
  /\ wpc = "waiting" /\ buffer = <<>> /\ groups = {}
  /\ threads = {} /\ counters = Empty /\ files = Empty
  /\ phase = "running"
  /\ run = 0 /\ accepted = <<>> /\ troubled = {}

-----------------------------------------------------------------------------
TickArrives ==
  /\ arrived < Len(Msc)
  /\ arrived' = arrived + 1
  /\ UNCHANGED <<collector, queue, writer, phase, history>>

-----------------------------------------------------------------------------
(* What is selected from a sequence keeps its order. *)

\* The k-th number of a set, from below.
Nth(S, k) == CHOOSE i \in S : Cardinality({j \in S : j < i}) = k - 1
\* The entries of s at the positions S.
Rows(s, S) == [k \in 1 .. Cardinality(S) |-> s[Nth(S, k)]]

-----------------------------------------------------------------------------
(* TickCollector._poll_once *)

\* copy_ticks_from: up to BatchSize ticks at or after the cursor.
Fetchable ==
  LET from == {i \in 1 .. arrived : Msc[i] >= cursor}
      some == Rows([i \in 1 .. arrived |-> i], from)
  IN  SubSeq(some, 1, IF Len(some) < BatchSize THEN Len(some) ELSE BatchSize)

Fetch ==
  /\ cpc = "sleep"
  /\ \/ batch' = Fetchable /\ cpc' = "fetched" /\ UNCHANGED troubled
     \/ "poll_fails" \in Faults /\ troubled' = troubled \cup {"poll"}
        /\ UNCHANGED <<batch, cpc>>
  /\ UNCHANGED <<arrived, cursor, queue, writer, phase, run, accepted>>

\* The ticks of the batch that are past the cursor.
NewTicks == Rows(batch, {k \in DOMAIN batch : Msc[batch[k]] > cursor})

\* put_nowait of the new ticks: those that find room are on the queue.
Room == QueueMax - Len(queue)

\* _cursor_msc after a batch of new ticks.
\* Variant: the cursor stops at the last tick that found room.
NewCursor_LastPut(new) == IF Room = 0 THEN cursor ELSE Msc[new[1]]
NewCursor(new) == Msc[Last(new)]

Enqueue ==
  /\ cpc = "fetched"
  /\ LET new == NewTicks
         put == SubSeq(new, 1, IF Len(new) < Room THEN Len(new) ELSE Room)
     IN  /\ queue' = queue \o put
         /\ accepted' = accepted \o put
         /\ cursor' = IF new = <<>> THEN cursor ELSE NewCursor(new)
  /\ batch' = <<>> /\ cpc' = "sleep"
  /\ UNCHANGED <<arrived, writer, phase, run, troubled>>

-----------------------------------------------------------------------------
(* TickWriter *)

\* _flush groups the buffer by date.
DatesOf(b)   == {DateOf[b[k]] : k \in DOMAIN b}
Group(b, date) == Rows(b, {k \in DOMAIN b : DateOf[b[k]] = date})

\* Groups are handed over in the order in which their dates first appear.
IsNext(date, b, dates) ==
  /\ date \in dates
  /\ \E k \in DOMAIN b : DateOf[b[k]] = date /\ \A j \in 1 .. k - 1 : DateOf[b[j]] \notin dates

\* The next group is handed to a thread, which the writer awaits.
HandOver(b, dates, others) ==
  \E date \in dates :
    /\ IsNext(date, b, dates)
    /\ groups' = dates \ {date}
    /\ threads' = others \cup
         {[date |-> date, group |-> Group(b, date), step |-> "pick", part |-> 0,
           awaited |-> TRUE]}

\* A tick is taken; at flush_size, or when flush_seconds are over, a flush
\* begins.
TakeTick ==
  /\ wpc = "waiting" /\ queue # <<>>
  /\ queue' = Tail(queue)
  /\ buffer' = Append(buffer, Head(queue))
  /\ \/ Len(buffer') < FlushSize /\ UNCHANGED <<wpc, groups, threads>>
     \/ wpc' = "flushing" /\ HandOver(buffer', DatesOf(buffer'), threads)
  /\ UNCHANGED <<arrived, collector, counters, files, phase, history>>

\* The wait for a tick timed out with ticks in the buffer.
TimeFlush ==
  /\ wpc = "waiting" /\ buffer # <<>>
  /\ wpc' = "flushing" /\ HandOver(buffer, DatesOf(buffer), threads)
  /\ UNCHANGED <<arrived, collector, queue, buffer, counters, files, phase, history>>

\* _next_part
\* Variant: the directory is not looked at.
NextPart_CachedOnly(date) == IF date \in DOMAIN counters THEN counters[date] ELSE 0
NextPart(date) ==
  IF date \in DOMAIN counters THEN counters[date]
  ELSE Max({f[2] : f \in {g \in DOMAIN files : g[1] = date}} \cup {-1}) + 1

Stepped(t, u) == threads' = (threads \ {t}) \cup {u}

\* _write_partition, in its thread.
PickPart(t) ==
  /\ t.step = "pick"
  /\ Stepped(t, [t EXCEPT !.step = "write", !.part = NextPart(t.date)])
  /\ UNCHANGED <<arrived, collector, queue, wpc, buffer, groups, counters,
                 files, phase, history>>

WriteFile(t) ==
  /\ t.step = "write"
  /\ LET f == <<t.date, t.part>>
     IN  \/ /\ files' = [g \in DOMAIN files \cup {f} |-> IF g = f THEN t.group ELSE files[g]]
            /\ Stepped(t, [t EXCEPT !.step = "count"])
            /\ UNCHANGED troubled
         \/ /\ "write_fails" \in Faults
            /\ Stepped(t, [t EXCEPT !.step = "failed"])
            /\ troubled' = troubled \cup {"write"} /\ UNCHANGED files
  /\ UNCHANGED <<arrived, collector, queue, wpc, buffer, groups, counters,
                 phase, run, accepted>>

CountPart(t) ==
  /\ t.step = "count"
  /\ counters' = [d \in DOMAIN counters \cup {t.date} |->
                    IF d = t.date THEN t.part + 1 ELSE counters[d]]
  /\ Stepped(t, [t EXCEPT !.step = "done"])
  /\ UNCHANGED <<arrived, collector, queue, wpc, buffer, groups, files,
                 phase, history>>

\* The buffer after a flush.
Emptied == <<>>

\* The awaited thread is done: the next group, or the end of the flush.
GroupWritten ==
  /\ wpc \in {"flushing", "final"}
  /\ \E t \in threads :
       /\ t.awaited /\ t.step = "done"
       /\ IF groups # {}
          THEN HandOver(buffer, groups, threads \ {t}) /\ UNCHANGED <<wpc, buffer>>
          ELSE /\ threads' = threads \ {t} /\ groups' = {}
               /\ buffer' = Emptied
               /\ wpc' = IF wpc = "final" THEN "gone" ELSE "waiting"
  /\ UNCHANGED <<arrived, collector, queue, counters, files, phase, history>>

\* The write raised: the task ends and its buffer with it.  The final flush
\* only logs.
GroupFailed ==
  /\ wpc \in {"flushing", "final"}
  /\ \E t \in threads :
       /\ t.awaited /\ t.step = "failed"
       /\ threads' = threads \ {t}
  /\ wpc' = "gone" /\ groups' = {} /\ buffer' = <<>>
  /\ UNCHANGED <<arrived, collector, queue, counters, files, phase, history>>

-----------------------------------------------------------------------------
(* _run_live of bot.py *)

\* A signal, or a task that ended, starts the shutdown; the collector is
\* cancelled at its await and a batch not yet enqueued is lost.
Stop ==
  /\ phase = "running"
  /\ phase' = "draining"
  /\ cpc' = "gone" /\ batch' = <<>>
  /\ UNCHANGED <<arrived, cursor, queue, writer, history>>

\* Variant: the drain waits until the queue is empty.
Drained_OnlyEmpty == queue = <<>>
Drained == queue = <<>> \/ wpc = "gone" \/ "drain_timeout" \in Faults

\* What the writer flushes when it is cancelled.
\* Variant: nothing, the buffer is left to the next flush.
FinalBuffer_Dropped == <<>>
FinalBuffer == buffer

\* The threads of a flush that was cut short go on, and nobody awaits them.
Left == {[t EXCEPT !.awaited = FALSE] : t \in threads}

\* _drain_queue is over; the writer is cancelled at its await.
CancelWriter ==
  /\ phase = "draining" /\ Drained
  /\ phase' = "closing"
  /\ troubled' = troubled \cup (IF queue # <<>> THEN {"drain"} ELSE {})
                          \cup (IF wpc = "flushing" THEN {"interrupted"} ELSE {})
  /\ IF wpc = "gone" \/ FinalBuffer = <<>>
     THEN wpc' = "gone" /\ UNCHANGED <<groups, threads>>
     ELSE wpc' = "final" /\ HandOver(FinalBuffer, DatesOf(FinalBuffer), Left)
  /\ UNCHANGED <<arrived, collector, queue, buffer, counters, files, run, accepted>>

\* The writer task has ended; asyncio.run waits for the threads that still
\* run before the process exits.
Exit ==
  /\ phase = "closing" /\ wpc = "gone"
  /\ \A t \in threads : t.step \in {"done", "failed"}
  /\ phase' = "done" /\ threads' = {}
  /\ UNCHANGED <<arrived, collector, queue, wpc, buffer, groups, counters,
                 files, history>>

\* The process dies; a file being written is left unreadable.
Torn == <<>>
Die ==
  /\ "crash" \in Faults /\ phase # "done"
  /\ phase' = "done"
  /\ LET begun == {<<t.date, t.part>> : t \in {u \in threads : u.step = "write"}}
     IN  \E torn \in SUBSET begun :
           files' = [g \in DOMAIN files \cup torn |-> IF g \in torn THEN Torn ELSE files[g]]
  /\ cpc' = "gone" /\ wpc' = "gone"
  /\ batch' = <<>> /\ queue' = <<>> /\ buffer' = <<>> /\ groups' = {}
  /\ threads' = {}
  /\ troubled' = troubled \cup {"crash"}
  /\ UNCHANGED <<arrived, cursor, counters, run, accepted>>

\* The next process; it knows the files and nothing else.
Restart ==
  /\ phase = "done" /\ run < MaxRun
  /\ run' = run + 1
  /\ Started
  /\ UNCHANGED <<arrived, threads, files, accepted, troubled>>

Collector == Fetch \/ Enqueue
Thread(t) == PickPart(t) \/ WriteFile(t) \/ CountPart(t)
Writer    == TakeTick \/ TimeFlush \/ GroupWritten \/ GroupFailed
Main      == CancelWriter \/ Exit

Next ==
  \/ TickArrives \/ Collector \/ Writer \/ Stop \/ Main \/ Die \/ Restart
  \/ \E t \in threads : Thread(t)

Spec == Init /\ [][Next]_vars

\* Tasks, threads and sleeps end; the drain has a deadline; a poll does not
\* fail for ever.
FairSpec ==
  /\ Spec /\ WF_vars(Collector) /\ WF_vars(Writer) /\ WF_vars(Main)
  /\ WF_vars(\E t \in threads : Thread(t))
-----------------------------------------------------------------------------
(* ReplayEngine.run over the part files of a date *)

\* The numbers of the files that are read: one that is unreadable ends the run.
Readable(date) ==
  LET parts == {f[2] : f \in {g \in DOMAIN files : g[1] = date}}
  IN  {p \in parts : \A q \in parts : q <= p => files[<<date, q>>] # Torn}
\* What they hold, in the order of their numbers.
Stored(date) ==
  [k \in 1 .. Cardinality(Readable(date)) |-> files[<<date, Nth(Readable(date), k)>>]]

\* _last_emitted_msc
LastMsc(sent) == IF sent = <<>> THEN 0 ELSE Msc[Last(sent)]
\* A stamp at or before the last one emitted is skipped.
\* Variant: nothing is skipped.
Skipped_Never(sent, i) == FALSE
Skipped(sent, i) == Msc[i] <= LastMsc(sent)
Emit(sent, i)    == IF Skipped(sent, i) THEN sent ELSE Append(sent, i)
Read(sent, rows) == FoldLeft(Emit, sent, rows)
Replayed(date)   == FoldLeft(Read, <<>>, Stored(date))
-----------------------------------------------------------------------------
(* Properties. *)

Ticks  == 1 .. arrived
OnDisk == UNION {ToSet(files[f]) : f \in DOMAIN files}

\* Types; the queue never holds more than its maxsize.
TypeOK ==
  /\ arrived \in DOMAIN Msc
  /\ cpc \in {"sleep", "fetched", "gone"} /\ cursor \in Nat /\ batch \in Seq(Ticks)
  /\ queue \in Seq(Ticks) /\ Len(queue) <= QueueMax
  /\ wpc \in {"waiting", "flushing", "final", "gone"}
  /\ buffer \in Seq(Ticks) /\ Len(buffer) <= FlushSize
  /\ \A t \in threads : t.group \in Seq(Ticks) /\ t.part \in Nat
  /\ \A d \in DOMAIN counters : counters[d] \in Nat
  /\ \A f \in DOMAIN files : files[f] \in Seq(Ticks)
  /\ phase \in {"running", "draining", "closing", "done"} /\ run \in 0 .. MaxRun

\* _next_part: the number of a part file is never given to other ticks, also
\* when a cancelled flush left its thread running, after restarts and after a
\* death that tore a file.
PartsKept ==
  [][\A f \in DOMAIN files : f \in DOMAIN files' /\ files'[f] \in {files[f], Torn}]_files

\* "Cancellable; final buffer is flushed on cancel" (tick_writer.py:52): once
\* a process has ended, and none before had a failed write, a drain timeout
\* or a sudden death, every tick that was put on the queue is on disk.
AcceptedReachDisk ==
  /\ TypeOK
  /\ phase = "done" /\ troubled \cap {"write", "drain", "crash"} = {}
       => ToSet(accepted) \subseteq OnDisk

\* tick_writer.py, replay_engine.py:95-101: replaying a date emits ticks that were
\* stored, in the order of the feed, every stamp that was stored and none twice,
\* whatever was written twice, left torn or written by other processes: with
\* distinct stamps, each stored tick once.
ReplayIsFeed ==
  \A f \in DOMAIN files :
    LET sent   == Replayed(f[1])
        stored == UNION {ToSet(files[<<f[1], p>>]) : p \in Readable(f[1])}
    IN  /\ ToSet(sent) \subseteq stored
        /\ \A i, j \in DOMAIN sent : i < j => Msc[sent[i]] < Msc[sent[j]]
        /\ \A i \in stored : \E j \in ToSet(sent) : Msc[j] = Msc[i]

\* A shutdown completes, also when the writer has failed with ticks still on
\* the queue.
StopCompletes == phase = "draining" ~> phase = "done"

\* "If the batch came back full, skip the sleep and catch up"
\* (tick_collector.py:60): with distinct stamps the cursor reaches every
\* tick while the collector runs.
CatchesUp ==
  \A i \in DOMAIN Msc : i <= arrived ~> (Msc[i] <= cursor \/ phase # "running")
=============================================================================
