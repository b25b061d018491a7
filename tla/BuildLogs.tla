-------------------------------- MODULE BuildLogs --------------------------------
(***************************************************************************)
(* The log of one build, from the builder's output to a client that        *)
(* follows it.  A line is its sequence number.  Lines are buffered and     *)
(* appended to builds.log in batches by whoever flushes: the logger when   *)
(* the buffer is full, the flusher, the end of the build, or a stream that *)
(* wants to read what there is.  Past the cap they go to a ring instead,   *)
(* which replaces the log at the end.  A stream subscribes, flushes, reads *)
(* the row, and then copies what is sent to it.                            *)
(*                                                                         *)
(* The notice that cancelActive appends is left out: it has no sequence    *)
(* number and no subscriber is sent it.                                    *)
(***************************************************************************)
EXTENDS Naturals, Sequences, SequencesExt

CONSTANTS
  MaxLines,    \* bound: lines the build writes
  MaxLogSize,  \* the cap, in lines
  FlushBytes,  \* pending lines that make the logger flush
  TailLines,   \* the size of the ring
  Buffer,      \* the capacity of a subscriber's channel
  Fails        \* whether appending to the row may fail

BuildLogsAssumption ==
  MaxLines \in Nat /\ MaxLogSize \in Nat /\ TailLines \in Nat \ {0} /\ Buffer \in Nat

VARIABLES
  status,    \* builds.status: running, or over
  log,       \* builds.log
  state,     \* logState: seq, pending, flushed, truncated and the ring; gone when the build ends
  logger,    \* the goroutine of runBuild: what it does with the line, or with the end
  ticker,    \* the flusher
  flush,     \* who holds flushMu, with the chunk it took
  stream,    \* StreamBuildLogs: where it is, what its flush covered, what it has written
  chan,      \* its channel: subscribed or not, the lines in it, whether it is closed
  lost,      \* history: lines of a chunk that could not be appended
  dropped,   \* history: lines a full channel did not take
  late       \* history: lines written to the row between the stream's own flush and its read

vars == <<status, log, state, logger, ticker, flush, stream, chan, lost, dropped, late>>

Free == [holder |-> "none", chunk |-> <<>>, upTo |-> 0]
Truncation == MaxLines + 1    \* the line that says so
Logged == state.on
Notify == "notify"

TypeOK ==
  /\ status \in {"running", "over"}
  /\ log \in Seq(1..Truncation)
  /\ state \in [on : BOOLEAN, seq : 0..MaxLines, pending : Seq(1..MaxLines), flushed : 0..MaxLines,
                size : 0..MaxLogSize, truncated : BOOLEAN,
                tail : [0..(TailLines - 1) -> 0..MaxLines], tailIdx : 0..MaxLines]
  /\ logger \in {"idle", "flush", Notify, "last flush", "tail", "status", "close", "done"}
  /\ ticker \in {"idle", "flush"}
  /\ flush \in [holder : {"none", "logger", "ticker", "stream"}, chunk : Seq(1..MaxLines),
                upTo : 0..MaxLines]
  /\ stream \in [pc : {"new", "flush", "read", "live", "end"}, covered : 0..MaxLines,
                 out : Seq(1..Truncation)]
  /\ chan \in [on : BOOLEAN, lines : Seq(1..MaxLines), closed : BOOLEAN]
  /\ Len(chan.lines) <= Buffer
  /\ lost \subseteq 1..MaxLines /\ dropped \subseteq 1..MaxLines /\ late \subseteq 1..MaxLines

Init ==
  /\ status = "running" /\ log = <<>>
  /\ state = [on |-> TRUE, seq |-> 0, pending |-> <<>>, flushed |-> 0, size |-> 0,
              truncated |-> FALSE, tail |-> [i \in 0..(TailLines - 1) |-> 0], tailIdx |-> 0]
  /\ logger = "idle" /\ ticker = "idle" /\ flush = Free
  /\ stream = [pc |-> "new", covered |-> 0, out |-> <<>>]
  /\ chan = [on |-> FALSE, lines |-> <<>>, closed |-> FALSE]
  /\ lost = {} /\ dropped = {} /\ late = {}

-----------------------------------------------------------------------------
(* flushPending, under flushMu: take the buffer under logMu, then append it.  The caller is  *)
(* told up to which line the row is complete, and goes on.                                   *)

Return(who, upTo) ==
  CASE who = "ticker" -> ticker' = "idle" /\ UNCHANGED <<logger, stream>>
    [] who = "stream" -> /\ stream' = [stream EXCEPT !.pc = "read", !.covered = upTo]
                         /\ UNCHANGED <<logger, ticker>>
    [] who = "logger" -> /\ logger' = IF logger = "flush" THEN Notify ELSE "tail"
                         /\ UNCHANGED <<ticker, stream>>

TakeChunk(who) ==
  /\ flush.holder = "none" /\ Logged
  /\ flush' = [holder |-> who, chunk |-> state.pending, upTo |-> state.seq]
  /\ state' = [state EXCEPT !.pending = <<>>]
  /\ UNCHANGED <<status, log, logger, ticker, stream, chan, lost, dropped, late>>

AppendChunk(who) ==
  /\ flush.holder = who
  /\ flush' = Free
  /\ \/ /\ log' = log \o flush.chunk
        /\ state' = [state EXCEPT !.flushed = flush.upTo]
        /\ late' = IF stream.pc = "read" THEN late \cup ToSet(flush.chunk) ELSE late
        /\ lost' = lost
        /\ Return(who, flush.upTo)
     \/ /\ Fails /\ flush.chunk # <<>>
        /\ lost' = lost \cup ToSet(flush.chunk)
        /\ UNCHANGED <<log, state, late>>
        /\ Return(who, state.flushed)
  /\ UNCHANGED <<status, chan, dropped>>

\* Without log state there is nothing to flush.
SkipFlush(who) ==
  /\ flush.holder = "none" /\ ~Logged
  /\ Return(who, 0)
  /\ UNCHANGED <<status, log, state, flush, chan, lost, dropped, late>>

Flush(who) == TakeChunk(who) \/ AppendChunk(who) \/ SkipFlush(who)

-----------------------------------------------------------------------------
(* The logger: logCb for each line under cbMu, then the end of runBuild. *)

\* appendLog.
AppendLog ==
  /\ logger = "idle" /\ state.seq < MaxLines
  /\ LET line == state.seq + 1
         over == state.truncated \/ state.size = MaxLogSize
     IN /\ state' = IF over
                    THEN [state EXCEPT !.seq = line, !.truncated = TRUE,
                                       !.tail[state.tailIdx % TailLines] = line, !.tailIdx = @ + 1]
                    ELSE [state EXCEPT !.seq = line, !.size = @ + 1, !.pending = Append(@, line)]
        /\ logger' = IF ~over /\ Len(state.pending) + 1 >= FlushBytes THEN "flush" ELSE Notify
  /\ UNCHANGED <<status, log, ticker, flush, stream, chan, lost, dropped, late>>

FlushFull ==
  /\ logger = "flush"
  /\ Flush("logger")

\* notifyLogSubs does not wait for room.
NotifyLogSubs ==
  /\ logger = Notify /\ logger' = "idle"
  /\ LET room == chan.on /\ Len(chan.lines) < Buffer IN
       /\ chan' = IF room THEN [chan EXCEPT !.lines = Append(@, state.seq)] ELSE chan
       /\ dropped' = IF chan.on /\ ~room THEN dropped \cup {state.seq} ELSE dropped
  /\ UNCHANGED <<status, log, state, ticker, flush, stream, lost, late>>

\* The builder is done.
EndBuild ==
  /\ logger = "idle" /\ logger' = "last flush"
  /\ UNCHANGED <<status, log, state, ticker, flush, stream, chan, lost, dropped, late>>

FlushLast ==
  /\ logger = "last flush"
  /\ Flush("logger")

\* collectTailLines: the last TailLines lines of the ring, oldest first.
TailOfRing ==
  LET count == IF state.tailIdx > TailLines THEN TailLines ELSE state.tailIdx
  IN [i \in 1..count |-> state.tail[(state.tailIdx - count + i - 1) % TailLines]]

\* flushTailBuffer: a truncated log is replaced by a notice and the tail.
FlushTailBuffer ==
  /\ logger = "tail" /\ logger' = "status"
  /\ \/ ~state.truncated /\ UNCHANGED <<log, late, lost>>
     \/ /\ state.truncated
        /\ log' = <<Truncation>> \o TailOfRing
        /\ late' = IF stream.pc = "read" THEN late \cup ToSet(TailOfRing) ELSE late
        /\ lost' = lost
     \/ /\ state.truncated /\ Fails
        /\ lost' = lost \cup ToSet(TailOfRing)
        /\ UNCHANGED <<log, late>>
  /\ UNCHANGED <<status, state, ticker, flush, stream, chan, dropped>>

\* finishBuild, after the log.
FinishBuild ==
  /\ logger = "status" /\ logger' = "close"
  /\ status' = "over"
  /\ UNCHANGED <<log, state, ticker, flush, stream, chan, lost, dropped, late>>

\* The deferred cleanup of runBuild, with closeLogSubs.
CloseLogSubs ==
  /\ logger = "close" /\ logger' = "done"
  /\ state' = [state EXCEPT !.on = FALSE]
  /\ chan' = [chan EXCEPT !.on = FALSE, !.closed = chan.on \/ chan.closed]
  /\ UNCHANGED <<status, log, ticker, flush, stream, lost, dropped, late>>

\* The flusher ticks until the cleanup stops it.
Tick ==
  /\ ticker = "idle" /\ logger # "done" /\ state.pending # <<>>
  /\ ticker' = "flush"
  /\ UNCHANGED <<status, log, state, logger, flush, stream, chan, lost, dropped, late>>

FlushTick ==
  /\ ticker = "flush"
  /\ Flush("ticker")

-----------------------------------------------------------------------------
(* StreamBuildLogs. *)

Write(lines) == stream.out \o lines

\* Subscribe before reading, so that a build that ends in between still closes the channel.
SubscribeLogs ==
  /\ stream.pc = "new"
  /\ stream' = [stream EXCEPT !.pc = "flush"]
  /\ chan' = [chan EXCEPT !.on = TRUE]
  /\ UNCHANGED <<status, log, state, logger, ticker, flush, lost, dropped, late>>

FlushForStream ==
  /\ stream.pc = "flush"
  /\ Flush("stream")

\* Log and status are one row, read in one query.
GetBuild == [log |-> log, status |-> status]

\* The deferred unsubscribeLogs, which leaves a channel that is closed alone.
UnsubscribeLogs == chan' = [chan EXCEPT !.on = FALSE]

ReadBuild ==
  /\ stream.pc = "read"
  /\ LET build == GetBuild
         live == build.status = "running"
     IN /\ stream' = [stream EXCEPT !.out = Write(build.log), !.pc = IF live THEN "live" ELSE "end"]
        /\ IF live THEN chan' = chan ELSE UnsubscribeLogs
  /\ UNCHANGED <<status, log, state, logger, ticker, flush, lost, dropped, late>>

\* Mutant: a line that the snapshot already holds is written again.
CopyEveryLine ==
  /\ stream.pc = "live" /\ chan.lines # <<>>
  /\ stream' = [stream EXCEPT !.out = Append(@, Head(chan.lines))]
  /\ chan' = [chan EXCEPT !.lines = Tail(@)]
  /\ UNCHANGED <<status, log, state, logger, ticker, flush, lost, dropped, late>>

CopyLine ==
  /\ stream.pc = "live" /\ chan.lines # <<>>
  /\ LET line == Head(chan.lines) IN
       stream' = [stream EXCEPT !.out = IF line <= stream.covered THEN @ ELSE Append(@, line)]
  /\ chan' = [chan EXCEPT !.lines = Tail(@)]
  /\ UNCHANGED <<status, log, state, logger, ticker, flush, lost, dropped, late>>

EndStream ==
  /\ stream.pc = "live" /\ chan.closed /\ chan.lines = <<>>
  /\ stream' = [stream EXCEPT !.pc = "end"]
  /\ UnsubscribeLogs
  /\ UNCHANGED <<status, log, state, logger, ticker, flush, lost, dropped, late>>

Next ==
  \/ AppendLog \/ FlushFull \/ NotifyLogSubs
  \/ EndBuild \/ FlushLast \/ FlushTailBuffer \/ FinishBuild \/ CloseLogSubs
  \/ Tick \/ FlushTick
  \/ SubscribeLogs \/ FlushForStream \/ ReadBuild \/ CopyLine \/ EndStream

Spec == Init /\ [][Next]_vars

-----------------------------------------------------------------------------
(* Properties. *)

UpTo(n) == [i \in 1..n |-> i]

\* A build that is over has its log: every line in order, or the notice and the last lines.
LogIsComplete ==
  status = "over" =>
    IF state.truncated
    THEN lost = {} => log = <<Truncation>> \o SubSeq(UpTo(state.seq),
                 state.seq + 1 - Len(TailOfRing), state.seq)
    ELSE lost = {} => log = UpTo(state.seq)

\* A client that has followed a build to its end was sent every line, unless one was lost,
\* dropped or cut off; and never one twice, unless it was flushed by another between the
\* stream's flush and its read: such a line is in the row that is read, and not covered.
StreamIsComplete ==
  /\ \A i, j \in DOMAIN stream.out :
       i < j /\ {stream.out[i], stream.out[j]} \cap (late \cup {Truncation}) = {}
         => stream.out[i] < stream.out[j]
  /\ stream.pc = "end" /\ lost = {} /\ dropped = {} /\ ~state.truncated
       => 1..state.seq \subseteq ToSet(stream.out)

LogsComplete == LogIsComplete /\ StreamIsComplete

=============================================================================
