------------------------------- MODULE Logger -------------------------------
(***************************************************************************)
(* One log of the Android logger (drivers/staging/android/logger.c): a     *)
(* ring buffer that writers never wait for space in, and that readers      *)
(* follow at their own pace.                                               *)
(*                                                                         *)
(* A header and each unit of payload take one cell of the ring.  A cell    *)
(* knows the length of the entry it was written for, by which entries are  *)
(* told apart, and its place there.  Copying from a user may sleep with    *)
(* the mutex held, and fail; everything else a caller does with the mutex  *)
(* held is one step.  Payloads are such that a payload unit read as a      *)
(* header gives the length of its own entry.                               *)
(***************************************************************************)
EXTENDS Naturals, Sequences

CONSTANTS
  Writer,
  Reader,
  Size,         \* log->size
  MaxPayload    \* LOGGER_ENTRY_MAX_PAYLOAD

\* The logs have 64 or 256 KB, an entry at most 4 KB.
ASSUME LoggerAssumption ==
  /\ MaxPayload \in Nat \ {0}
  /\ Size \in Nat /\ Size >= 2 * (MaxPayload + 1)

VARIABLES
  buffer,    \* log->buffer
  w_off,     \* log->w_off
  head,      \* log->head
  r_off,     \* reader->r_off
  rpc,       \* where the process is that reads
  wpc,       \* where the process is that writes
  orig,      \* orig of logger_aio_write
  len,       \* header.len of logger_aio_write
  ret,       \* ret of logger_aio_write: the payload written so far
  start,     \* w_off when the writer took the mutex
  torn       \* history: a failed write has set w_off back to where it was not its own

log_vars == <<buffer, w_off, head>>
reader_vars == <<r_off, rpc>>
writer_vars == <<wpc, orig, len, ret, start>>
logger_vars == <<log_vars, reader_vars, writer_vars, torn>>

Offset == 0 .. Size - 1
Cell == [len : 1 .. MaxPayload, at : 0 .. MaxPayload]

\* What the buffer holds at first and where a copy has failed.
Zero == [len |-> 0, at |-> 0]

logger_offset(n) == n % Size

LoggerTypeOK ==
  /\ buffer \in [Offset -> Cell \cup {Zero}]
  /\ w_off \in Offset /\ head \in Offset /\ r_off \in [Reader -> Offset]
  /\ rpc \in [Reader -> {"closed", "open", "prepared", "sleeping", "found"}]
  /\ wpc \in [Writer -> {"idle", "begun", "writing", "waking"}]
  /\ orig \in [Writer -> Offset] /\ start \in [Writer -> Offset]
  /\ len \in [Writer -> 0 .. MaxPayload] /\ ret \in [Writer -> 0 .. MaxPayload]
  /\ torn \in BOOLEAN

\* log->mutex is free.
Unlocked == \A w \in Writer : wpc[w] # "writing"

get_entry_len(off) == buffer[off].len + 1

get_next_entry(off, n) ==
  LET ahead[count \in 0 .. n - 1] ==
        LET next == count + get_entry_len(logger_offset(off + count)) IN
          IF next < n THEN ahead[next] ELSE next
  IN logger_offset(off + ahead[0])

\* Mutant: a reader at the new write head is not lapped.
OpenInterval(a, b, c) ==
  IF b < a THEN a < c \/ b > c ELSE a < c /\ b > c

clock_interval(a, b, c) ==
  IF b < a THEN a < c \/ b >= c ELSE a < c /\ b >= c

-----------------------------------------------------------------------------
(* Readers.                                                                *)

logger_open(r) ==
  /\ rpc[r] = "closed" /\ Unlocked
  /\ rpc' = [rpc EXCEPT ![r] = "open"] /\ r_off' = [r_off EXCEPT ![r] = head]
  /\ UNCHANGED <<log_vars, writer_vars, torn>>

\* Takes no mutex.  The offset of a closed reader means nothing.
logger_release(r) ==
  /\ rpc[r] = "open"
  /\ rpc' = [rpc EXCEPT ![r] = "closed"] /\ r_off' = [r_off EXCEPT ![r] = 0]
  /\ UNCHANGED <<log_vars, writer_vars, torn>>

\* prepare_to_wait: from now on the reader can be woken up.
logger_read(r) ==
  /\ rpc[r] = "open" /\ rpc' = [rpc EXCEPT ![r] = "prepared"]
  /\ UNCHANGED <<log_vars, r_off, writer_vars, torn>>

\* The answer to an empty log is to sleep, -EAGAIN or -EINTR.
CheckEmpty(r) ==
  /\ rpc[r] = "prepared" /\ Unlocked
  /\ \E s \in IF w_off = r_off[r] THEN {"sleeping", "open"} ELSE {"found"} :
       rpc' = [rpc EXCEPT ![r] = s]
  /\ UNCHANGED <<log_vars, r_off, writer_vars, torn>>

\* A signal: logger_read looks once more.
Interrupted(r) ==
  /\ rpc[r] = "sleeping" /\ Unlocked
  /\ rpc' = [rpc EXCEPT ![r] = IF w_off = r_off[r] THEN "open" ELSE "found"]
  /\ UNCHANGED <<log_vars, r_off, writer_vars, torn>>

\* The log was flushed meanwhile: start again.
ReadRaced(r) ==
  /\ rpc[r] = "found" /\ Unlocked /\ w_off = r_off[r]
  /\ rpc' = [rpc EXCEPT ![r] = "prepared"]
  /\ UNCHANGED <<log_vars, r_off, writer_vars, torn>>

\* Fails, with nothing read, if the user's buffer is too small or not there.
do_read_log_to_user(r) ==
  /\ rpc[r] = "found" /\ Unlocked /\ w_off # r_off[r]
  /\ \/ r_off' = [r_off EXCEPT ![r] = logger_offset(@ + get_entry_len(@))]
     \/ UNCHANGED r_off
  /\ rpc' = [rpc EXCEPT ![r] = "open"]
  /\ UNCHANGED <<log_vars, writer_vars, torn>>

-----------------------------------------------------------------------------
(* Writers.                                                                *)

\* logger_aio_write up to mutex_lock.  The mutex may well be taken.
logger_aio_write(w, n) ==
  /\ wpc[w] = "idle" /\ wpc' = [wpc EXCEPT ![w] = "begun"]
  /\ orig' = [orig EXCEPT ![w] = w_off]
  /\ len' = [len EXCEPT ![w] = n]
  /\ UNCHANGED <<log_vars, reader_vars, ret, start, torn>>

fix_up_readers(n) ==
  LET lapped(off) == clock_interval(w_off, logger_offset(w_off + n), off)
      fixed(off) == IF lapped(off) THEN get_next_entry(off, n) ELSE off
  IN /\ head' = fixed(head)
     /\ r_off' = [r \in Reader |-> IF rpc[r] = "closed" THEN r_off[r] ELSE fixed(r_off[r])]

\* mutex_lock, fix_up_readers and the header.
do_write_log(w) ==
  /\ wpc[w] = "begun" /\ Unlocked /\ wpc' = [wpc EXCEPT ![w] = "writing"]
  /\ fix_up_readers(len[w] + 1)
  /\ buffer' = [buffer EXCEPT ![w_off] = [len |-> len[w], at |-> 0]]
  /\ w_off' = logger_offset(w_off + 1)
  /\ start' = [start EXCEPT ![w] = w_off]
  /\ UNCHANGED <<rpc, orig, len, ret, torn>>

\* The k cells from w_off on.
Segment(k) == {logger_offset(w_off + i) : i \in 0 .. k - 1}

\* The place of a cell in the entry w is writing.
Place(w, off) == (off + Size - start[w]) % Size

\* A segment of k units is copied.
do_write_log_from_user(w, k) ==
  /\ wpc[w] = "writing" /\ ret[w] + k <= len[w]
  /\ buffer' = [o \in Offset |->
                  IF o \in Segment(k)
                  THEN [len |-> len[w], at |-> Place(w, o)] ELSE buffer[o]]
  /\ w_off' = logger_offset(w_off + k)
  /\ ret' = [ret EXCEPT ![w] = @ + k]
  /\ UNCHANGED <<head, reader_vars, wpc, orig, len, start, torn>>

\* What a writer forgets when it returns.
Returned(w) ==
  /\ orig' = [orig EXCEPT ![w] = 0] /\ start' = [start EXCEPT ![w] = 0]
  /\ len' = [len EXCEPT ![w] = 0] /\ ret' = [ret EXCEPT ![w] = 0]

\* A segment of k units cannot be copied; copy_from_user fills what is missing with
\* zeros.  Nobody is woken up.
WriteFails(w, k) ==
  /\ wpc[w] = "writing" /\ ret[w] + k <= len[w]
  /\ buffer' = [o \in Offset |-> IF o \in Segment(k) THEN Zero ELSE buffer[o]]
  /\ w_off' = orig[w]
  /\ torn' = (torn \/ orig[w] # start[w])
  /\ wpc' = [wpc EXCEPT ![w] = "idle"] /\ Returned(w)
  /\ UNCHANGED <<head, reader_vars>>

\* Mutant: nobody is woken up.
DoneQuietly(w) ==
  /\ wpc[w] = "writing" /\ ret[w] = len[w]
  /\ wpc' = [wpc EXCEPT ![w] = "idle"] /\ Returned(w)
  /\ UNCHANGED <<log_vars, reader_vars, torn>>

WriteDone(w) ==
  /\ wpc[w] = "writing" /\ ret[w] = len[w]
  /\ wpc' = [wpc EXCEPT ![w] = "waking"] /\ Returned(w)
  /\ UNCHANGED <<log_vars, reader_vars, torn>>

wake_up_interruptible(w) ==
  /\ wpc[w] = "waking" /\ wpc' = [wpc EXCEPT ![w] = "idle"]
  /\ rpc' = [r \in Reader |-> IF rpc[r] = "sleeping" THEN "prepared" ELSE rpc[r]]
  /\ UNCHANGED <<log_vars, r_off, orig, len, ret, start, torn>>

\* logger_ioctl with LOGGER_FLUSH_LOG.  Its other commands change nothing.
Flush ==
  /\ Unlocked /\ head' = w_off
  /\ r_off' = [r \in Reader |-> IF rpc[r] = "closed" THEN r_off[r] ELSE w_off]
  /\ UNCHANGED <<buffer, w_off, rpc, writer_vars, torn>>

-----------------------------------------------------------------------------

LoggerInit ==
  /\ buffer = [o \in Offset |-> Zero] /\ w_off = 0 /\ head = 0
  /\ r_off = [r \in Reader |-> 0] /\ rpc = [r \in Reader |-> "closed"]
  /\ wpc = [w \in Writer |-> "idle"]
  /\ orig = [w \in Writer |-> 0] /\ start = [w \in Writer |-> 0]
  /\ len = [w \in Writer |-> 0] /\ ret = [w \in Writer |-> 0]
  /\ torn = FALSE

ReaderStep(r) ==
  \/ logger_open(r) \/ logger_release(r) \/ logger_read(r) \/ CheckEmpty(r)
  \/ Interrupted(r) \/ ReadRaced(r) \/ do_read_log_to_user(r)

WriterStep(w) ==
  \/ \E n \in 1 .. MaxPayload : logger_aio_write(w, n)
  \/ do_write_log(w)
  \/ \E k \in 1 .. MaxPayload : do_write_log_from_user(w, k) \/ WriteFails(w, k)
  \/ WriteDone(w) \/ wake_up_interruptible(w)

LoggerNext ==
  \/ \E r \in Reader : ReaderStep(r)
  \/ \E w \in Writer : WriterStep(w)
  \/ Flush

LoggerSpec == LoggerInit /\ [][LoggerNext]_logger_vars

-----------------------------------------------------------------------------
(* The log as a queue of entries.                                          *)

\* The entry at off, as its writer wrote it.
Whole(off) ==
  LET c == buffer[off] IN
    c # Zero /\ \A i \in 0 .. c.len : buffer[logger_offset(off + i)] = [c EXCEPT !.at = i]

EntryAt(off) == IF Whole(off) THEN buffer[off].len ELSE 0

\* Where the last complete entry ends: what a writer has not finished does not count.
End ==
  IF Unlocked THEN w_off ELSE start[CHOOSE w \in Writer : wpc[w] = "writing"]

\* The entries from off to the end, 0 for what is not a whole one.
EntriesFrom(off) ==
  LET n == (End + Size - off) % Size
      entries[count \in 0 .. n] ==
        LET o == logger_offset(off + count)
            next == count + get_entry_len(o)
        IN IF count = n THEN <<>>
           ELSE IF next > n THEN <<0>>
           ELSE <<EntryAt(o)>> \o entries[next]
  IN entries[0]

Queue == INSTANCE LogQueue WITH
  Entry <- 1 .. MaxPayload,
  open <- {r \in Reader : rpc[r] # "closed"},
  kept <- EntriesFrom(head),
  unread <- [r \in Reader |-> IF rpc[r] = "closed" THEN <<>> ELSE EntriesFrom(r_off[r])]

-----------------------------------------------------------------------------
(* Properties.                                                             *)

\* However writers, readers and failures interleave, the log is a queue of whole
\* entries as LogQueue promises, until a failed write sets w_off back to a value it
\* has read before it had the mutex.
QueueUntilTorn == Queue!QueueInit /\ [][torn' \/ Queue!QueueNext]_(Queue!queue_vars)

\* The comment on logger_read: "Atomically reads exactly one log entry".
OneWholeEntry ==
  \A r \in Reader : rpc[r] # "closed" /\ Unlocked /\ r_off[r] # w_off => Whole(r_off[r])

\* No reader sleeps on a log with something to read, unless a writer is about to
\* wake it up.
SleepersWoken ==
  ~torn => \A r \in Reader : rpc[r] = "sleeping" /\ r_off[r] # w_off =>
             \E w \in Writer : wpc[w] \in {"writing", "waking"}
=============================================================================
