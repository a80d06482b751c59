------------------------------ MODULE LogQueue ------------------------------
(***************************************************************************)
(* What a log promises its users: every reader gets whole entries, in the  *)
(* order in which they were written and each once; what it has not read in *)
(* time may be lost, the oldest entries first.                             *)
(***************************************************************************)
EXTENDS Sequences, Naturals

CONSTANTS
  Reader,
  Entry

VARIABLES
  open,     \* the readers that have the log open
  kept,     \* the entries a new reader gets
  unread    \* the entries a reader has still to read

queue_vars == <<open, kept, unread>>

\* s without some of its first entries.
Suffixes(s) == {SubSeq(s, i, Len(s)) : i \in 1 .. Len(s) + 1}

QueueInit == open = {} /\ kept = <<>> /\ unread = [r \in Reader |-> <<>>]

Open(r) ==
  /\ r \notin open /\ open' = open \cup {r}
  /\ unread' = [unread EXCEPT ![r] = kept]
  /\ UNCHANGED kept

Close(r) ==
  /\ r \in open /\ open' = open \ {r}
  /\ unread' = [unread EXCEPT ![r] = <<>>]
  /\ UNCHANGED kept

Read(r) ==
  /\ r \in open /\ unread[r] # <<>>
  /\ unread' = [unread EXCEPT ![r] = Tail(@)]
  /\ UNCHANGED <<open, kept>>

\* A writer needs space; its write may then fail.
Lose ==
  /\ kept' \in Suffixes(kept)
  /\ \A r \in Reader : unread'[r] \in Suffixes(unread[r])
  /\ DOMAIN unread' = Reader
  /\ UNCHANGED open

Write(e) ==
  /\ kept' = Append(kept, e)
  /\ unread' = [r \in Reader |-> IF r \in open THEN Append(unread[r], e) ELSE <<>>]
  /\ UNCHANGED open

Flush ==
  /\ kept' = <<>> /\ unread' = [r \in Reader |-> <<>>]
  /\ UNCHANGED open

QueueNext ==
  \/ \E r \in Reader : Open(r) \/ Close(r) \/ Read(r)
  \/ \E e \in Entry : Write(e)
  \/ Lose \/ Flush

QueueSpec == QueueInit /\ [][QueueNext]_queue_vars
=============================================================================
