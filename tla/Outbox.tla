------------------------------- MODULE Outbox -------------------------------
(***************************************************************************)
(* The event ledger's ways out: the transactions that append to run_events *)
(* and to the outbox, the relays that drain the outbox into a topic with   *)
(* one partition per run, and the clients that read a run's events by      *)
(* polling or as a stream that they resume where it broke.                 *)
(*                                                                         *)
(* An event is its place in the run's sequence and whether it ends the     *)
(* run.  MaxRows bounds the events, MaxCopies what one partition holds.    *)
(***************************************************************************)
EXTENDS Naturals, Sequences, FiniteSets, SequencesExt

CONSTANTS
  Ledgers,     \* runs that have a ledger
  Writers,     \* database transactions that append
  Relays,      \* relay processes
  Readers,     \* clients of the event endpoints
  RelayBatch,  \* cfg.RELAY_BATCH
  ReadLimit,   \* limit of listEvents
  MaxRows, MaxCopies

ASSUME OutboxAssumption ==
  {RelayBatch, ReadLimit, MaxRows, MaxCopies} \subseteq Nat \ {0}

VARIABLES
  ledger,      \* committed run_events of each run: [seq, ends]
  appending,   \* the open transactions
  rowId,       \* the last id drawn for an outbox row
  outbox,      \* committed rows: [id, ledger, seq, published]
  relay,       \* each relay's transaction: the rows it has locked
  partition,   \* the topic: one sequence of event numbers per run
  reader       \* each client: what it got, and its stream

outboxVars ==
  <<ledger, appending, rowId, outbox, relay, partition, reader>>

\* ORDER BY .. LIMIT: the first numbers of a set, at most n of them.
Ascending(T, n) ==
  [i \in 1..(IF Cardinality(T) < n THEN Cardinality(T) ELSE n) |->
     CHOOSE m \in T : Cardinality({k \in T : k < m}) = i - 1]

NoAppend == [open |-> FALSE]
IdleRelay == [pc |-> "idle", batch |-> <<>>]

OutboxInit ==
  /\ ledger = [l \in Ledgers |-> {}]
  /\ appending = [w \in Writers |-> NoAppend]
  /\ rowId = 0
  /\ outbox = {}
  /\ relay = [x \in Relays |-> IdleRelay]
  /\ partition = [l \in Ledgers |-> <<>>]
  /\ reader \in [Readers -> {[ledger |-> l, got |-> <<>>, from |-> 0, pc |-> "away"] : l \in Ledgers}]
-----------------------------------------------------------------------------
(* Appending: transition.ts *)

Ended(l) == \E e \in ledger[l] : e.ends
LastEventSeq(l) == Cardinality(ledger[l])
Locked(l) == \E w \in Writers : appending[w].open /\ appending[w].ledger = l

\* Faulty variant: the number is drawn and the row is not locked.
DrawNumber(w, l, ends) ==
  /\ ~appending[w].open
  /\ ends => ~Ended(l)
  /\ rowId < MaxRows
  /\ rowId' = rowId + 1
  /\ appending' = [appending EXCEPT ![w] =
       [open |-> TRUE, ledger |-> l, id |-> rowId + 1, ends |-> ends,
        seq |-> LastEventSeq(l) + 1
                + Cardinality({v \in Writers : appending[v].open /\ appending[v].ledger = l})]]
  /\ UNCHANGED <<ledger, outbox, relay, partition, reader>>

\* lockRun, then the event and its outbox row: the next number of the run, and
\* an id that no rollback gives back.  A terminal run has no further transition.
LockAndInsert(w, l, ends) ==
  /\ ~appending[w].open /\ ~Locked(l)
  /\ ends => ~Ended(l)
  /\ rowId < MaxRows
  /\ rowId' = rowId + 1
  /\ appending' = [appending EXCEPT ![w] =
       [open |-> TRUE, ledger |-> l, id |-> rowId + 1, ends |-> ends,
        seq |-> LastEventSeq(l) + 1]]
  /\ UNCHANGED <<ledger, outbox, relay, partition, reader>>

CommitAppend(w) ==
  /\ appending[w].open
  /\ LET t == appending[w] IN
     /\ ledger' = [ledger EXCEPT ![t.ledger] = @ \cup {[seq |-> t.seq, ends |-> t.ends]}]
     /\ outbox' = outbox \cup {[id |-> t.id, ledger |-> t.ledger, seq |-> t.seq,
                                published |-> FALSE]}
  /\ appending' = [appending EXCEPT ![w] = NoAppend]
  /\ UNCHANGED <<rowId, relay, partition, reader>>

RollBackAppend(w) ==
  /\ appending[w].open
  /\ appending' = [appending EXCEPT ![w] = NoAppend]
  /\ UNCHANGED <<ledger, rowId, outbox, relay, partition, reader>>
-----------------------------------------------------------------------------
(* Draining: drainOutbox, in the loop of relay.ts *)

Held(x) == ToSet(relay[x].batch)
Drainable == { r \in outbox : ~r.published /\ \A x \in Relays : r \notin Held(x) }
Oldest(rows, n) ==
  LET ids == Ascending({r.id : r \in rows}, n) IN
  [i \in DOMAIN ids |-> CHOOSE r \in rows : r.id = ids[i]]

\* Faulty variant: a row is marked as soon as it is read.
LockAndMark(x) ==
  /\ relay[x].pc = "idle" /\ Drainable # {}
  /\ LET b == Oldest(Drainable, 1)
         marked == [b[1] EXCEPT !.published = TRUE] IN
     /\ relay' = [relay EXCEPT ![x] = [pc |-> "locked", batch |-> <<marked>>]]
     /\ outbox' = (outbox \ {b[1]}) \cup {marked}
  /\ UNCHANGED <<ledger, appending, rowId, partition, reader>>

\* SELECT .. WHERE published_at IS NULL ORDER BY id FOR UPDATE SKIP LOCKED.
LockBatch(x) ==
  /\ relay[x].pc = "idle" /\ Drainable # {}
  /\ relay' = [relay EXCEPT ![x] =
       [pc |-> "locked", batch |-> Oldest(Drainable, RelayBatch)]]
  /\ UNCHANGED <<ledger, appending, rowId, outbox, partition, reader>>

\* The messages of a batch that are keyed by the run l.
MessagesOf(l, batch) ==
  LET places == Ascending({i \in DOMAIN batch : batch[i].ledger = l}, Len(batch)) IN
  [k \in DOMAIN places |-> batch[places[k]]]

\* producer.send: one message per row.
PublishBatch(x) ==
  /\ relay[x].pc = "locked"
  /\ LET sent == [l \in Ledgers |-> partition[l] \o MessagesOf(l, relay[x].batch)] IN
     /\ \A l \in Ledgers : Len(sent[l]) <= MaxCopies
     /\ partition' = sent
  /\ relay' = [relay EXCEPT ![x].pc = "sent"]
  /\ UNCHANGED <<ledger, appending, rowId, outbox, reader>>

MarkBatch(x) ==
  /\ relay[x].pc = "sent"
  /\ outbox' = (outbox \ Held(x)) \cup {[r EXCEPT !.published = TRUE] : r \in Held(x)}
  /\ relay' = [relay EXCEPT ![x] = IdleRelay]
  /\ UNCHANGED <<ledger, appending, rowId, partition, reader>>

\* publish throws, the connection breaks or the relay dies: the transaction is
\* rolled back, whether or not the broker has the messages.
AbandonBatch(x) ==
  /\ relay[x].pc # "idle"
  /\ relay' = [relay EXCEPT ![x] = IdleRelay]
  /\ UNCHANGED <<ledger, appending, rowId, outbox, partition, reader>>
-----------------------------------------------------------------------------
(* Reading: routes/runs.ts *)

AfterSeq(c) == IF reader[c].got = <<>> THEN 0 ELSE Last(reader[c].got)

\* listEvents: the events after a number, in order, at most ReadLimit.
ListEvents(l, after) ==
  Ascending({e.seq : e \in {e \in ledger[l] : e.seq > after}}, ReadLimit)

\* One answered long poll.
PollEvents(c) ==
  /\ reader[c].pc = "away"
  /\ ListEvents(reader[c].ledger, AfterSeq(c)) # <<>>
  /\ reader' = [reader EXCEPT ![c].got = @ \o ListEvents(reader[c].ledger, AfterSeq(c))]
  /\ UNCHANGED <<ledger, appending, rowId, outbox, relay, partition>>

\* Last-Event-ID is the number of the last event the client has.
OpenStream(c) ==
  /\ reader[c].pc = "away"
  /\ reader' = [reader EXCEPT ![c] = [@ EXCEPT !.pc = "list", !.from = Len(reader[c].got)]]
  /\ UNCHANGED <<ledger, appending, rowId, outbox, relay, partition>>

StreamBatch(c) ==
  /\ reader[c].pc = "list"
  /\ LET r == reader[c] IN
     reader' = [reader EXCEPT ![c] = [r EXCEPT
       !.got = r.got \o ListEvents(r.ledger, AfterSeq(c)), !.pc = "check"]]
  /\ UNCHANGED <<ledger, appending, rowId, outbox, relay, partition>>

\* getRun, after the batch was read.
CheckEnd(c) ==
  /\ reader[c].pc = "check"
  /\ LET l == reader[c].ledger IN
     reader' = [reader EXCEPT ![c].pc =
       IF Ended(l) /\ AfterSeq(c) >= LastEventSeq(l) THEN "ended" ELSE "list"]
  /\ UNCHANGED <<ledger, appending, rowId, outbox, relay, partition>>

\* The connection or SSE_MAX_STREAM_MS: the client keeps what had arrived.
BreakStream(c) ==
  /\ reader[c].pc \in {"list", "check"}
  /\ LET r == reader[c] IN
     \E n \in r.from..Len(r.got) :
       reader' = [reader EXCEPT ![c] = [r EXCEPT
         !.pc = "away", !.got = SubSeq(r.got, 1, n), !.from = 0]]
  /\ UNCHANGED <<ledger, appending, rowId, outbox, relay, partition>>

Appends ==
  \E w \in Writers :
    \/ \E l \in Ledgers, ends \in BOOLEAN : LockAndInsert(w, l, ends)
    \/ CommitAppend(w) \/ RollBackAppend(w)
Drains ==
  \E x \in Relays : LockBatch(x) \/ PublishBatch(x) \/ MarkBatch(x) \/ AbandonBatch(x)
Reads ==
  \E c \in Readers :
    PollEvents(c) \/ OpenStream(c) \/ StreamBatch(c) \/ CheckEnd(c) \/ BreakStream(c)

OutboxNext == Appends \/ Drains \/ Reads

OutboxSpec == OutboxInit /\ [][OutboxNext]_outboxVars
-----------------------------------------------------------------------------
(* Properties *)

\* The type of the state, and a row is held by one relay (SKIP LOCKED).
OutboxTypeOK ==
  /\ \A l \in Ledgers : {e.seq : e \in ledger[l]} \subseteq 1..rowId
  /\ rowId \in 0..MaxRows
  /\ \A r \in outbox : r.id \in 1..rowId /\ r.ledger \in Ledgers /\ r.published \in BOOLEAN
  /\ \A x, y \in Relays : x # y => Held(x) \cap Held(y) = {}
  /\ \A x \in Relays : relay[x].pc \in {"idle", "locked", "sent"} /\ Held(x) \subseteq outbox
  /\ \A l \in Ledgers : {r.id : r \in ToSet(partition[l])} \subseteq {r.id : r \in outbox}
  /\ \A c \in Readers : reader[c].pc \in {"away", "list", "check", "ended"}

\* However polls, streams and reconnections follow each other, and whoever
\* appends meanwhile, a client gets the run's events from the first, in order,
\* each once, and its stream ends behind the final one (runs.ts:226 "End the
\* stream once the run is terminal and the client has seen the final event"): a
\* number that became visible late would be passed over for good, and a run may
\* end between the read of a batch and the read of its status.
Gapless(c) ==
  LET got == reader[c].got IN
  /\ got = [i \in 1..Len(got) |-> i]
  /\ ToSet(got) \subseteq {e.seq : e \in ledger[reader[c].ledger]}

ReadersSeeWholeStreams ==
  \A c \in Readers :
    /\ Gapless(c)
    /\ reader[c].pc = "ended" =>
         \E e \in ledger[reader[c].ledger] : e.ends /\ e.seq \in ToSet(reader[c].got)

\* At least once: a row is marked only when the topic has it, whichever relay
\* crashed at whichever point (outbox.ts drainOutbox).
MarkedRowsArePublished ==
  \A r \in outbox : r.published => r.id \in {q.id : q \in ToSet(partition[r.ledger])}

FirstCopies(l) ==
  LET p == partition[l] IN
  SelectSeq([i \in DOMAIN p |-> IF \E j \in 1..i - 1 : p[j].id = p[i].id THEN 0 ELSE p[i].seq],
            LAMBDA n : n # 0)

\* "keyed by event.key (the run id) so a run's events stay ordered within a
\* partition" (kafkaPublisher.ts:8-9), and multiple relays are allowed for
\* (outbox.ts:17-18).
PartitionsStayOrdered ==
  \A l \in Ledgers : FirstCopies(l) = [i \in DOMAIN FirstCopies(l) |-> i]
=============================================================================
