--------------------------- MODULE Database_proofs ---------------------------
(***************************************************************************)
(* Proofs about what rests on the database, for any number of actors and   *)
(* any limits.  Outbox: a client gets a run's events from the first, in    *)
(* order, each once, and a row is marked only when the topic has it.       *)
(* FencePool: with one connection kept back from the permits no set of     *)
(* actions, model calls and transactions wedges the pool.  RunExport: what *)
(* an export reads while the run goes on holds together.                   *)
(***************************************************************************)
EXTENDS Outbox, FencePool, RunExport, FiniteFacts, SequenceTheorems

-----------------------------------------------------------------------------
(* ORDER BY .. LIMIT.                                                      *)

\* What Ascending lists: elements of the set only, and all of them when the
\* limit allows it.
LEMMA AscendingLists ==
  ASSUME NEW T \in SUBSET Nat, IsFiniteSet(T), NEW n \in Nat
  PROVE  /\ DOMAIN Ascending(T, n) = 1..(IF Cardinality(T) < n THEN Cardinality(T) ELSE n)
         /\ \A i \in DOMAIN Ascending(T, n) : Ascending(T, n)[i] \in T
         /\ Cardinality(T) <= n
              => \A m \in T : \E i \in DOMAIN Ascending(T, n) : Ascending(T, n)[i] = m
  <1>. DEFINE Rank(m) == Cardinality({k \in T : k < m})
              limit == IF Cardinality(T) < n THEN Cardinality(T) ELSE n
  <1>1. Cardinality(T) \in Nat
    BY FS_CardinalityType
  <1>2. \A i \in 1..Cardinality(T) : \E m \in T : Rank(m) = i - 1
    BY RankIsTaken
  <1>3. \A m \in T : /\ Rank(m) \in Nat /\ Rank(m) < Cardinality(T)
                     /\ \A l \in T : Rank(l) = Rank(m) => l = m
    BY RankIsOfOne
  <1>4. Ascending(T, n) = [i \in 1..limit |-> CHOOSE m \in T : Rank(m) = i - 1]
    BY DEF Ascending
  <1>. HIDE DEF Rank
  <1>5. 1..limit \subseteq 1..Cardinality(T)
    BY <1>1
  <1>6. \A i \in 1..limit : /\ (CHOOSE m \in T : Rank(m) = i - 1) \in T
                            /\ Rank(CHOOSE m \in T : Rank(m) = i - 1) = i - 1
    BY <1>2, <1>5
  <1>7. ASSUME Cardinality(T) <= n, NEW m \in T
        PROVE  /\ Rank(m) + 1 \in 1..limit
               /\ (CHOOSE l \in T : Rank(l) = (Rank(m) + 1) - 1) = m
    BY <1>1, <1>3, <1>7
  <1>. QED
    BY <1>4, <1>6, <1>7

\* Ascending counts an interval up.
LEMMA AscendingOfInterval ==
  ASSUME NEW a \in Nat, NEW b \in Nat, a <= b, NEW n \in Nat
  PROVE  Ascending(a + 1 .. b, n) = [i \in 1..(IF b - a < n THEN b - a ELSE n) |-> a + i]
  <1>. DEFINE T == a + 1 .. b
              Rank(m) == Cardinality({k \in T : k < m})
  <1>1. Cardinality(T) = b - a
    <2>1. a + 1 \in Int /\ b \in Int /\ (a + 1 > b <=> a = b)
      OBVIOUS
    <2>2. Cardinality(T) = IF a + 1 > b THEN 0 ELSE b - (a + 1) + 1
      BY <2>1, FS_Interval
    <2>. QED
      BY <2>1, <2>2
  <1>2. \A m \in T : Rank(m) = m - a - 1
    <2>1. \A m \in T : {k \in T : k < m} = a + 1 .. m - 1
      OBVIOUS
    <2>2. \A m \in T : Cardinality(a + 1 .. m - 1) = m - a - 1
      BY FS_Interval
    <2>. QED
      BY <2>1, <2>2
  <1>3. Ascending(T, n) = [i \in 1..(IF Cardinality(T) < n THEN Cardinality(T) ELSE n)
                             |-> CHOOSE m \in T : Rank(m) = i - 1]
    BY DEF Ascending
  <1>. HIDE DEF Rank
  <1>4. \A i \in 1..b - a : (CHOOSE m \in T : Rank(m) = i - 1) = a + i
    BY <1>2
  <1>5. Ascending(T, n) = [i \in 1..(IF b - a < n THEN b - a ELSE n)
                             |-> CHOOSE m \in T : Rank(m) = i - 1]
    BY <1>1, <1>3
  <1>6. \A i \in 1..(IF b - a < n THEN b - a ELSE n) : i \in 1..b - a
    OBVIOUS
  <1>7. \A i \in 1..(IF b - a < n THEN b - a ELSE n) :
           (CHOOSE m \in T : Rank(m) = i - 1) = a + i
    BY <1>4, <1>6
  <1>. QED
    BY <1>5, <1>7

-----------------------------------------------------------------------------
(* The invariants.                                                         *)

Events == [seq : Nat, ends : BOOLEAN]
Rows == [id : Nat, ledger : Ledgers, seq : Nat, published : BOOLEAN]
OpenAppends == [open : {TRUE}, ledger : Ledgers, id : Nat, ends : BOOLEAN, seq : Nat]

\* The numbers of a run's events.
Numbers(l) == {e.seq : e \in ledger[l]}

\* The ledger of a run is numbered 1, 2, .. without a gap, whatever is open,
\* and the one transaction that has the run's row has the next number.
LedgerIsGapless ==
  /\ rowId \in Nat
  /\ ledger \in [Ledgers -> SUBSET Events]
  /\ appending \in [Writers -> {NoAppend} \cup OpenAppends]
  /\ \A l \in Ledgers :
       /\ IsFiniteSet(ledger[l])
       /\ Numbers(l) = 1..LastEventSeq(l)
  /\ \A w \in Writers : appending[w].open =>
       /\ appending[w].id \in 1..rowId
       /\ appending[w].seq = LastEventSeq(appending[w].ledger) + 1
       /\ \A v \in Writers : appending[v].open /\ appending[v].ledger = appending[w].ledger
                              => v = w

\* A client has the first numbers of its run, and an ended stream an end.
ClientsAreGapless ==
  /\ reader \in [Readers -> [ledger : Ledgers, got : Seq(Nat), from : Nat,
                             pc : {"away", "list", "check", "ended"}]]
  /\ \A c \in Readers :
       /\ Len(reader[c].got) <= LastEventSeq(reader[c].ledger)
       /\ \A i \in 1..Len(reader[c].got) : reader[c].got[i] = i
       /\ reader[c].pc = "ended" =>
            \E e \in ledger[reader[c].ledger] : e.ends /\ e.seq <= Len(reader[c].got)

\* The topic, one sequence of messages per run, has a message of the row.
OnTopic(r, topic) == \E j \in 1..Len(topic[r.ledger]) : topic[r.ledger][j].id = r.id

\* What a relay is about to mark, and what is marked, is on the topic.
RowsAreOnTopic ==
  /\ outbox \subseteq Rows /\ \A r \in outbox : r.id \in 1..rowId
  /\ partition \in [Ledgers -> Seq(Rows)]
  /\ relay \in [Relays -> [pc : {"idle", "locked", "sent"}, batch : Seq(Rows)]]
  /\ \A x \in Relays : \A i \in 1..Len(relay[x].batch) :
       /\ relay[x].batch[i].id \in 1..rowId
       /\ relay[x].pc = "sent" => OnTopic(relay[x].batch[i], partition)
  /\ \A r \in outbox : r.published => OnTopic(r, partition)

\* The inductive invariant.
OutboxInv == LedgerIsGapless /\ ClientsAreGapless /\ RowsAreOnTopic
-----------------------------------------------------------------------------
(* Appending.                                                              *)

\* Opening, committing and rolling back an append keep the numbers gapless; a
\* ledger only grows.
LEMMA AppendStep ==
  ASSUME OutboxInv, Appends
  PROVE  /\ LedgerIsGapless'
         /\ \A l \in Ledgers : ledger[l] \subseteq ledger'[l]
                               /\ LastEventSeq(l) <= LastEventSeq(l)'
  <1>. USE DEF OutboxInv, LedgerIsGapless
  <1>1. \A l \in Ledgers : LastEventSeq(l) \in Nat
    BY FS_CardinalityType DEF LastEventSeq
  <1>2. \A w \in Writers : appending[w].open => appending[w] \in OpenAppends
    BY DEF NoAppend
  <1>3. ASSUME NEW w \in Writers, NEW l \in Ledgers, NEW ends \in BOOLEAN,
               LockAndInsert(w, l, ends)
        PROVE  LedgerIsGapless' /\ UNCHANGED ledger
    <2>. DEFINE t == [open |-> TRUE, ledger |-> l, id |-> rowId + 1, ends |-> ends,
                      seq |-> LastEventSeq(l) + 1]
    <2>1. /\ appending' = [appending EXCEPT ![w] = t]
          /\ rowId' = rowId + 1 /\ UNCHANGED ledger
      BY <1>3 DEF LockAndInsert
    <2>2. t \in OpenAppends
      BY <1>1 DEF OpenAppends
    <2>3. /\ t.open /\ t.ledger = l /\ t.id = rowId + 1
          /\ t.seq = Cardinality(ledger[l]) + 1
      BY DEF LastEventSeq
    <2>. HIDE DEF t
    <2>4. /\ appending'[w] = t /\ \A v \in Writers \ {w} : appending'[v] = appending[v]
          /\ appending' \in [Writers -> {NoAppend} \cup OpenAppends]
      BY <2>1, <2>2
    <2>5. \A v \in Writers : appending[v].open => appending[v].ledger # l /\ v # w
      BY <1>3 DEF LockAndInsert, Locked
    <2>6. \A v \in Writers : appending[v].open => appending[v].id \in Nat
      BY <1>2 DEF OpenAppends
    <2>7. ASSUME NEW v \in Writers, appending'[v].open
          PROVE  /\ appending'[v].id \in 1..rowId'
                 /\ appending'[v].seq = Cardinality(ledger'[appending'[v].ledger]) + 1
                 /\ \A u \in Writers :
                      appending'[u].open /\ appending'[u].ledger = appending'[v].ledger => u = v
      <3>1. CASE v = w
        BY <2>1, <2>3, <2>4, <2>5, <3>1
      <3>2. CASE v # w
        BY <2>1, <2>3, <2>4, <2>5, <2>6, <2>7, <3>2 DEF LastEventSeq
      <3>. QED
        BY <3>1, <3>2
    <2>. QED
      BY <2>1, <2>4, <2>7 DEF LastEventSeq, Numbers
  <1>4. ASSUME NEW w \in Writers, RollBackAppend(w)
        PROVE  LedgerIsGapless' /\ UNCHANGED ledger
    <2>1. /\ appending' = [appending EXCEPT ![w] = NoAppend]
          /\ UNCHANGED <<ledger, rowId>>
      BY <1>4 DEF RollBackAppend
    <2>2. /\ appending'[w] = NoAppend /\ \A v \in Writers \ {w} : appending'[v] = appending[v]
          /\ appending' \in [Writers -> {NoAppend} \cup OpenAppends]
      BY <2>1
    <2>3. \A v \in Writers : appending'[v].open => appending[v].open /\ appending'[v] = appending[v]
      BY <2>2 DEF NoAppend
    <2>. QED
      BY <2>1, <2>2, <2>3 DEF LastEventSeq, Numbers
  <1>5. ASSUME NEW w \in Writers, CommitAppend(w)
        PROVE  LedgerIsGapless' /\ \A l \in Ledgers : ledger[l] \subseteq ledger'[l]
                                      /\ LastEventSeq(l) <= LastEventSeq(l)'
    <2>1. appending[w].open /\ appending[w] \in OpenAppends
      BY <1>2, <1>5 DEF CommitAppend
    <2>2. PICK l \in Ledgers : l = appending[w].ledger
      BY <2>1 DEF OpenAppends
    <2>3. PICK e \in Events : /\ e.seq = LastEventSeq(l) + 1
                              /\ ledger' = [ledger EXCEPT ![l] = ledger[l] \cup {e}]
      <3>1. [seq |-> appending[w].seq, ends |-> appending[w].ends] \in Events
        BY <2>1 DEF OpenAppends, Events
      <3>2. appending[w].seq = LastEventSeq(l) + 1
        BY <2>1, <2>2
      <3>3. ledger' = [ledger EXCEPT ![l] = ledger[l] \cup
                         {[seq |-> appending[w].seq, ends |-> appending[w].ends]}]
        BY <1>5, <2>2 DEF CommitAppend
      <3>. QED
        BY <3>1, <3>2, <3>3
    <2>4. /\ appending' = [appending EXCEPT ![w] = NoAppend] /\ rowId' = rowId
      BY <1>5 DEF CommitAppend
    <2>5. e \notin ledger[l]
      <3>1. e.seq \notin Numbers(l)
        BY <1>1, <2>3
      <3>. QED
        BY <3>1 DEF Numbers
    <2>6. /\ ledger'[l] = ledger[l] \cup {e} /\ \A k \in Ledgers \ {l} : ledger'[k] = ledger[k]
          /\ ledger' \in [Ledgers -> SUBSET Events]
      BY <2>3
    <2>7. IsFiniteSet(ledger'[l]) /\ LastEventSeq(l)' = LastEventSeq(l) + 1
      BY <2>5, <2>6, FS_AddElement DEF LastEventSeq
    <2>8. Numbers(l)' = 1..LastEventSeq(l)'
      <3>1. Numbers(l)' = Numbers(l) \cup {LastEventSeq(l) + 1}
        BY <2>3, <2>6 DEF Numbers
      <3>. QED
        BY <1>1, <2>7, <3>1
    <2>9. \A k \in Ledgers \ {l} : LastEventSeq(k)' = LastEventSeq(k) /\ Numbers(k)' = Numbers(k)
      BY <2>6 DEF LastEventSeq, Numbers
    <2>10. /\ appending'[w] = NoAppend /\ \A v \in Writers \ {w} : appending'[v] = appending[v]
           /\ appending' \in [Writers -> {NoAppend} \cup OpenAppends]
      BY <2>4
    <2>11. \A v \in Writers : appending'[v].open =>
              /\ appending[v].open /\ appending'[v] = appending[v]
              /\ appending[v].ledger \in Ledgers \ {l}
      <3>1. ~appending'[w].open
        BY <2>10 DEF NoAppend
      <3>2. \A v \in Writers \ {w} : appending[v].open => appending[v].ledger \in Ledgers
        BY <1>2 DEF OpenAppends
      <3>. QED
        BY <2>1, <2>2, <2>10, <3>1, <3>2
    <2>12. \A v \in Writers : appending'[v].open =>
              /\ appending'[v].id \in 1..rowId'
              /\ appending'[v].seq = Cardinality(ledger'[appending'[v].ledger]) + 1
              /\ \A u \in Writers :
                   appending'[u].open /\ appending'[u].ledger = appending'[v].ledger => u = v
      BY <2>4, <2>6, <2>11 DEF LastEventSeq
    <2>13. \A k \in Ledgers : IsFiniteSet(ledger'[k]) /\ Numbers(k)' = 1..LastEventSeq(k)'
      BY <2>6, <2>7, <2>8, <2>9
    <2>14. LedgerIsGapless'
      BY <2>4, <2>6, <2>10, <2>12, <2>13 DEF LastEventSeq
    <2>. QED
      BY <1>1, <2>6, <2>7, <2>9, <2>14
  <1>. QED
    BY <1>1, <1>3, <1>4, <1>5 DEF Appends, LastEventSeq

-----------------------------------------------------------------------------
(* Reading.                                                                *)

\* The next events of a client are the ones that follow what it has.
LEMMA NextEvents ==
  ASSUME LedgerIsGapless, NEW l \in Ledgers, NEW n \in Nat, n <= LastEventSeq(l)
  PROVE  /\ LastEventSeq(l) \in Nat
         /\ \E k \in Nat : /\ n + k <= LastEventSeq(l)
                           /\ ListEvents(l, n) = [i \in 1..k |-> n + i]
  <1>1. LastEventSeq(l) \in Nat
    BY FS_CardinalityType DEF LastEventSeq, LedgerIsGapless
  <1>2. {e.seq : e \in {e \in ledger[l] : e.seq > n}} = n + 1 .. LastEventSeq(l)
    <2>1. Numbers(l) = 1..LastEventSeq(l)
      BY DEF LedgerIsGapless
    <2>2. \A m : m \in {e.seq : e \in {e \in ledger[l] : e.seq > n}} <=> m \in Numbers(l) /\ m > n
      BY DEF Numbers
    <2>. QED
      BY <1>1, <2>1, <2>2
  <1>3. ReadLimit \in Nat
    BY OutboxAssumption
  <1>. DEFINE last == LastEventSeq(l)
              k == IF last - n < ReadLimit THEN last - n ELSE ReadLimit
  <1>4. ListEvents(l, n) = [i \in 1..k |-> n + i]
    <2>1. Ascending(n + 1 .. last, ReadLimit) = [i \in 1..k |-> n + i]
      BY <1>1, <1>3, AscendingOfInterval
    <2>. QED
      BY <1>2, <2>1 DEF ListEvents
  <1>5. k \in Nat /\ n + k <= last
    BY <1>1, <1>3
  <1>. QED
    BY <1>1, <1>4, <1>5

\* A client that gets the next events has the first ones of its run.
LEMMA MoreEvents ==
  ASSUME LedgerIsGapless, ClientsAreGapless, NEW c \in Readers
  PROVE  LET l == reader[c].ledger
             got == reader[c].got \o ListEvents(l, AfterSeq(c)) IN
         /\ got \in Seq(Nat) /\ Len(got) \in Nat
         /\ Len(reader[c].got) <= Len(got) /\ Len(got) <= LastEventSeq(l)
         /\ \A i \in 1..Len(got) : got[i] = i
  <1>. DEFINE l == reader[c].ledger
              got == reader[c].got
              n == Len(got)
  <1>1. /\ l \in Ledgers /\ got \in Seq(Nat) /\ n \in Nat /\ n <= LastEventSeq(l)
        /\ \A i \in 1..n : got[i] = i
    BY LenProperties DEF ClientsAreGapless
  <1>2. AfterSeq(c) = n
    <2>1. got = <<>> => n = 0
      OBVIOUS
    <2>2. got # <<>> => n # 0 /\ Last(got) = got[n]
      BY <1>1, EmptySeq DEF Last
    <2>. QED
      BY <1>1, <2>1, <2>2 DEF AfterSeq
  <1>3. LastEventSeq(l) \in Nat
    BY <1>1, NextEvents
  <1>4. PICK k \in Nat : n + k <= LastEventSeq(l) /\ ListEvents(l, n) = [i \in 1..k |-> n + i]
    BY <1>1, NextEvents
  <1>. DEFINE more == [i \in 1..k |-> n + i]
  <1>5. more \in Seq(Nat) /\ Len(more) = k
    BY <1>1
  <1>6. /\ got \o more \in Seq(Nat) /\ Len(got \o more) = n + k
        /\ \A i \in 1..n + k : (got \o more)[i] = IF i <= n THEN got[i] ELSE more[i - n]
    BY <1>1, <1>5, ConcatProperties
  <1>7. \A i \in 1..n + k : (got \o more)[i] = i
    BY <1>1, <1>6
  <1>. QED
    BY <1>1, <1>2, <1>3, <1>4, <1>6, <1>7

\* Whatever a client does, it has the first events of its run.
LEMMA ReadStep ==
  ASSUME OutboxInv, Reads
  PROVE  ClientsAreGapless'
  <1>. USE DEF OutboxInv
  <1>1. PICK c \in Readers :
          PollEvents(c) \/ OpenStream(c) \/ StreamBatch(c) \/ CheckEnd(c) \/ BreakStream(c)
    BY DEF Reads
  <1>2. /\ UNCHANGED ledger /\ \A l \in Ledgers : LastEventSeq(l) \in Nat
        /\ \A l \in Ledgers : LastEventSeq(l)' = LastEventSeq(l)
    BY <1>1, FS_CardinalityType DEF PollEvents, OpenStream, StreamBatch, CheckEnd, BreakStream,
        LastEventSeq, LedgerIsGapless
  <1>. DEFINE Clients == [ledger : Ledgers, got : Seq(Nat), from : Nat,
                          pc : {"away", "list", "check", "ended"}]
  <1>3. SUFFICES /\ reader' \in [Readers -> Clients]
                 /\ \A d \in Readers \ {c} : reader'[d] = reader[d]
                 /\ reader'[c].ledger = reader[c].ledger
                 /\ Len(reader'[c].got) <= LastEventSeq(reader[c].ledger)
                 /\ \A i \in 1..Len(reader'[c].got) : reader'[c].got[i] = i
                 /\ reader'[c].pc = "ended" =>
                      \E e \in ledger[reader[c].ledger] : e.ends /\ e.seq <= Len(reader'[c].got)
    <2>1. SUFFICES ASSUME NEW d \in Readers
                   PROVE  LET l == reader'[d].ledger IN
                     /\ Len(reader'[d].got) <= Cardinality(ledger'[l])
                     /\ \A i \in 1..Len(reader'[d].got) : reader'[d].got[i] = i
                     /\ reader'[d].pc = "ended" =>
                          \E e \in ledger'[l] : e.ends /\ e.seq <= Len(reader'[d].got)
      BY DEF ClientsAreGapless, LastEventSeq
    <2>2. CASE d = c
      BY <1>2, <2>2 DEF LastEventSeq
    <2>3. CASE d # c
      BY <1>2, <2>3 DEF ClientsAreGapless, LastEventSeq
    <2>. QED
      BY <2>2, <2>3
  <1>4. /\ reader \in [Readers -> Clients] /\ reader[c] \in Clients
        /\ Len(reader[c].got) \in Nat
        /\ Len(reader[c].got) <= LastEventSeq(reader[c].ledger)
        /\ \A i \in 1..Len(reader[c].got) : reader[c].got[i] = i
    BY LenProperties DEF ClientsAreGapless
  <1>5. CASE PollEvents(c) \/ StreamBatch(c)
    <2>. DEFINE got == reader[c].got \o ListEvents(reader[c].ledger, AfterSeq(c))
    <2>1. /\ got \in Seq(Nat) /\ Len(got) \in Nat
          /\ Len(got) <= LastEventSeq(reader[c].ledger)
          /\ \A i \in 1..Len(got) : got[i] = i
      BY MoreEvents
    <2>. HIDE DEF got
    <2>2. PICK p \in {"away", "check"} :
              reader' = [reader EXCEPT ![c] = [reader[c] EXCEPT !.got = got, !.pc = p]]
      <3>1. CASE PollEvents(c)
        <4>1. reader' = [reader EXCEPT ![c].got = got] /\ reader[c].pc = "away"
          BY <3>1 DEF PollEvents, got
        <4>2. [reader[c] EXCEPT !.got = got, !.pc = "away"] = [reader[c] EXCEPT !.got = got]
          BY <1>4, <4>1
        <4>. QED
          BY <4>1, <4>2
      <3>2. CASE StreamBatch(c)
        BY <3>2 DEF StreamBatch, got
      <3>. QED
        BY <1>5, <3>1, <3>2
    <2>. QED
      BY <1>4, <2>1, <2>2
  <1>6. CASE OpenStream(c)
    BY <1>4, <1>6 DEF OpenStream
  <1>7. CASE CheckEnd(c)
    <2>1. PICK p \in {"ended", "list"} :
            /\ reader' = [reader EXCEPT ![c].pc = p]
            /\ p = "ended" => /\ Ended(reader[c].ledger)
                             /\ AfterSeq(c) >= LastEventSeq(reader[c].ledger)
      BY <1>7 DEF CheckEnd
    <2>2. ASSUME p = "ended"
          PROVE  \E e \in ledger[reader[c].ledger] : e.ends /\ e.seq <= Len(reader[c].got)
      <3>1. PICK e \in ledger[reader[c].ledger] : e.ends
        BY <2>1, <2>2 DEF Ended
      <3>2. e.seq \in 1..LastEventSeq(reader[c].ledger)
        BY <1>4, <3>1 DEF LedgerIsGapless, Numbers
      <3>3. AfterSeq(c) <= Len(reader[c].got)
        <4>1. reader[c].got # <<>> => Len(reader[c].got) # 0
                                      /\ Last(reader[c].got) = reader[c].got[Len(reader[c].got)]
          BY <1>4, EmptySeq DEF Last
        <4>. QED
          BY <1>4, <4>1 DEF AfterSeq
      <3>4. AfterSeq(c) \in Nat
        <4>1. reader[c].got # <<>> => Len(reader[c].got) # 0
                                      /\ Last(reader[c].got) = reader[c].got[Len(reader[c].got)]
          BY <1>4, EmptySeq DEF Last
        <4>. QED
          BY <1>4, <4>1 DEF AfterSeq
      <3>. QED
        BY <1>2, <1>4, <2>1, <2>2, <3>1, <3>2, <3>3, <3>4
    <2>. QED
      BY <1>4, <2>1, <2>2
  <1>8. CASE BreakStream(c)
    <2>1. PICK n \in reader[c].from..Len(reader[c].got) :
            reader' = [reader EXCEPT ![c] = [reader[c] EXCEPT !.pc = "away",
                         !.got = SubSeq(reader[c].got, 1, n), !.from = 0]]
      BY <1>8 DEF BreakStream
    <2>2. n \in Nat /\ n <= Len(reader[c].got)
      BY <1>4, <2>1
    <2>3. /\ SubSeq(reader[c].got, 1, n) \in Seq(Nat)
          /\ Len(SubSeq(reader[c].got, 1, n)) = n
          /\ \A i \in 1..n : SubSeq(reader[c].got, 1, n)[i] = i
      BY <1>4, <2>2, SubSeqProperties
    <2>. DEFINE some == SubSeq(reader[c].got, 1, n)
    <2>4. Len(some) <= LastEventSeq(reader[c].ledger)
      <3>1. LastEventSeq(reader[c].ledger) \in Nat
        BY <1>2, <1>4
      <3>. QED
        BY <1>4, <2>2, <2>3, <3>1
    <2>. HIDE DEF some
    <2>5. reader' = [reader EXCEPT ![c] = [reader[c] EXCEPT !.pc = "away", !.got = some, !.from = 0]]
      BY <2>1 DEF some
    <2>6. some \in Seq(Nat) /\ \A i \in 1..Len(some) : some[i] = i
      BY <2>3 DEF some
    <2>. QED
      BY <1>4, <2>4, <2>5, <2>6
  <1>. QED
    BY <1>1, <1>5, <1>6, <1>7, <1>8

-----------------------------------------------------------------------------
(* Draining.                                                               *)

\* A batch is of rows that wait.
LEMMA BatchIsOfRows ==
  ASSUME LedgerIsGapless, RowsAreOnTopic, NEW n \in Nat
  PROVE  /\ Oldest(Drainable, n) \in Seq(Rows)
         /\ \A i \in 1..Len(Oldest(Drainable, n)) : Oldest(Drainable, n)[i] \in outbox
  <1>. DEFINE T == {r.id : r \in Drainable}
              ids == Ascending(T, n)
              batch == [i \in DOMAIN ids |-> CHOOSE r \in Drainable : r.id = ids[i]]
  <1>1. Drainable \subseteq outbox /\ outbox \subseteq Rows /\ rowId \in Nat
    BY DEF Drainable, RowsAreOnTopic, LedgerIsGapless
  <1>2. T \in SUBSET Nat /\ IsFiniteSet(T)
    <2>1. T \in SUBSET (1..rowId)
      BY <1>1 DEF RowsAreOnTopic
    <2>2. IsFiniteSet(1..rowId)
      BY <1>1, FS_Interval
    <2>3. T \in SUBSET Nat
      BY <1>1 DEF Rows
    <2>. HIDE DEF T
    <2>. QED
      BY <2>1, <2>2, <2>3, FS_Subset
  <1>3. PICK k \in Nat : /\ DOMAIN ids = 1..k
                         /\ \A i \in 1..k : ids[i] \in T
    <2>1. (IF Cardinality(T) < n THEN Cardinality(T) ELSE n) \in Nat
      BY <1>2, FS_CardinalityType
    <2>. HIDE DEF T
    <2>. QED
      BY <1>2, <2>1, AscendingLists
  <1>. HIDE DEF ids
  <1>4. \A i \in 1..k : (CHOOSE r \in Drainable : r.id = ids[i]) \in Drainable
    BY <1>3
  <1>5. batch \in [1..k -> Rows] /\ \A i \in 1..k : batch[i] \in outbox
    BY <1>1, <1>3, <1>4
  <1>6. Oldest(Drainable, n) = batch
    BY DEF Oldest, ids
  <1>. HIDE DEF batch
  <1>7. batch \in Seq(Rows) /\ Len(batch) = k
    BY <1>5
  <1>. QED
    BY <1>5, <1>6, <1>7

\* The messages of a run in a batch are its rows there, all of them.
LEMMA MessagesAreTheRows ==
  ASSUME NEW l \in Ledgers, NEW batch \in Seq(Rows)
  PROVE  /\ MessagesOf(l, batch) \in Seq(Rows)
         /\ \A i \in 1..Len(batch) : batch[i].ledger = l =>
              \E k \in 1..Len(MessagesOf(l, batch)) : MessagesOf(l, batch)[k] = batch[i]
  <1>. DEFINE T == {i \in DOMAIN batch : batch[i].ledger = l}
              places == Ascending(T, Len(batch))
              messages == [k \in DOMAIN places |-> batch[places[k]]]
  <1>1. /\ Len(batch) \in Nat /\ DOMAIN batch = 1..Len(batch)
        /\ \A i \in 1..Len(batch) : batch[i] \in Rows
    OBVIOUS
  <1>2. /\ T \in SUBSET (1..Len(batch)) /\ T \in SUBSET Nat
        /\ IsFiniteSet(T) /\ Cardinality(T) \in Nat /\ Cardinality(T) <= Len(batch)
    <2>1. T \in SUBSET (1..Len(batch)) /\ T \in SUBSET Nat
      BY <1>1
    <2>2. IsFiniteSet(1..Len(batch)) /\ Cardinality(1..Len(batch)) = Len(batch)
      <3>1. 1 \in Int /\ Len(batch) \in Int /\ (1 > Len(batch) <=> Len(batch) = 0)
        BY <1>1
      <3>2. /\ IsFiniteSet(1..Len(batch))
            /\ Cardinality(1..Len(batch)) = IF 1 > Len(batch) THEN 0 ELSE Len(batch) - 1 + 1
        BY <3>1, FS_Interval
      <3>. QED
        BY <3>1, <3>2
    <2>. HIDE DEF T
    <2>. QED
      BY <2>1, <2>2, FS_Subset, FS_CardinalityType
  <1>3. PICK n \in Nat : /\ DOMAIN places = 1..n
                         /\ \A k \in 1..n : places[k] \in T
                         /\ \A i \in T : \E k \in 1..n : places[k] = i
    <2>1. (IF Cardinality(T) < Len(batch) THEN Cardinality(T) ELSE Len(batch)) \in Nat
      BY <1>1, <1>2
    <2>. HIDE DEF T
    <2>. QED
      BY <1>1, <1>2, <2>1, AscendingLists
  <1>4. MessagesOf(l, batch) = messages
    BY DEF MessagesOf
  <1>. HIDE DEF places
  <1>5. messages \in [1..n -> Rows] /\ \A k \in 1..n : messages[k] = batch[places[k]]
    BY <1>1, <1>2, <1>3
  <1>. HIDE DEF messages
  <1>6. messages \in Seq(Rows) /\ Len(messages) = n
    BY <1>5
  <1>. QED
    BY <1>1, <1>3, <1>4, <1>5, <1>6

\* Whatever the relays do, what they mark is on the topic.
LEMMA DrainStep ==
  ASSUME OutboxInv, Drains
  PROVE  RowsAreOnTopic'
  <1>. USE DEF OutboxInv
  <1>1. PICK x \in Relays : LockBatch(x) \/ PublishBatch(x) \/ MarkBatch(x) \/ AbandonBatch(x)
    BY DEF Drains
  <1>. DEFINE Works == [pc : {"idle", "locked", "sent"}, batch : Seq(Rows)]
  <1>2. /\ outbox \subseteq Rows /\ partition \in [Ledgers -> Seq(Rows)]
        /\ relay \in [Relays -> Works] /\ rowId' = rowId
        /\ \A r \in Rows : r.ledger \in Ledgers
    BY <1>1 DEF RowsAreOnTopic, Rows, LockBatch, PublishBatch, MarkBatch, AbandonBatch
  <1>3. CASE LockBatch(x)
    <2>. DEFINE batch == Oldest(Drainable, RelayBatch)
    <2>1. batch \in Seq(Rows) /\ \A i \in 1..Len(batch) : batch[i] \in outbox
      BY OutboxAssumption, BatchIsOfRows
    <2>2. /\ relay' = [relay EXCEPT ![x] = [pc |-> "locked", batch |-> batch]]
          /\ UNCHANGED <<outbox, partition>>
      BY <1>3 DEF LockBatch
    <2>. HIDE DEF batch
    <2>3. /\ relay'[x].pc = "locked" /\ relay'[x].batch = batch
          /\ \A y \in Relays \ {x} : relay'[y] = relay[y]
          /\ relay' \in [Relays -> Works]
      BY <1>2, <2>1, <2>2
    <2>. QED
      BY <1>2, <2>1, <2>2, <2>3 DEF RowsAreOnTopic
  <1>4. CASE AbandonBatch(x)
    <2>1. relay' = [relay EXCEPT ![x] = IdleRelay] /\ UNCHANGED <<outbox, partition>>
      BY <1>4 DEF AbandonBatch
    <2>2. IdleRelay \in Works /\ Len(IdleRelay.batch) = 0
      BY EmptySeq DEF IdleRelay
    <2>3. /\ relay'[x] = IdleRelay /\ \A y \in Relays \ {x} : relay'[y] = relay[y]
          /\ relay' \in [Relays -> Works]
      BY <1>2, <2>1, <2>2
    <2>. QED
      BY <1>2, <2>1, <2>2, <2>3 DEF RowsAreOnTopic
  <1>5. CASE PublishBatch(x)
    <2>. DEFINE batch == relay[x].batch
    <2>1. /\ partition' = [l \in Ledgers |-> partition[l] \o MessagesOf(l, batch)]
          /\ relay' = [relay EXCEPT ![x].pc = "sent"] /\ UNCHANGED outbox
      BY <1>5 DEF PublishBatch
    <2>2. ASSUME NEW l \in Ledgers
          PROVE  /\ partition'[l] \in Seq(Rows)
                 /\ Len(partition'[l]) = Len(partition[l]) + Len(MessagesOf(l, batch))
                 /\ Len(partition[l]) \in Nat /\ Len(MessagesOf(l, batch)) \in Nat
                 /\ \A j \in 1..Len(partition[l]) : partition'[l][j] = partition[l][j]
                 /\ \A k \in 1..Len(MessagesOf(l, batch)) :
                      partition'[l][Len(partition[l]) + k] = MessagesOf(l, batch)[k]
      <3>1. partition[l] \in Seq(Rows) /\ batch \in Seq(Rows)
        BY <1>2
      <3>2. MessagesOf(l, batch) \in Seq(Rows)
        BY <3>1, MessagesAreTheRows
      <3>3. partition'[l] = partition[l] \o MessagesOf(l, batch)
        BY <2>1
      <3>. HIDE DEF batch
      <3>. QED
        BY <3>1, <3>2, <3>3, ConcatProperties, LenProperties
    <2>3. ASSUME NEW r \in Rows, OnTopic(r, partition)
          PROVE  OnTopic(r, partition')
      <3>1. r.ledger \in Ledgers
        BY <1>2
      <3>2. PICK j \in 1..Len(partition[r.ledger]) : partition[r.ledger][j].id = r.id
        BY <2>3 DEF OnTopic
      <3>3. /\ j \in 1..Len(partition'[r.ledger])
            /\ partition'[r.ledger][j] = partition[r.ledger][j]
        <4>. HIDE DEF batch
        <4>1. PICK l \in Ledgers : l = r.ledger
          BY <3>1
        <4>. QED
          BY <2>2, <3>2, <4>1
      <3>. QED
        BY <3>2, <3>3 DEF OnTopic
    <2>4. ASSUME NEW i \in 1..Len(batch)
          PROVE  OnTopic(batch[i], partition')
      <3>1. batch \in Seq(Rows) /\ batch[i] \in Rows
        BY <1>2
      <3>2. PICK l \in Ledgers : l = batch[i].ledger
        BY <1>2, <3>1
      <3>3. PICK k \in 1..Len(MessagesOf(l, batch)) : MessagesOf(l, batch)[k] = batch[i]
        BY <3>1, <3>2, MessagesAreTheRows
      <3>. DEFINE j == Len(partition[l]) + k
      <3>4. j \in 1..Len(partition'[l]) /\ partition'[l][j] = batch[i]
        <4>. HIDE DEF batch
        <4>. QED
          BY <2>2, <3>3
      <3>. HIDE DEF batch, j
      <3>5. partition'[l][j].id = batch[i].id
        BY <3>4
      <3>. QED
        BY <3>2, <3>4, <3>5 DEF OnTopic
    <2>5. /\ relay'[x].pc = "sent" /\ relay'[x].batch = batch
          /\ \A y \in Relays \ {x} : relay'[y] = relay[y]
          /\ relay' \in [Relays -> Works]
      BY <1>2, <2>1
    <2>6. partition' \in [Ledgers -> Seq(Rows)]
      BY <2>1, <2>2
    <2>. QED
      <3>1. \A r \in outbox : r.published => OnTopic(r, partition')
        BY <1>2, <2>3 DEF RowsAreOnTopic
      <3>2. ASSUME NEW y \in Relays, NEW i \in 1..Len(relay'[y].batch)
            PROVE  /\ relay'[y].batch[i] \in Rows /\ relay'[y].batch[i].id \in 1..rowId
                   /\ relay'[y].pc = "sent" => OnTopic(relay'[y].batch[i], partition')
        <4>1. relay'[y].batch = relay[y].batch /\ relay[y].batch \in Seq(Rows)
          BY <1>2, <2>5
        <4>2. relay[y].batch[i] \in Rows /\ relay[y].batch[i].id \in 1..rowId
          BY <4>1 DEF RowsAreOnTopic
        <4>3. CASE y = x
          BY <2>4, <4>1, <4>2, <4>3
        <4>4. CASE y # x
          <5>1. relay[y].pc = "sent" => OnTopic(relay[y].batch[i], partition)
            BY <4>1 DEF RowsAreOnTopic
          <5>. QED
            BY <2>3, <2>5, <4>1, <4>2, <4>4, <5>1
        <4>. QED
          BY <4>3, <4>4
      <3>. QED
        BY <1>2, <2>1, <2>5, <2>6, <3>1, <3>2 DEF RowsAreOnTopic
  <1>6. CASE MarkBatch(x)
    <2>1. /\ outbox' = (outbox \ Held(x)) \cup {[r EXCEPT !.published = TRUE] : r \in Held(x)}
          /\ relay' = [relay EXCEPT ![x] = IdleRelay] /\ UNCHANGED partition
          /\ relay[x].pc = "sent"
      BY <1>6 DEF MarkBatch
    <2>2. \A r \in Held(x) : r \in Rows /\ r.id \in 1..rowId /\ OnTopic(r, partition)
      <3>1. \A r \in Held(x) : \E i \in 1..Len(relay[x].batch) : r = relay[x].batch[i]
        <4>1. DOMAIN relay[x].batch = 1..Len(relay[x].batch)
          BY <1>2
        <4>. QED
          BY <4>1 DEF Held, ToSet
      <3>2. ASSUME NEW i \in 1..Len(relay[x].batch)
            PROVE  /\ relay[x].batch[i] \in Rows /\ relay[x].batch[i].id \in 1..rowId
                   /\ OnTopic(relay[x].batch[i], partition)
        BY <1>2, <2>1 DEF RowsAreOnTopic
      <3>. QED
        BY <3>1, <3>2
    <2>3. \A r \in Rows : /\ [r EXCEPT !.published = TRUE] \in Rows
                          /\ [r EXCEPT !.published = TRUE].id = r.id
                          /\ [r EXCEPT !.published = TRUE].ledger = r.ledger
      BY DEF Rows
    <2>4. /\ outbox' \subseteq Rows /\ \A r \in outbox' : r.id \in 1..rowId
          /\ \A r \in outbox' : r.published => OnTopic(r, partition)
      <3>1. ASSUME NEW r \in Held(x)
            PROVE  LET m == [r EXCEPT !.published = TRUE] IN
                   m \in Rows /\ m.id \in 1..rowId /\ OnTopic(m, partition)
        BY <2>2, <2>3 DEF OnTopic
      <3>2. ASSUME NEW r \in outbox
            PROVE  r \in Rows /\ r.id \in 1..rowId /\ (r.published => OnTopic(r, partition))
        BY <1>2 DEF RowsAreOnTopic
      <3>3. ASSUME NEW r \in outbox'
            PROVE  r \in outbox \/ \E q \in Held(x) : r = [q EXCEPT !.published = TRUE]
        BY <2>1
      <3>4. outbox' \subseteq Rows
        BY <3>1, <3>2, <3>3
      <3>5. \A r \in outbox' : r.id \in 1..rowId
        BY <3>1, <3>2, <3>3
      <3>6. ASSUME NEW r \in outbox', r.published
            PROVE  OnTopic(r, partition)
        <4>1. CASE r \in outbox
          BY <3>2, <3>6, <4>1
        <4>2. CASE \E q \in Held(x) : r = [q EXCEPT !.published = TRUE]
          BY <3>1, <4>2
        <4>. QED
          BY <3>3, <4>1, <4>2
      <3>. QED
        BY <3>4, <3>5, <3>6
    <2>5. IdleRelay \in Works /\ Len(IdleRelay.batch) = 0
      BY EmptySeq DEF IdleRelay
    <2>6. /\ relay'[x] = IdleRelay /\ \A y \in Relays \ {x} : relay'[y] = relay[y]
          /\ relay' \in [Relays -> Works]
      BY <1>2, <2>1, <2>5
    <2>. QED
      <3>1. \A y \in Relays : \A i \in 1..Len(relay'[y].batch) :
              /\ relay'[y].batch[i].id \in 1..rowId
              /\ relay'[y].pc = "sent" => OnTopic(relay'[y].batch[i], partition)
        BY <2>5, <2>6 DEF RowsAreOnTopic
      <3>. QED
        BY <1>2, <2>1, <2>4, <2>6, <3>1 DEF RowsAreOnTopic
  <1>. QED
    BY <1>1, <1>3, <1>4, <1>5, <1>6

-----------------------------------------------------------------------------
(* The invariant.                                                          *)

\* What the clients have stays the beginning of a ledger that grows, and a new
\* row is unmarked.
LEMMA AppendKeepsOthers ==
  ASSUME OutboxInv, Appends
  PROVE  ClientsAreGapless' /\ RowsAreOnTopic'
  <1>. USE DEF OutboxInv
  <1>1. /\ \A l \in Ledgers : ledger[l] \subseteq ledger'[l]
                              /\ LastEventSeq(l) <= LastEventSeq(l)'
        /\ LedgerIsGapless'
    BY AppendStep
  <1>2. UNCHANGED <<relay, partition, reader>> /\ rowId' \in {rowId, rowId + 1}
    BY DEF Appends, LockAndInsert, CommitAppend, RollBackAppend
  <1>3. \A l \in Ledgers : LastEventSeq(l) \in Nat /\ LastEventSeq(l)' \in Nat
    BY <1>1, FS_CardinalityType DEF LedgerIsGapless, LastEventSeq
  <1>4. ClientsAreGapless'
    <2>1. /\ reader' = reader
          /\ reader \in [Readers -> [ledger : Ledgers, got : Seq(Nat), from : Nat,
                                     pc : {"away", "list", "check", "ended"}]]
      BY <1>2 DEF ClientsAreGapless
    <2>2. ASSUME NEW c \in Readers
          PROVE  /\ Len(reader[c].got) <= Cardinality(ledger'[reader[c].ledger])
                 /\ \A i \in 1..Len(reader[c].got) : reader[c].got[i] = i
                 /\ reader[c].pc = "ended" =>
                      \E e \in ledger'[reader[c].ledger] : e.ends /\ e.seq <= Len(reader[c].got)
      <3>1. reader[c].ledger \in Ledgers /\ Len(reader[c].got) \in Nat
        BY <2>1
      <3>2. /\ Len(reader[c].got) <= Cardinality(ledger[reader[c].ledger])
            /\ \A i \in 1..Len(reader[c].got) : reader[c].got[i] = i
            /\ reader[c].pc = "ended" =>
                 \E e \in ledger[reader[c].ledger] : e.ends /\ e.seq <= Len(reader[c].got)
        BY DEF ClientsAreGapless, LastEventSeq
      <3>3. Cardinality(ledger[reader[c].ledger]) <= Cardinality(ledger'[reader[c].ledger])
        BY <1>1, <3>1 DEF LastEventSeq
      <3>4. Len(reader[c].got) <= Cardinality(ledger'[reader[c].ledger])
        BY <1>3, <3>1, <3>2, <3>3 DEF LastEventSeq
      <3>5. ledger[reader[c].ledger] \subseteq ledger'[reader[c].ledger]
        BY <1>1, <3>1
      <3>. QED
        BY <3>2, <3>4, <3>5
    <2>. QED
      BY <2>1, <2>2 DEF ClientsAreGapless, LastEventSeq
  <1>5. ASSUME NEW r \in outbox'
        PROVE  r \in Rows /\ r.id \in 1..rowId' /\ (r.published => OnTopic(r, partition))
    <2>0. rowId \in Nat /\ 1..rowId \subseteq 1..rowId'
      BY <1>2 DEF LedgerIsGapless
    <2>1. CASE r \in outbox
      BY <2>0, <2>1 DEF RowsAreOnTopic
    <2>2. CASE r \notin outbox
      <3>1. PICK w \in Writers : CommitAppend(w)
        BY <2>2 DEF Appends, LockAndInsert, RollBackAppend
      <3>2. r = [id |-> appending[w].id, ledger |-> appending[w].ledger,
                 seq |-> appending[w].seq, published |-> FALSE]
        BY <2>2, <3>1 DEF CommitAppend
      <3>3. appending[w] \in OpenAppends /\ appending[w].id \in 1..rowId
        BY <3>1 DEF CommitAppend, LedgerIsGapless, NoAppend
      <3>4. r \in Rows
        BY <3>2, <3>3 DEF Rows, OpenAppends
      <3>5. r.id \in 1..rowId' /\ ~r.published
        BY <2>0, <3>2, <3>3
      <3>. QED
        BY <3>4, <3>5
    <2>. QED
      BY <2>1, <2>2
  <1>6. RowsAreOnTopic'
    <2>1. rowId \in Nat /\ 1..rowId \subseteq 1..rowId'
      BY <1>2 DEF LedgerIsGapless
    <2>2. outbox' \subseteq Rows /\ \A r \in outbox' : r.id \in 1..rowId'
      BY <1>5
    <2>3. ASSUME NEW r \in outbox', r.published
          PROVE  OnTopic(r, partition)
      BY <1>5, <2>3
    <2>. QED
      BY <1>2, <2>1, <2>2, <2>3 DEF RowsAreOnTopic
  <1>. QED
    BY <1>4, <1>6

\* The relays leave the ledger and the clients alone, the clients the ledger
\* and the rows.
LEMMA OthersAreKept ==
  ASSUME OutboxInv
  PROVE  /\ Drains => LedgerIsGapless' /\ ClientsAreGapless'
         /\ Reads => LedgerIsGapless' /\ RowsAreOnTopic'
         /\ UNCHANGED outboxVars => OutboxInv'
  <1>1. Drains => UNCHANGED <<ledger, appending, rowId, reader>>
    BY DEF Drains, LockBatch, PublishBatch, MarkBatch, AbandonBatch
  <1>2. Reads => UNCHANGED <<ledger, appending, rowId, outbox, relay, partition>>
    BY DEF Reads, PollEvents, OpenStream, StreamBatch, CheckEnd, BreakStream
  <1>3. ASSUME UNCHANGED <<ledger, appending, rowId>>
        PROVE  LedgerIsGapless'
    BY <1>3 DEF OutboxInv, LedgerIsGapless, Numbers, LastEventSeq
  <1>4. ASSUME UNCHANGED <<ledger, reader>>
        PROVE  ClientsAreGapless'
    BY <1>4 DEF OutboxInv, ClientsAreGapless, LastEventSeq
  <1>5. ASSUME UNCHANGED <<rowId, outbox, relay, partition>>
        PROVE  RowsAreOnTopic'
    BY <1>5 DEF OutboxInv, RowsAreOnTopic
  <1>. QED
    BY <1>1, <1>2, <1>3, <1>4, <1>5 DEF OutboxInv, outboxVars

\* At the start nothing is appended, relayed or read.
LEMMA StartIsGapless == OutboxInit => OutboxInv
  <1>. SUFFICES ASSUME OutboxInit PROVE OutboxInv
    OBVIOUS
  <1>. USE DEF OutboxInit
  <1>1. /\ \A l \in Ledgers : ledger[l] = {} /\ LastEventSeq(l) = 0 /\ Numbers(l) = {}
        /\ \A l \in Ledgers : IsFiniteSet(ledger[l])
    BY FS_EmptySet DEF LastEventSeq, Numbers
  <1>2. LedgerIsGapless
    <2>1. \A l \in Ledgers : Numbers(l) = 1..LastEventSeq(l)
      <3>1. 1..0 = {}
        OBVIOUS
      <3>. QED
        BY <1>1, <3>1, Zenon
    <2>2. \A w \in Writers : appending[w] = NoAppend /\ ~appending[w].open
      BY DEF NoAppend
    <2>. QED
      BY <1>1, <2>1, <2>2 DEF LedgerIsGapless
  <1>3. ClientsAreGapless
    <2>. DEFINE away(l) == [ledger |-> l, got |-> <<>>, from |-> 0, pc |-> "away"]
                Clients == [ledger : Ledgers, got : Seq(Nat), from : Nat,
                            pc : {"away", "list", "check", "ended"}]
    <2>1. \A l \in Ledgers : /\ away(l) \in Clients /\ away(l).ledger = l
                             /\ Len(away(l).got) = 0 /\ away(l).pc # "ended"
      BY EmptySeq
    <2>2. reader \in [Readers -> {away(l) : l \in Ledgers}]
      OBVIOUS
    <2>. HIDE DEF away
    <2>3. reader \in [Readers -> Clients]
      BY <2>1, <2>2
    <2>4. \A c \in Readers : /\ Len(reader[c].got) = 0 /\ reader[c].pc # "ended"
                             /\ reader[c].ledger \in Ledgers
      BY <2>1, <2>2
    <2>. QED
      BY <1>1, <2>3, <2>4 DEF ClientsAreGapless
  <1>4. RowsAreOnTopic
    BY EmptySeq DEF RowsAreOnTopic, IdleRelay
  <1>. QED
    BY <1>2, <1>3, <1>4 DEF OutboxInv

\* The invariant of the appends, the relays and the clients: whatever the
\* transactions of transition.ts, the relays of outbox.ts and the event routes
\* of runs.ts do, ledgers are gapless, clients have a beginning of theirs, and
\* what a relay marks is on the topic.
THEOREM OutboxInductive == OutboxSpec => []OutboxInv
  <1>1. ASSUME OutboxInv, [OutboxNext]_outboxVars
        PROVE  OutboxInv'
    <2>1. CASE Appends
      BY <1>1, <2>1, AppendStep, AppendKeepsOthers DEF OutboxInv
    <2>2. CASE Drains
      BY <1>1, <2>2, DrainStep, OthersAreKept DEF OutboxInv
    <2>3. CASE Reads
      BY <1>1, <2>3, ReadStep, OthersAreKept DEF OutboxInv
    <2>4. CASE UNCHANGED outboxVars
      BY <1>1, <2>4, OthersAreKept
    <2>. QED
      BY <1>1, <2>1, <2>2, <2>3, <2>4 DEF OutboxNext
  <1>. QED
    BY <1>1, StartIsGapless, PTL DEF OutboxSpec

\* However polls, streams and reconnections of runs.ts follow each other and
\* whoever appends meanwhile, a client gets the events of its run from the
\* first, in order, each once, and its stream ends behind the final one.
THEOREM StreamsAreWhole == OutboxSpec => []ReadersSeeWholeStreams
  <1>1. ASSUME OutboxInv PROVE ReadersSeeWholeStreams
    <2>. SUFFICES ASSUME NEW c \in Readers
                  PROVE  /\ Gapless(c)
                         /\ reader[c].pc = "ended" =>
                              \E e \in ledger[reader[c].ledger] :
                                 e.ends /\ e.seq \in ToSet(reader[c].got)
      BY DEF ReadersSeeWholeStreams
    <2>. DEFINE l == reader[c].ledger
                got == reader[c].got
    <2>1. l \in Ledgers /\ got \in Seq(Nat)
      BY <1>1 DEF OutboxInv, ClientsAreGapless
    <2>2. /\ Len(got) <= LastEventSeq(l) /\ \A i \in 1..Len(got) : got[i] = i
          /\ reader[c].pc = "ended" => \E e \in ledger[l] : e.ends /\ e.seq <= Len(got)
      BY <1>1 DEF OutboxInv, ClientsAreGapless
    <2>3. /\ Numbers(l) = 1..LastEventSeq(l) /\ LastEventSeq(l) \in Nat
          /\ Numbers(l) = {e.seq : e \in ledger[l]}
      BY <1>1, <2>1, FS_CardinalityType DEF OutboxInv, LedgerIsGapless, LastEventSeq, Numbers
    <2>. HIDE DEF l, got
    <2>4. Len(got) \in Nat /\ DOMAIN got = 1..Len(got)
      BY <2>1
    <2>5. ToSet(got) = 1..Len(got)
      BY <2>2, <2>4 DEF ToSet
    <2>6. got = [i \in 1..Len(got) |-> i]
      BY <2>1, <2>2, <2>4
    <2>7. 1..Len(got) \subseteq {e.seq : e \in ledger[l]}
      BY <2>2, <2>3, <2>4
    <2>8. \A e \in ledger[l] : e.seq \in Nat \ {0}
      BY <2>3
    <2>9. reader[c].pc = "ended" => \E e \in ledger[l] : e.ends /\ e.seq \in ToSet(got)
      BY <2>2, <2>4, <2>5, <2>8
    <2>. QED
      BY <2>5, <2>6, <2>7, <2>9 DEF l, got, Gapless
  <1>. QED
    BY <1>1, OutboxInductive, PTL

\* At least once: a row of the outbox is marked only when the topic has it,
\* whichever relay crashed at whichever point of drainOutbox (outbox.ts).
THEOREM MarkedIsPublished == OutboxSpec => []MarkedRowsArePublished
  <1>1. ASSUME OutboxInv PROVE MarkedRowsArePublished
    <2>. SUFFICES ASSUME NEW r \in outbox, r.published
                  PROVE  r.id \in {q.id : q \in ToSet(partition[r.ledger])}
      BY DEF MarkedRowsArePublished
    <2>1. OnTopic(r, partition) /\ r \in Rows /\ partition \in [Ledgers -> Seq(Rows)]
      BY <1>1 DEF OutboxInv, RowsAreOnTopic
    <2>2. partition[r.ledger] \in Seq(Rows)
      BY <2>1 DEF Rows
    <2>3. PICK j \in 1..Len(partition[r.ledger]) : partition[r.ledger][j].id = r.id
      BY <2>1 DEF OnTopic
    <2>4. partition[r.ledger][j] \in ToSet(partition[r.ledger])
      BY <2>2, <2>3 DEF ToSet
    <2>. QED
      BY <2>3, <2>4
  <1>. QED
    BY <1>1, OutboxInductive, PTL

-----------------------------------------------------------------------------
(* FencePool.                                                              *)

UserStates == {"out", "queued", "admitted", "connected", "fenced", "needs", "inner", "working"}

\* The states of an action that has a permit.
Admitted == {"admitted", "connected", "fenced", "needs", "inner", "working"}

\* The types, but for the counts.
PoolTypes ==
  /\ user \in [PoolUsers -> UserStates]
  /\ session \in [PoolUsers -> {"none", "locked", "lost"}]
  /\ permits \in Nat
  /\ waiters \in Seq(Actions)

\* Each state is of the users whose code has it, and a lock is of those inside.
StatesFitUsers ==
  \A u \in PoolUsers :
    /\ user[u] \in {"queued", "admitted", "needs", "inner"} => u \in Actions
    /\ user[u] \in {"connected", "fenced"} => u \in Actions \cup ModelCalls
    /\ user[u] = "working" => u \in Transactions
    /\ session[u] # "none" <=> user[u] \in {"fenced", "needs", "inner"}

\* The queue holds whoever waits, once, and only while no permit is free.
QueueIsExact ==
  /\ \A i, j \in DOMAIN waiters : waiters[i] = waiters[j] => i = j
  /\ \A u \in PoolUsers : user[u] = "queued" <=> \E i \in DOMAIN waiters : waiters[i] = u
  /\ waiters # <<>> => permits = PermitLimit

-----------------------------------------------------------------------------
(* The counts.                                                             *)

\* The connections a user in state p has, and the permits.
Connections(p) ==
  IF p \in Held1 \cup {"working"} THEN 1 ELSE IF p = "inner" THEN 2 ELSE 0
Permits(u, p) == IF u \in Actions /\ p \in Admitted THEN 1 ELSE 0

\* The counts of any assignment of states to users.
InUseOf(f) ==
  CountIn(f, PoolUsers, Held1) + CountIn(f, PoolUsers, {"working"})
  + 2 * CountIn(f, PoolUsers, {"inner"})
PermitsOf(f) == CountIn(f, Actions, Admitted)

\* The connections and the permits that are out are counted, and within bounds.
CountsAreRight ==
  /\ InUseOf(user) <= PoolMax
  /\ permits = PermitsOf(user)
  /\ permits <= PermitLimit

\* The inductive invariant.
PoolInv == PoolTypes /\ StatesFitUsers /\ QueueIsExact /\ CountsAreRight
-----------------------------------------------------------------------------
\* InUse is the count of the users' states.
LEMMA InUseIsOfUser == InUse = InUseOf(user) /\ InUse' = InUseOf(user')
  <1>1. /\ \A f : {u \in PoolUsers : f[u] = "working"} = {u \in PoolUsers : f[u] \in {"working"}}
        /\ \A f : {u \in PoolUsers : f[u] = "inner"} = {u \in PoolUsers : f[u] \in {"inner"}}
    OBVIOUS
  <1>. QED
    BY <1>1 DEF InUse, InUseOf, CountIn

\* One user that moves changes the counts by what its states are worth.
LEMMA CountsAfterMove ==
  ASSUME NEW f, NEW g, NEW u \in PoolUsers,
         \A x \in PoolUsers \ {u} : g[x] = f[x],
         f[u] \in UserStates, g[u] \in UserStates
  PROVE  /\ InUseOf(f) \in Nat /\ PermitsOf(f) \in Nat
         /\ InUseOf(g) \in Nat /\ PermitsOf(g) \in Nat
         /\ InUseOf(g) + Connections(f[u]) = InUseOf(f) + Connections(g[u])
         /\ PermitsOf(g) + Permits(u, f[u]) = PermitsOf(f) + Permits(u, g[u])
  <1>1. /\ IsFiniteSet(PoolUsers) /\ IsFiniteSet(Actions)
        /\ \A x \in Actions \ {u} : g[x] = f[x]
    BY FencePoolAssumption, FS_Subset DEF PoolUsers
  <1>2. ASSUME NEW S
        PROVE  /\ CountIn(f, Actions, S) \in Nat /\ CountIn(g, Actions, S) \in Nat
               /\ CountIn(g, Actions, S) + (IF u \in Actions /\ f[u] \in S THEN 1 ELSE 0)
                    = CountIn(f, Actions, S) + (IF u \in Actions /\ g[u] \in S THEN 1 ELSE 0)
    BY <1>1, CountAfterMove
  <1>3. ASSUME NEW S
        PROVE  /\ CountIn(f, PoolUsers, S) \in Nat /\ CountIn(g, PoolUsers, S) \in Nat
               /\ CountIn(g, PoolUsers, S) + (IF u \in PoolUsers /\ f[u] \in S THEN 1 ELSE 0)
                    = CountIn(f, PoolUsers, S) + (IF u \in PoolUsers /\ g[u] \in S THEN 1 ELSE 0)
    BY <1>1, CountAfterMove
  <1>4. Held1 \cap {"working", "inner"} = {}
    BY DEF Held1
  <1>. QED
    BY <1>2, <1>3, <1>4 DEF InUseOf, Connections, PermitsOf, Permits
-----------------------------------------------------------------------------
(* Steps.                                                                  *)

\* What the bounds and the kinds of users come to.
LEMMA PoolBounds ==
  /\ PoolMax \in Nat /\ PoolMax >= 2 /\ PermitLimit = PoolMax - 1
  /\ PoolUsers = Actions \cup ModelCalls \cup Transactions
  /\ Actions \cap ModelCalls = {} /\ Transactions \cap (Actions \cup ModelCalls) = {}
  BY FencePoolAssumption DEF PermitLimit, PoolUsers

\* A step that takes one user past its permit to another such state, the queue
\* and the permits left alone.
LEMMA InsideStep ==
  ASSUME PoolInv, NEW u \in PoolUsers,
         NEW p \in {"connected", "fenced", "needs", "inner", "working"},
         user' = [user EXCEPT ![u] = p], UNCHANGED <<permits, waiters>>,
         user[u] # "queued", u \in Actions => user[u] # "out",
         session' \in [PoolUsers -> {"none", "locked", "lost"}],
         \A v \in PoolUsers \ {u} : session'[v] = session[v],
         session'[u] # "none" <=> p \in {"fenced", "needs", "inner"},
         p \in {"needs", "inner"} => u \in Actions,
         p \in {"connected", "fenced"} => u \in Actions \cup ModelCalls,
         p = "working" => u \in Transactions,
         InUseOf(user) + Connections(p) - Connections(user[u]) <= PoolMax
  PROVE  PoolInv'
  <1>. USE PoolBounds DEF PoolInv, PoolTypes, UserStates
  <1>1. /\ user'[u] = p /\ \A v \in PoolUsers \ {u} : user'[v] = user[v]
        /\ user[u] \in UserStates /\ user'[u] \in UserStates
    OBVIOUS
  <1>2. PoolTypes'
    OBVIOUS
  <1>3. StatesFitUsers'
    BY <1>1 DEF StatesFitUsers
  <1>4. QueueIsExact'
    BY <1>1 DEF QueueIsExact, PermitLimit
  <1>5. Permits(u, user[u]) = Permits(u, p)
    BY DEF Permits, Admitted
  <1>6. /\ InUseOf(user) \in Nat /\ InUseOf(user') \in Nat
        /\ PermitsOf(user) \in Nat /\ PermitsOf(user') \in Nat
        /\ InUseOf(user') + Connections(user[u]) = InUseOf(user) + Connections(p)
        /\ PermitsOf(user') + Permits(u, user[u]) = PermitsOf(user) + Permits(u, p)
    <2>1. ASSUME NEW f, \A x \in PoolUsers \ {u} : f[x] = user[x], f[u] \in UserStates
          PROVE  /\ InUseOf(user) \in Nat /\ InUseOf(f) \in Nat
                 /\ PermitsOf(user) \in Nat /\ PermitsOf(f) \in Nat
                 /\ InUseOf(f) + Connections(user[u]) = InUseOf(user) + Connections(f[u])
                 /\ PermitsOf(f) + Permits(u, user[u]) = PermitsOf(user) + Permits(u, f[u])
      <3>. HIDE DEF UserStates, PoolInv
      <3>. QED
        BY <1>1, <2>1, CountsAfterMove
    <2>. QED
      BY <1>1, <2>1
  <1>7. CountsAreRight'
    BY <1>5, <1>6 DEF CountsAreRight, PermitLimit, Permits, Connections
  <1>. QED
    BY <1>2, <1>3, <1>4, <1>7

\* A user that leaves gives its permit to the first waiter, if there is one.
LEMMA LeaveStep ==
  ASSUME PoolInv, NEW u \in PoolUsers,
         user[u] \notin {"out", "queued"}, LeavePool(u),
         session' = [session EXCEPT ![u] = "none"]
  PROVE  PoolInv'
  <1>. USE PoolBounds DEF PoolInv, PoolTypes, UserStates
  <1>1. ASSUME NEW f, NEW v \in PoolUsers,
               \A x \in PoolUsers \ {v} : f[x] = user[x], f[v] \in UserStates
        PROVE  /\ InUseOf(user) \in Nat /\ InUseOf(f) \in Nat
               /\ PermitsOf(user) \in Nat /\ PermitsOf(f) \in Nat
               /\ InUseOf(f) + Connections(user[v]) = InUseOf(user) + Connections(f[v])
               /\ PermitsOf(f) + Permits(v, user[v]) = PermitsOf(user) + Permits(v, f[v])
    <2>1. user[v] \in UserStates
      OBVIOUS
    <2>. HIDE DEF UserStates, PoolInv
    <2>. QED
      BY <1>1, <2>1, CountsAfterMove
  <1>2. /\ session'[u] = "none" /\ \A v \in PoolUsers \ {u} : session'[v] = session[v]
        /\ session' \in [PoolUsers -> {"none", "locked", "lost"}]
    OBVIOUS
  <1>3. CASE u \in Actions /\ waiters # <<>>
    <2>. DEFINE h == Head(waiters)
                f == [user EXCEPT ![u] = "out"]
    <2>1. /\ h \in Actions /\ Tail(waiters) \in Seq(Actions)
          /\ Len(Tail(waiters)) = Len(waiters) - 1 /\ Len(waiters) \in Nat \ {0}
          /\ \A i \in 1..Len(Tail(waiters)) : Tail(waiters)[i] = waiters[i + 1]
          /\ h = waiters[1]
          /\ DOMAIN waiters = 1..Len(waiters)
          /\ DOMAIN Tail(waiters) = 1..Len(Tail(waiters))
      BY <1>3, HeadTailProperties, EmptySeq, LenProperties
    <2>2. user[h] = "queued" /\ h # u /\ h \in PoolUsers
      BY <2>1 DEF QueueIsExact
    <2>3. /\ user' = [user EXCEPT ![u] = "out", ![h] = "admitted"]
          /\ waiters' = Tail(waiters) /\ permits' = permits
      BY <1>3 DEF LeavePool, ReleasePermit
    <2>. HIDE DEF h
    <2>4. /\ user' \in [PoolUsers -> UserStates]
          /\ user'[u] = "out" /\ user'[h] = "admitted"
          /\ \A v \in PoolUsers \ {u, h} : user'[v] = user[v]
      BY <2>2, <2>3
    <2>5. PoolTypes' /\ StatesFitUsers'
      BY <1>2, <2>1, <2>2, <2>3, <2>4 DEF StatesFitUsers
    <2>6. QueueIsExact'
      <3>1. \A i, j \in DOMAIN waiters' : waiters'[i] = waiters'[j] => i = j
        BY <2>1, <2>3 DEF QueueIsExact
      <3>2. \A v \in PoolUsers :
               (\E i \in DOMAIN waiters' : waiters'[i] = v)
                 <=> v # h /\ \E i \in DOMAIN waiters : waiters[i] = v
        <4>1. ASSUME NEW i \in DOMAIN waiters'
              PROVE  i + 1 \in DOMAIN waiters /\ waiters'[i] = waiters[i + 1] /\ waiters'[i] # h
          BY <2>1, <2>3 DEF QueueIsExact
        <4>2. ASSUME NEW i \in DOMAIN waiters, waiters[i] # h
              PROVE  i - 1 \in DOMAIN waiters' /\ waiters'[i - 1] = waiters[i]
          BY <2>1, <2>3, <4>2
        <4>. QED
          BY <4>1, <4>2
      <3>3. permits' = PermitLimit
        BY <1>3, <2>3 DEF QueueIsExact
      <3>. QED
        BY <2>2, <2>4, <3>1, <3>2, <3>3, <1>3 DEF QueueIsExact, PermitLimit
    <2>7. /\ f[u] = "out" /\ f[h] = "queued" /\ \A v \in PoolUsers \ {u} : f[v] = user[v]
          /\ \A v \in PoolUsers \ {h} : user'[v] = f[v]
      BY <2>2, <2>3, <2>4
    <2>. HIDE DEF f
    <2>8. /\ InUseOf(f) \in Nat /\ PermitsOf(f) \in Nat
          /\ InUseOf(user) \in Nat /\ PermitsOf(user) \in Nat
          /\ InUseOf(f) + Connections(user[u]) = InUseOf(user) + Connections("out")
          /\ PermitsOf(f) + Permits(u, user[u]) = PermitsOf(user) + Permits(u, "out")
      BY <1>1, <2>7
    <2>9. /\ InUseOf(user') \in Nat /\ PermitsOf(user') \in Nat
          /\ InUseOf(user') + Connections("queued") = InUseOf(f) + Connections("admitted")
          /\ PermitsOf(user') + Permits(h, "queued") = PermitsOf(f) + Permits(h, "admitted")
      <3>1. f[h] \in UserStates /\ user'[h] \in UserStates
        BY <2>4, <2>7
      <3>. HIDE DEF UserStates, PoolInv
      <3>. QED
        BY <2>2, <2>4, <2>7, <3>1, CountsAfterMove
    <2>10. Permits(u, user[u]) = 1 /\ Permits(u, "out") = 0
           /\ Permits(h, "queued") = 0 /\ Permits(h, "admitted") = 1
      BY <1>3, <2>1 DEF Permits, Admitted
    <2>11. Connections("out") = 0 /\ Connections("queued") = 0 /\ Connections("admitted") = 0
           /\ Connections(user[u]) \in Nat
      BY DEF Connections, Held1
    <2>12. CountsAreRight'
      BY <2>3, <2>8, <2>9, <2>10, <2>11 DEF CountsAreRight, PermitLimit
    <2>. QED
      BY <2>5, <2>6, <2>12
  <1>4. CASE ~(u \in Actions /\ waiters # <<>>)
    <2>1. /\ user' = [user EXCEPT ![u] = "out"] /\ waiters' = waiters
          /\ permits' = IF u \in Actions THEN permits - 1 ELSE permits
      BY <1>4 DEF LeavePool, ReleasePermit
    <2>2. user'[u] = "out" /\ \A v \in PoolUsers \ {u} : user'[v] = user[v]
      BY <2>1
    <2>3. /\ InUseOf(user') \in Nat /\ PermitsOf(user') \in Nat
          /\ InUseOf(user) \in Nat /\ PermitsOf(user) \in Nat
          /\ InUseOf(user') + Connections(user[u]) = InUseOf(user) + Connections("out")
          /\ PermitsOf(user') + Permits(u, user[u]) = PermitsOf(user) + Permits(u, "out")
      BY <1>1, <2>2
    <2>4. /\ Permits(u, user[u]) = (IF u \in Actions THEN 1 ELSE 0) /\ Permits(u, "out") = 0
          /\ Connections("out") = 0 /\ Connections(user[u]) \in Nat
      BY DEF Permits, Admitted, Connections, Held1
    <2>5. CountsAreRight' /\ permits' \in Nat
      BY <2>1, <2>3, <2>4 DEF CountsAreRight, PermitLimit
    <2>6. PoolTypes' /\ StatesFitUsers'
      BY <1>2, <2>1, <2>2, <2>5 DEF StatesFitUsers
    <2>7. QueueIsExact'
      BY <1>4, <2>1, <2>2 DEF QueueIsExact, StatesFitUsers, PermitLimit
    <2>. QED
      BY <2>5, <2>6, <2>7
  <1>. QED
    BY <1>3, <1>4

\* An action asks for a permit and gets it or joins the queue.
LEMMA AskStep ==
  ASSUME PoolInv, NEW u \in PoolUsers, AskPermit(u)
  PROVE  PoolInv'
  <1>. USE PoolBounds DEF PoolInv, PoolTypes, UserStates, AskPermit
  <1>1. PICK p \in {"queued", "admitted"} : user' = [user EXCEPT ![u] = p]
    OBVIOUS
  <1>2. /\ user[u] = "out" /\ user'[u] = p
        /\ \A v \in PoolUsers \ {u} : user'[v] = user[v]
    BY <1>1
  <1>3. /\ InUseOf(user') \in Nat /\ PermitsOf(user') \in Nat
        /\ InUseOf(user) \in Nat /\ PermitsOf(user) \in Nat
        /\ InUseOf(user') + Connections("out") = InUseOf(user) + Connections(p)
        /\ PermitsOf(user') + Permits(u, "out") = PermitsOf(user) + Permits(u, p)
    <2>1. user[u] \in UserStates /\ user'[u] \in UserStates
      BY <1>2
    <2>. HIDE DEF UserStates, PoolInv
    <2>. QED
      BY <1>2, <2>1, CountsAfterMove
  <1>4. Connections("out") = 0 /\ Connections(p) = 0 /\ Permits(u, "out") = 0
        /\ Permits(u, p) = IF p = "admitted" THEN 1 ELSE 0
    BY DEF Connections, Held1, Permits, Admitted
  <1>5. StatesFitUsers'
    BY <1>2 DEF StatesFitUsers
  <1>6. CASE permits >= PermitLimit
    <2>1. waiters' = Append(waiters, u) /\ p = "queued" /\ permits' = permits
      BY <1>1, <1>6, <1>2
    <2>2. /\ waiters' \in Seq(Actions) /\ Len(waiters') = Len(waiters) + 1
          /\ Len(waiters) \in Nat
          /\ DOMAIN waiters = 1..Len(waiters) /\ DOMAIN waiters' = 1..Len(waiters')
          /\ \A i \in 1..Len(waiters) : waiters'[i] = waiters[i]
          /\ waiters'[Len(waiters) + 1] = u
      BY <2>1, AppendProperties, LenProperties
    <2>3. \A i \in DOMAIN waiters : waiters[i] # u
      BY <1>2 DEF QueueIsExact
    <2>4. QueueIsExact'
      <3>1. \A i, j \in DOMAIN waiters' : waiters'[i] = waiters'[j] => i = j
        BY <2>2, <2>3 DEF QueueIsExact
      <3>2. \A v \in PoolUsers :
               (\E i \in DOMAIN waiters' : waiters'[i] = v)
                 <=> v = u \/ \E i \in DOMAIN waiters : waiters[i] = v
        BY <2>2
      <3>3. permits' = PermitLimit
        BY <1>6, <2>1 DEF CountsAreRight, PermitLimit
      <3>. QED
        BY <1>2, <2>1, <3>1, <3>2, <3>3 DEF QueueIsExact, PermitLimit
    <2>5. PoolTypes'
      BY <1>1, <2>1, <2>2
    <2>. QED
      BY <1>3, <1>4, <1>5, <2>1, <2>4, <2>5 DEF CountsAreRight, PermitLimit
  <1>7. CASE ~(permits >= PermitLimit)
    <2>1. waiters' = waiters /\ p = "admitted" /\ permits' = permits + 1
      BY <1>1, <1>2, <1>7
    <2>2. QueueIsExact'
      BY <1>2, <1>7, <2>1 DEF QueueIsExact, PermitLimit
    <2>3. CountsAreRight'
      BY <1>3, <1>4, <1>7, <2>1 DEF CountsAreRight, PermitLimit
    <2>. QED
      BY <1>1, <1>5, <2>1, <2>2, <2>3
  <1>. QED
    BY <1>6, <1>7

\* No step breaks the inductive invariant.
LEMMA PoolStep == PoolInv /\ [FencePoolNext]_fencePoolVars => PoolInv'
  <1>1. SUFFICES ASSUME PoolInv, [FencePoolNext]_fencePoolVars PROVE PoolInv'
    OBVIOUS
  <1>2. PoolTypes /\ InUseOf(user) \in Nat /\ InUse = InUseOf(user)
    <2>1. PoolTypes
      BY <1>1 DEF PoolInv
    <2>2. InUseOf(user) \in Nat
      <3>1. ASSUME NEW S PROVE CountIn(user, PoolUsers, S) \in Nat
        <4>1. IsFiniteSet(PoolUsers)
          BY FencePoolAssumption
        <4>. QED
          BY <4>1, CountAfterMove
      <3>. QED
        BY <3>1 DEF InUseOf
    <2>. QED
      BY <2>1, <2>2, InUseIsOfUser
  <1>. USE <1>1, <1>2, PoolBounds
  <1>3. ASSUME NEW u \in PoolUsers, AskPermit(u) PROVE PoolInv'
    BY <1>3, AskStep
  <1>4. ASSUME NEW u \in PoolUsers, TakeConnection(u) PROVE PoolInv'
    <2>1. PICK p \in {"connected", "working"} :
              /\ user' = [user EXCEPT ![u] = p]
              /\ p = "working" <=> u \in Transactions
      BY <1>4 DEF TakeConnection
    <2>2. /\ InUse < PoolMax /\ UNCHANGED <<session, permits, waiters>>
          /\ user[u] = IF u \in Actions THEN "admitted" ELSE "out"
      BY <1>4 DEF TakeConnection, PoolHasFree
    <2>3. session[u] = "none"
      BY <2>2 DEF PoolInv, StatesFitUsers
    <2>4. Connections(p) = 1 /\ Connections(user[u]) = 0
      BY <2>2 DEF Connections, Held1
    <2>5. InUseOf(user) + Connections(p) - Connections(user[u]) <= PoolMax
      BY <2>2, <2>4
    <2>. QED
      BY <2>1, <2>2, <2>3, <2>5, InsideStep DEF PoolTypes
  <1>5. ASSUME NEW u \in PoolUsers, ConnectFails(u) \/ EndTransaction(u) PROVE PoolInv'
    <2>1. LeavePool(u) /\ session' = session /\ user[u] \in {"admitted", "working"}
      BY <1>5 DEF ConnectFails, EndTransaction
    <2>2. session' = [session EXCEPT ![u] = "none"]
      BY <2>1 DEF PoolInv, StatesFitUsers, PoolTypes
    <2>. QED
      BY <2>1, <2>2, LeaveStep
  <1>6. ASSUME NEW u \in PoolUsers, TakeLock(u) \/ NeedSecond(u) \/ TakeSecond(u) \/ GiveSecond(u)
        PROVE  PoolInv'
    <2>1. PICK p \in {"fenced", "needs", "inner"} : user' = [user EXCEPT ![u] = p]
      BY <1>6 DEF TakeLock, NeedSecond, TakeSecond, GiveSecond
    <2>2. /\ user[u] \in {"connected", "fenced", "needs", "inner"}
          /\ UNCHANGED <<permits, waiters>>
          /\ p = "inner" => InUse < PoolMax /\ user[u] = "needs"
          /\ p \in {"needs", "inner"} => u \in Actions
      BY <1>6, <2>1 DEF TakeLock, NeedSecond, TakeSecond, GiveSecond, PoolHasFree, PoolInv,
          StatesFitUsers, PoolTypes
    <2>3. /\ u \in Actions \cup ModelCalls
          /\ session' \in [PoolUsers -> {"none", "locked", "lost"}]
          /\ \A v \in PoolUsers \ {u} : session'[v] = session[v]
          /\ session'[u] # "none"
      BY <1>6, <2>2 DEF TakeLock, NeedSecond, TakeSecond, GiveSecond, PoolInv, StatesFitUsers, PoolTypes
    <2>4. InUseOf(user) + Connections(p) - Connections(user[u]) <= PoolMax
      <3>1. /\ Connections(p) = IF p = "inner" THEN 2 ELSE 1
            /\ Connections(user[u]) = IF user[u] = "inner" THEN 2 ELSE 1
        BY <2>2 DEF Connections, Held1
      <3>. QED
        BY <2>2, <3>1 DEF PoolInv, CountsAreRight
    <2>. QED
      BY <2>1, <2>2, <2>3, <2>4, InsideStep
  <1>7. ASSUME NEW u \in PoolUsers, Unfence(u) \/ NoticeLoss(u) PROVE PoolInv'
    <2>1. user[u] \notin {"out", "queued"}
      BY <1>7 DEF Unfence, NoticeLoss, PoolInv, StatesFitUsers
    <2>. QED
      BY <1>7, <2>1, LeaveStep DEF Unfence, NoticeLoss
  <1>8. ASSUME NEW u \in PoolUsers, LoseSession(u) PROVE PoolInv'
    BY <1>8 DEF LoseSession, PoolInv, PoolTypes, StatesFitUsers, QueueIsExact, CountsAreRight,
        PermitLimit
  <1>9. CASE UNCHANGED fencePoolVars
    BY <1>9 DEF fencePoolVars, PoolInv, PoolTypes, StatesFitUsers, QueueIsExact, CountsAreRight,
        PermitLimit
  <1>. QED
    BY <1>3, <1>4, <1>5, <1>6, <1>7, <1>8, <1>9 DEF FencePoolNext

\* The pool with nobody in it satisfies it.
LEMMA PoolStart == FencePoolInit => PoolInv
  <1>1. SUFFICES ASSUME FencePoolInit PROVE PoolInv
    OBVIOUS
  <1>. USE <1>1, PoolBounds DEF FencePoolInit
  <1>2. PoolTypes /\ StatesFitUsers /\ QueueIsExact
    BY EmptySeq DEF PoolTypes, StatesFitUsers, QueueIsExact, UserStates
  <1>3. /\ CountIn(user, PoolUsers, Held1) = 0 /\ CountIn(user, PoolUsers, {"working"}) = 0
        /\ CountIn(user, PoolUsers, {"inner"}) = 0 /\ CountIn(user, Actions, Admitted) = 0
    <2>1. ASSUME NEW A \in SUBSET PoolUsers, NEW S, "out" \notin S
          PROVE  CountIn(user, A, S) = 0
      <3>1. {x \in A : user[x] \in S} = {}
        BY <2>1
      <3>. QED
        BY <3>1, FS_EmptySet DEF CountIn
    <2>. QED
      BY <2>1 DEF Held1, Admitted
  <1>4. CountsAreRight
    BY <1>3 DEF CountsAreRight, InUseOf, PermitsOf, PermitLimit
  <1>. QED
    BY <1>2, <1>4 DEF PoolInv

\* The queue, the permits and the connections are what they are taken for, in
\* every reachable state.
THEOREM PoolIsCounted == FencePoolSpec => []PoolInv
  BY PoolStart, PoolStep, PTL DEF FencePoolSpec

-----------------------------------------------------------------------------
(* Someone can go on.                                                      *)

\* As many users as have one connection only are all of the pool's users when
\* nobody works and nobody has two; they have permits if they are all actions.
LEMMA HoldersOfOne ==
  ASSUME PoolInv,
         \A u \in PoolUsers : user[u] \notin {"working", "inner"},
         \A u \in PoolUsers : user[u] \in Held1 => u \in Actions
  PROVE  InUse < PoolMax
  <1>1. InUse = CountIn(user, PoolUsers, Held1)
    <2>1. ASSUME NEW p \in {"working", "inner"}
          PROVE  CountIn(user, PoolUsers, {p}) = 0
      <3>1. {u \in PoolUsers : user[u] \in {p}} = {}
        OBVIOUS
      <3>. QED
        BY <3>1, FS_EmptySet DEF CountIn
    <2>2. CountIn(user, PoolUsers, Held1) \in Nat
      <3>1. IsFiniteSet(PoolUsers)
        BY FencePoolAssumption
      <3>. QED
        BY <3>1, FS_Subset, FS_CardinalityType DEF CountIn
    <2>. QED
      BY <2>1, <2>2, InUseIsOfUser DEF InUseOf
  <1>2. CountIn(user, PoolUsers, Held1) <= permits
    <2>. DEFINE some == {u \in PoolUsers : user[u] \in Held1}
                all == {u \in Actions : user[u] \in Admitted}
    <2>1. some \subseteq all
      BY DEF Held1, Admitted
    <2>2. IsFiniteSet(all)
      BY FencePoolAssumption, FS_Subset DEF PoolUsers
    <2>. HIDE DEF some, all
    <2>3. Cardinality(some) <= Cardinality(all)
      BY <2>1, <2>2, FS_Subset
    <2>. QED
      BY <2>3 DEF some, all, CountIn, PoolInv, CountsAreRight, PermitsOf
  <1>3. CountIn(user, PoolUsers, Held1) \in Nat
    <2>1. IsFiniteSet(PoolUsers)
      BY FencePoolAssumption
    <2>. QED
      BY <2>1, FS_Subset, FS_CardinalityType DEF CountIn
  <1>. QED
    BY <1>1, <1>2, <1>3, PoolBounds DEF PoolInv, PoolTypes, CountsAreRight

\* "N concurrent actions can starve an N-connection pool permanently": not with
\* a connection kept back from the permits, whatever locks the actions and the
\* model calls wait for (acquireFenceAdmission).
THEOREM NeverWedged == FencePoolSpec => []PoolIsNeverWedged
  <1>1. PoolInv => PoolIsNeverWedged
    <2>1. SUFFICES ASSUME PoolInv, \E u \in PoolUsers : user[u] # "out",
                          \A u \in PoolUsers : user[u] # "out" => IsBlocked(u)
                   PROVE  FALSE
      BY DEF PoolIsNeverWedged
    <2>. USE <2>1, PoolBounds
    <2>2. /\ \A u \in PoolUsers : user[u] \in {"out", "queued", "admitted", "connected", "needs"}
          /\ \A u \in PoolUsers : user[u] \in {"admitted", "needs"} => ~PoolHasFree
      BY DEF IsBlocked, PoolInv, PoolTypes, UserStates
    <2>3. ASSUME NEW u \in PoolUsers, user[u] = "connected"
          PROVE  u \in Actions /\ ~PoolHasFree
      <3>1. PICK v \in DOMAIN LockOf : LockOf[v] = LockOf[u] /\ session[v] = "locked"
        BY <2>3 DEF IsBlocked, LockIsFree
      <3>2. v \in Actions \cup ModelCalls /\ v \in PoolUsers
        BY FencePoolAssumption
      <3>3. user[v] = "needs" /\ v \in Actions
        BY <2>2, <3>1, <3>2 DEF PoolInv, StatesFitUsers
      <3>4. u \in Actions
        BY <2>3, <3>1, <3>3, FencePoolAssumption DEF PoolInv, StatesFitUsers
      <3>. QED
        BY <2>2, <3>2, <3>3, <3>4
    <2>4. InUse < PoolMax
      <3>1. \A u \in PoolUsers : user[u] \in Held1 => u \in Actions
        BY <2>2, <2>3 DEF Held1, PoolInv, StatesFitUsers
      <3>. QED
        BY <2>2, <3>1, HoldersOfOne
    <2>5. \A u \in PoolUsers : user[u] \in {"out", "queued"}
      BY <2>2, <2>3, <2>4 DEF PoolHasFree
    <2>6. permits = PoolMax - 1
      BY <2>5 DEF PoolInv, QueueIsExact
    <2>7. permits = 0
      <3>1. {u \in Actions : user[u] \in Admitted} = {}
        BY <2>5 DEF Admitted
      <3>. QED
        BY <3>1, FS_EmptySet DEF PoolInv, CountsAreRight, PermitsOf, CountIn
    <2>. QED
      BY <2>6, <2>7
  <1>. QED
    BY <1>1, PoolIsCounted, PTL

-----------------------------------------------------------------------------
(* RunExport.                                                              *)

SourceStatus == {"QUEUED", "RUNNING", "WAITING_APPROVAL", "COMPLETED"}
Entries == [kind : Kinds \cup {"none"}, id : Nat]
Sources == [status : SourceStatus, events : Seq(Entries), rows : [Kinds -> SUBSET Nat]]
Bundles == [run : [status : SourceStatus \cup {"none"}, seq : Nat], events : Seq(Entries),
            rows : [Kinds -> SUBSET Nat]]

\* What an event of the sequence names is among the rows.
Names(events, rows) ==
  \A i \in 1..Len(events) : events[i].kind # "none" => events[i].id \in rows[events[i].kind]

\* The run: an event names a row that exists, an artifact is of an attempt, and
\* what has ended has artifacts.
SourceInv ==
  /\ source \in Sources
  /\ \A kind \in Kinds : IsFiniteSet(source.rows[kind])
  /\ Names(source.events, source.rows)
  /\ source.rows["artifacts"] \subseteq source.rows["attempts"]
  /\ source.status = "RUNNING" =>
       Cardinality(source.rows["attempts"]) \in source.rows["attempts"]
  /\ source.rows["attempts"] = 1..Cardinality(source.rows["attempts"])
  /\ source.status = "COMPLETED" => source.rows["artifacts"] # {}

\* What has been read: rows the run still has, and at each statement's turn all
\* that the statements before it may name.
BundleInv ==
  /\ bundle \in Bundles
  /\ exporter \in [at : 1..8, outcome : {"reading", "exported", "not_found", "failed"}]
  /\ exporter.outcome = "reading" => exporter.at <= 7
  /\ exporter.outcome = "exported" => exporter.at = 8
  /\ \A kind \in Kinds : bundle.rows[kind] \subseteq source.rows[kind]
  /\ bundle.run.seq <= Len(source.events)
  /\ bundle.run.status = "COMPLETED" => source.status = "COMPLETED"
  /\ exporter.at > 2 => Len(bundle.events) >= bundle.run.seq
  /\ Names(bundle.events, source.rows)
  /\ \A i \in 1..Len(bundle.events) :
       LET kind == bundle.events[i].kind IN
       /\ kind = "revisions" /\ exporter.at > 3 => bundle.events[i].id \in bundle.rows[kind]
       /\ kind = "artifacts" /\ exporter.at > 4 => bundle.events[i].id \in bundle.rows[kind]
       /\ kind = "attempts" /\ exporter.at > 5 => bundle.events[i].id \in bundle.rows[kind]
       /\ kind = "receipts" /\ exporter.at > 6 => bundle.events[i].id \in bundle.rows[kind]
       /\ kind = "approvals" /\ exporter.at > 7 => bundle.events[i].id \in bundle.rows[kind]
  /\ exporter.at > 4 /\ bundle.run.status = "COMPLETED" => bundle.rows["artifacts"] # {}
  /\ exporter.at > 5 => bundle.rows["artifacts"] \subseteq bundle.rows["attempts"]

\* A run that goes on keeps its events and rows, and its end.
Extends(a, b) ==
  /\ Len(a.events) <= Len(b.events)
  /\ \A kind \in Kinds : a.rows[kind] \subseteq b.rows[kind]
  /\ a.status = "COMPLETED" => b.status = "COMPLETED"

\* The order of the statements.
LEMMA StatementOrder ==
  /\ Len(Order) = 7 /\ Order[1] = "run" /\ Order[2] = "events" /\ Order[3] = "revisions"
  /\ Order[4] = "artifacts" /\ Order[5] = "attempts" /\ Order[6] = "receipts"
  /\ Order[7] = "approvals"
  BY DEF Order

\* A committed source: its status, its rows and one event more.
Committed(s, to, rows, kind, id) ==
  /\ s \in Sources /\ s.status = to /\ s.rows = rows
  /\ s.events = Append(source.events, [kind |-> kind, id |-> id])

\* One event more, and perhaps the row it names.
LEMMA CommitIs ==
  ASSUME SourceInv, NEW kind \in Kinds \cup {"none"}, NEW id \in Nat, NEW to \in SourceStatus,
         NEW rows \in [Kinds -> SUBSET Nat],
         \A k \in Kinds : source.rows[k] \subseteq rows[k] /\ IsFiniteSet(rows[k]),
         kind # "none" => id \in rows[kind],
         source.status = "COMPLETED" => to = "COMPLETED",
         Committed(source', to, rows, kind, id),
         rows["artifacts"] \subseteq rows["attempts"],
         to = "RUNNING" => Cardinality(rows["attempts"]) \in rows["attempts"],
         rows["attempts"] = 1..Cardinality(rows["attempts"]),
         to = "COMPLETED" => rows["artifacts"] # {}
  PROVE  SourceInv' /\ Extends(source, source')
  <1>1. source \in Sources /\ source.events \in Seq(Entries)
    BY DEF SourceInv, Sources
  <1>2. PICK e \in Entries : e = [kind |-> kind, id |-> id]
    BY DEF Entries
  <1>3. PICK s \in Seq(Entries) :
          /\ s = Append(source.events, e) /\ Len(s) = Len(source.events) + 1
          /\ s[Len(s)] = e /\ \A i \in 1..Len(source.events) : s[i] = source.events[i]
    <2>. DEFINE l == Append(source.events, e)
    <2>1. /\ l \in Seq(Entries) /\ Len(l) = Len(source.events) + 1 /\ l[Len(l)] = e
          /\ \A i \in 1..Len(source.events) : l[i] = source.events[i]
      BY <1>1
    <2>. QED
      BY <2>1
  <1>4. source' \in Sources /\ source'.events = s /\ source'.rows = rows /\ source'.status = to
    BY <1>2, <1>3 DEF Committed
  <1>5. Names(s, rows)
    <2>. SUFFICES ASSUME NEW i \in 1..Len(s), s[i].kind # "none"
                  PROVE  s[i].id \in rows[s[i].kind]
      BY DEF Names
    <2>1. CASE i = Len(s)
      BY <1>2, <1>3, <2>1
    <2>2. CASE i # Len(s)
      <3>1. i \in 1..Len(source.events) /\ s[i] = source.events[i]
        BY <1>1, <1>3, <2>2
      <3>2. s[i] \in Entries
        BY <1>3
      <3>3. s[i].kind \in Kinds
        BY <3>2 DEF Entries
      <3>. QED
        BY <3>1, <3>3 DEF SourceInv, Names
    <2>. QED
      BY <2>1, <2>2
  <1>. QED
    BY <1>1, <1>3, <1>4, <1>5 DEF SourceInv, Extends

\* The rows with one more of a kind.
Grown(kind, id) == [source.rows EXCEPT ![kind] = source.rows[kind] \cup {id}]

\* Grown rows are rows, and the ones there were among them.
LEMMA GrownIs ==
  ASSUME SourceInv, NEW kind \in Kinds, NEW id \in Nat
  PROVE  /\ Grown(kind, id) \in [Kinds -> SUBSET Nat]
         /\ \A k \in Kinds :
              /\ source.rows[k] \subseteq Grown(kind, id)[k] /\ IsFiniteSet(Grown(kind, id)[k])
              /\ k # kind => Grown(kind, id)[k] = source.rows[k]
         /\ Grown(kind, id)[kind] = source.rows[kind] \cup {id}
         /\ id \in Grown(kind, id)[kind]
  <1>1. source \in Sources /\ source.rows \in [Kinds -> SUBSET Nat]
    BY DEF SourceInv, Sources
  <1>2. \A k \in Kinds : IsFiniteSet(source.rows[k]) /\ IsFiniteSet(source.rows[k] \cup {id})
    BY FS_AddElement DEF SourceInv
  <1>. QED
    BY <1>1, <1>2 DEF Grown

\* What an appended event and an inserted row make of the run.
LEMMA InsertIs ==
  ASSUME SourceInv, NEW kind \in Kinds, NEW id \in Nat, NEW to \in SourceStatus
  PROVE  /\ Committed([Appended("none", 0) EXCEPT !.status = to], to, source.rows, "none", 0)
         /\ Committed([Appended(kind, id) EXCEPT !.rows[kind] = @ \cup {id}],
                      source.status, Grown(kind, id), kind, id)
         /\ Committed([Appended(kind, id) EXCEPT !.rows[kind] = @ \cup {id}, !.status = to],
                      to, Grown(kind, id), kind, id)
         /\ \A s : Committed(s, source.status, Grown(kind, id), kind, id) =>
              Committed([s EXCEPT !.status = to], to, Grown(kind, id), kind, id)
  <1>1. source \in Sources /\ source.rows \in [Kinds -> SUBSET Nat]
    BY DEF SourceInv, Sources
  <1>2. ASSUME NEW k \in Kinds \cup {"none"}, NEW n \in Nat
        PROVE  Committed(Appended(k, n), source.status, source.rows, k, n)
    <2>1. [kind |-> k, id |-> n] \in Entries
      BY DEF Entries
    <2>2. Append(source.events, [kind |-> k, id |-> n]) \in Seq(Entries)
      BY <1>1, <2>1 DEF Sources
    <2>. QED
      BY <1>1, <2>2 DEF Appended, Committed, Sources
  <1>3. ASSUME NEW s, NEW r, NEW k, NEW n, NEW u, Committed(s, u, r, k, n)
        PROVE  Committed([s EXCEPT !.status = to], to, r, k, n)
    BY <1>3 DEF Committed, Sources
  <1>4. PICK a : a = Appended(kind, id)
    OBVIOUS
  <1>5. Committed(a, source.status, source.rows, kind, id)
    BY <1>2, <1>4
  <1>6. Committed([a EXCEPT !.rows[kind] = a.rows[kind] \cup {id}],
                  source.status, Grown(kind, id), kind, id)
    BY <1>5, GrownIs DEF Committed, Grown, Sources
  <1>7. Committed([[a EXCEPT !.rows[kind] = a.rows[kind] \cup {id}] EXCEPT !.status = to],
                  to, Grown(kind, id), kind, id)
    BY <1>3, <1>6
  <1>8. Committed([Appended("none", 0) EXCEPT !.status = to], to, source.rows, "none", 0)
    BY <1>2, <1>3
  <1>9. \A s : Committed(s, source.status, Grown(kind, id), kind, id) =>
              Committed([s EXCEPT !.status = to], to, Grown(kind, id), kind, id)
    BY <1>3
  <1>. QED
    BY <1>4, <1>6, <1>7, <1>8, <1>9

\* The attempts are numbered from one.
LEMMA AttemptsNumbered ==
  ASSUME SourceInv
  PROVE  /\ Cardinality(source.rows["attempts"]) \in Nat
         /\ LET n == Cardinality(source.rows["attempts"]) IN
            /\ source.rows["attempts"] = 1..n
            /\ source.rows["attempts"] \cup {n + 1} = 1..n + 1 /\ Cardinality(1..n + 1) = n + 1
            /\ n + 1 \in 1..n + 1 /\ 1..n \subseteq 1..n + 1
  <1>1. PICK n \in Nat : n = Cardinality(source.rows["attempts"])
    BY FS_CardinalityType DEF SourceInv, Kinds
  <1>2. source.rows["attempts"] = 1..n
    BY <1>1 DEF SourceInv
  <1>3. (1..n) \cup {n + 1} = 1..n + 1 /\ n + 1 \in 1..n + 1 /\ 1..n \subseteq 1..n + 1
    OBVIOUS
  <1>4. PICK m \in Int : m = n + 1 /\ m >= 1
    OBVIOUS
  <1>5. Cardinality(1..m) = m
    BY <1>4, FS_Interval
  <1>. QED
    BY <1>1, <1>2, <1>3, <1>4, <1>5

\* The run goes on.
LEMMA SourceStep ==
  ASSUME SourceInv,
         \/ AttemptStarts \/ ToolStarts \/ ApprovalIsAsked \/ SourceRequeued
         \/ SnapshotIsSaved \/ SourceCompletes
  PROVE  SourceInv' /\ Extends(source, source') /\ UNCHANGED <<bundle, exporter>>
  <1>1. PICK n \in Nat :
          /\ n = Cardinality(source.rows["attempts"]) /\ source.rows["attempts"] = 1..n
          /\ source.rows["attempts"] \cup {n + 1} = 1..n + 1 /\ Cardinality(1..n + 1) = n + 1
          /\ n + 1 \in 1..n + 1 /\ 1..n \subseteq 1..n + 1
    BY AttemptsNumbered
  <1>2. /\ source \in Sources /\ source.rows \in [Kinds -> SUBSET Nat]
        /\ \A k \in Kinds : IsFiniteSet(source.rows[k]) /\ Cardinality(source.rows[k]) + 1 \in Nat
        /\ source.status \in SourceStatus
    BY FS_CardinalityType DEF SourceInv, Sources
  <1>3. /\ source.rows["artifacts"] \subseteq source.rows["attempts"]
        /\ source.status = "RUNNING" => n \in source.rows["attempts"]
        /\ source.status = "COMPLETED" => source.rows["artifacts"] # {}
    BY <1>1 DEF SourceInv
  <1>4. CASE AttemptStarts
    <2>1. "attempts" \in Kinds /\ "artifacts" \in Kinds /\ n + 1 \in Nat /\ "RUNNING" \in SourceStatus
      BY DEF Kinds, SourceStatus
    <2>2. Committed(Insert("attempts"), source.status, Grown("attempts", n + 1), "attempts", n + 1)
      BY <1>1, <2>1, InsertIs DEF Insert
    <2>3. source' = [Insert("attempts") EXCEPT !.status = "RUNNING"]
          /\ UNCHANGED <<bundle, exporter>> /\ source.status = "QUEUED"
      BY <1>4 DEF AttemptStarts, Commits
    <2>4. Committed(source', "RUNNING", Grown("attempts", n + 1), "attempts", n + 1)
      BY <2>1, <2>2, <2>3, InsertIs
    <2>5. PICK g : g = Grown("attempts", n + 1)
      OBVIOUS
    <2>6. /\ g \in [Kinds -> SUBSET Nat] /\ g["attempts"] = 1..n + 1
          /\ g["artifacts"] = source.rows["artifacts"] /\ n + 1 \in g["attempts"]
          /\ \A k \in Kinds : source.rows[k] \subseteq g[k] /\ IsFiniteSet(g[k])
      BY <1>1, <2>1, <2>5, GrownIs
    <2>7. /\ g["artifacts"] \subseteq g["attempts"]
          /\ Cardinality(g["attempts"]) \in g["attempts"]
          /\ g["attempts"] = 1..Cardinality(g["attempts"])
      BY <1>1, <1>3, <2>6
    <2>8. SourceInv' /\ Extends(source, source')
      BY <2>1, <2>3, <2>4, <2>5, <2>6, <2>7, CommitIs
    <2>. QED
      BY <2>3, <2>8
  <1>5. ASSUME NEW kind \in {"receipts", "approvals", "revisions"}, NEW to \in SourceStatus,
               source.status = "COMPLETED" => to = "COMPLETED",
               to \in {"RUNNING", "COMPLETED"} => source.status = to,
               \/ source' = Insert(kind) /\ to = source.status
               \/ source' = [Insert(kind) EXCEPT !.status = to]
        PROVE  SourceInv' /\ Extends(source, source')
    <2>1. PICK id \in Nat : id = Cardinality(source.rows[kind]) + 1
      BY <1>2 DEF Kinds
    <2>2. kind \in Kinds /\ "attempts" \in Kinds /\ "artifacts" \in Kinds
      BY DEF Kinds
    <2>3. Committed(Insert(kind), source.status, Grown(kind, id), kind, id)
      BY <2>1, <2>2, InsertIs DEF Insert
    <2>4. Committed(source', to, Grown(kind, id), kind, id)
      BY <1>5, <2>2, <2>3, InsertIs
    <2>5. PICK g : g = Grown(kind, id)
      OBVIOUS
    <2>6. /\ g \in [Kinds -> SUBSET Nat] /\ g["attempts"] = source.rows["attempts"]
          /\ g["artifacts"] = source.rows["artifacts"] /\ id \in g[kind]
          /\ \A k \in Kinds : source.rows[k] \subseteq g[k] /\ IsFiniteSet(g[k])
      BY <2>2, <2>5, GrownIs
    <2>. QED
      BY <1>1, <1>3, <1>5, <2>2, <2>4, <2>5, <2>6, CommitIs
  <1>6. CASE ToolStarts
    <2>1. source' = Insert("receipts") /\ UNCHANGED <<bundle, exporter>>
      BY <1>6 DEF ToolStarts, Commits
    <2>. QED
      BY <1>2, <1>5, <2>1
  <1>7. CASE SnapshotIsSaved
    <2>1. source' = Insert("revisions") /\ UNCHANGED <<bundle, exporter>>
      BY <1>7 DEF SnapshotIsSaved, Commits
    <2>. QED
      BY <1>2, <1>5, <2>1
  <1>8. CASE ApprovalIsAsked
    <2>1. /\ source' = [Insert("approvals") EXCEPT !.status = "WAITING_APPROVAL"]
          /\ UNCHANGED <<bundle, exporter>> /\ source.status = "RUNNING"
          /\ "WAITING_APPROVAL" \in SourceStatus
      BY <1>8 DEF ApprovalIsAsked, Commits, SourceStatus
    <2>. QED
      BY <1>2, <1>5, <2>1
  <1>9. CASE SourceRequeued
    <2>1. /\ source' = [Appended("none", 0) EXCEPT !.status = "QUEUED"]
          /\ UNCHANGED <<bundle, exporter>> /\ source.status \in {"RUNNING", "WAITING_APPROVAL"}
      BY <1>9 DEF SourceRequeued, Commits
    <2>2. "attempts" \in Kinds /\ 0 \in Nat /\ "QUEUED" \in SourceStatus
          /\ "none" \in Kinds \cup {"none"}
      BY DEF Kinds, SourceStatus
    <2>3. Committed(source', "QUEUED", source.rows, "none", 0)
      BY <2>1, <2>2, InsertIs
    <2>4. SourceInv' /\ Extends(source, source')
      BY <1>1, <1>2, <1>3, <2>1, <2>2, <2>3, CommitIs
    <2>. QED
      BY <2>1, <2>4
  <1>10. CASE SourceCompletes
    <2>1. /\ source' = [Appended("artifacts", n) EXCEPT !.rows["artifacts"] = @ \cup {n},
                                                       !.status = "COMPLETED"]
          /\ UNCHANGED <<bundle, exporter>> /\ source.status = "RUNNING"
      BY <1>1, <1>10 DEF SourceCompletes, Commits
    <2>2. "attempts" \in Kinds /\ "artifacts" \in Kinds /\ "COMPLETED" \in SourceStatus
      BY DEF Kinds, SourceStatus
    <2>3. Committed(source', "COMPLETED", Grown("artifacts", n), "artifacts", n)
      BY <2>1, <2>2, InsertIs
    <2>4. PICK g : g = Grown("artifacts", n)
      OBVIOUS
    <2>5. /\ g \in [Kinds -> SUBSET Nat] /\ g["attempts"] = source.rows["attempts"]
          /\ g["artifacts"] = source.rows["artifacts"] \cup {n} /\ n \in g["artifacts"]
          /\ \A k \in Kinds : source.rows[k] \subseteq g[k] /\ IsFiniteSet(g[k])
      BY <2>2, <2>4, GrownIs
    <2>. QED
      BY <1>1, <1>3, <2>1, <2>2, <2>3, <2>4, <2>5, CommitIs
  <1>. QED
    BY <1>4, <1>6, <1>7, <1>8, <1>9, <1>10

\* What has been read stays what the run has.
LEMMA SourceGoesOn ==
  ASSUME BundleInv, Extends(source, source'), UNCHANGED <<bundle, exporter>>,
         Len(source.events) \in Nat, Len(source'.events) \in Nat
  PROVE  BundleInv'
  <1>1. Names(bundle.events, source'.rows)
    <2>. SUFFICES ASSUME NEW i \in 1..Len(bundle.events), bundle.events[i].kind # "none"
                  PROVE  bundle.events[i].id \in source'.rows[bundle.events[i].kind]
      BY DEF Names
    <2>1. bundle.events[i].kind \in Kinds
      <3>1. bundle.events \in Seq(Entries)
        BY DEF BundleInv, Bundles
      <3>2. bundle.events[i] \in Entries
        BY <3>1
      <3>. QED
        BY <3>2 DEF Entries
    <2>. QED
      BY <2>1 DEF BundleInv, Names, Extends
  <1>2. bundle.run.seq \in Nat
    BY DEF BundleInv, Bundles
  <1>. QED
    BY <1>1, <1>2 DEF BundleInv, Extends

\* Which statement it is tells where the export is.
LEMMA StatementAt ==
  ASSUME BundleInv, NEW part, Statement(part)
  PROVE  /\ exporter.at \in 1..7 /\ exporter'.at = exporter.at + 1
         /\ exporter' \in [at : 1..8, outcome : {"reading", "exported", "not_found", "failed"}]
         /\ exporter'.outcome = "reading" => exporter'.at <= 7
         /\ exporter'.outcome = "exported" => exporter'.at = 8
         /\ source' = source
         /\ part = "run" => exporter.at = 1
         /\ part = "events" => exporter.at = 2
         /\ part = "revisions" => exporter.at = 3
         /\ part = "artifacts" => exporter.at = 4
         /\ part = "attempts" => exporter.at = 5
         /\ part = "receipts" => exporter.at = 6
         /\ part = "approvals" => exporter.at = 7
  <1>1. exporter.at \in 1..7 /\ Order[exporter.at] = part /\ source' = source
    BY DEF BundleInv, Statement
  <1>2. exporter' = [at |-> exporter.at + 1,
                    outcome |-> IF exporter.at = 7 THEN "exported" ELSE "reading"]
    BY StatementOrder DEF Statement
  <1>3. \A i \in 1..7 : i = 1 \/ i = 2 \/ i = 3 \/ i = 4 \/ i = 5 \/ i = 6 \/ i = 7
    OBVIOUS
  <1>4. /\ exporter'.at = exporter.at + 1
        /\ exporter' \in [at : 1..8, outcome : {"reading", "exported", "not_found", "failed"}]
        /\ exporter'.outcome = "reading" => exporter'.at <= 7
        /\ exporter'.outcome = "exported" => exporter'.at = 8
    BY <1>1, <1>2
  <1>. QED
    BY <1>1, <1>3, <1>4, StatementOrder

\* Rows of a kind are read: all that the events name of it are there.
LEMMA RowsStep ==
  ASSUME SourceInv, BundleInv, NEW kind \in Kinds, Statement(kind),
         bundle' = [bundle EXCEPT !.rows[kind] = source.rows[kind]]
  PROVE  BundleInv'
  <1>1. /\ exporter.at \in 3..7 /\ exporter'.at = exporter.at + 1 /\ source' = source
        /\ exporter' \in [at : 1..8, outcome : {"reading", "exported", "not_found", "failed"}]
        /\ exporter'.outcome = "reading" => exporter'.at <= 7
        /\ exporter'.outcome = "exported" => exporter'.at = 8
        /\ kind = "revisions" <=> exporter.at = 3
        /\ kind = "artifacts" <=> exporter.at = 4
        /\ kind = "attempts" <=> exporter.at = 5
        /\ kind = "receipts" <=> exporter.at = 6
        /\ kind = "approvals" <=> exporter.at = 7
    BY StatementAt DEF Kinds
  <1>2. /\ bundle \in Bundles /\ source.rows \in [Kinds -> SUBSET Nat]
        /\ bundle.rows \in [Kinds -> SUBSET Nat]
    BY DEF SourceInv, BundleInv, Bundles, Sources
  <1>3. /\ bundle' \in Bundles /\ bundle'.run = bundle.run /\ bundle'.events = bundle.events
        /\ bundle'.rows = [bundle.rows EXCEPT ![kind] = source.rows[kind]]
    BY <1>2 DEF Bundles
  <1>4. PICK r \in [Kinds -> SUBSET Nat] :
          /\ r = bundle'.rows /\ r[kind] = source.rows[kind]
          /\ \A k \in Kinds : k # kind => r[k] = bundle.rows[k]
    BY <1>2, <1>3
  <1>5. \A k \in Kinds : r[k] \subseteq source.rows[k] /\ bundle.rows[k] \subseteq r[k]
    BY <1>4 DEF BundleInv
  <1>6. ASSUME NEW i \in 1..Len(bundle.events), bundle.events[i].kind = kind
        PROVE  bundle.events[i].id \in r[kind]
    BY <1>4, <1>6 DEF BundleInv, Names, Kinds
  <1>7. \A i \in 1..Len(bundle.events) :
          LET k == bundle.events[i].kind IN
          /\ k = "revisions" /\ exporter'.at > 3 => bundle.events[i].id \in r[k]
          /\ k = "artifacts" /\ exporter'.at > 4 => bundle.events[i].id \in r[k]
          /\ k = "attempts" /\ exporter'.at > 5 => bundle.events[i].id \in r[k]
          /\ k = "receipts" /\ exporter'.at > 6 => bundle.events[i].id \in r[k]
          /\ k = "approvals" /\ exporter'.at > 7 => bundle.events[i].id \in r[k]
    <2>. SUFFICES ASSUME NEW i \in 1..Len(bundle.events), NEW k, k = bundle.events[i].kind
                  PROVE  /\ k = "revisions" /\ exporter'.at > 3 => bundle.events[i].id \in r[k]
                         /\ k = "artifacts" /\ exporter'.at > 4 => bundle.events[i].id \in r[k]
                         /\ k = "attempts" /\ exporter'.at > 5 => bundle.events[i].id \in r[k]
                         /\ k = "receipts" /\ exporter'.at > 6 => bundle.events[i].id \in r[k]
                         /\ k = "approvals" /\ exporter'.at > 7 => bundle.events[i].id \in r[k]
      OBVIOUS
    <2>1. CASE k = kind
      BY <1>6, <2>1
    <2>2. CASE k # kind
      <3>1. /\ k = "revisions" /\ exporter.at > 3 => bundle.events[i].id \in bundle.rows[k]
            /\ k = "artifacts" /\ exporter.at > 4 => bundle.events[i].id \in bundle.rows[k]
            /\ k = "attempts" /\ exporter.at > 5 => bundle.events[i].id \in bundle.rows[k]
            /\ k = "receipts" /\ exporter.at > 6 => bundle.events[i].id \in bundle.rows[k]
            /\ k = "approvals" /\ exporter.at > 7 => bundle.events[i].id \in bundle.rows[k]
        BY DEF BundleInv
      <3>. QED
        BY <1>1, <1>5, <2>2, <3>1 DEF Kinds
    <2>. QED
      BY <2>1, <2>2
  <1>8. exporter'.at > 4 /\ bundle.run.status = "COMPLETED" => r["artifacts"] # {}
    <2>1. CASE kind = "artifacts"
      BY <1>4, <2>1 DEF BundleInv, SourceInv
    <2>2. CASE kind # "artifacts"
      BY <1>1, <1>4, <2>2 DEF BundleInv, Kinds
    <2>. QED
      BY <2>1, <2>2
  <1>9. exporter'.at > 5 => r["artifacts"] \subseteq r["attempts"]
    <2>1. CASE kind = "attempts"
      BY <1>4, <1>5, <2>1 DEF SourceInv, Kinds
    <2>2. CASE kind # "attempts"
      BY <1>1, <1>4, <2>2 DEF BundleInv, Kinds
    <2>. QED
      BY <2>1, <2>2
  <1>10. exporter'.at > 2 => Len(bundle.events) >= bundle.run.seq
    BY <1>1 DEF BundleInv
  <1>. QED
    BY <1>1, <1>3, <1>4, <1>5, <1>7, <1>8, <1>9, <1>10 DEF BundleInv

\* The run row and its events are read, or the export ends.
LEMMA StatementStep ==
  ASSUME SourceInv, BundleInv, ReadRun \/ ReadEvents \/ RunNotFound \/ ContentIsRefused
  PROVE  BundleInv'
  <1>1. /\ bundle \in Bundles /\ source \in Sources /\ Len(source.events) \in Nat
        /\ source.events \in Seq(Entries) /\ source.status \in SourceStatus
        /\ Names(source.events, source.rows)
    BY DEF SourceInv, BundleInv, Sources
  <1>2. CASE ReadRun
    <2>1. /\ exporter.at = 1 /\ exporter'.at = 2 /\ source' = source
          /\ exporter' \in [at : 1..8, outcome : {"reading", "exported", "not_found", "failed"}]
          /\ exporter'.outcome # "exported"
      BY <1>2, StatementAt DEF ReadRun
    <2>2. /\ bundle' \in Bundles /\ bundle'.rows = bundle.rows /\ bundle'.events = bundle.events
          /\ bundle'.run.status = source.status /\ bundle'.run.seq = Len(source.events)
      BY <1>1, <1>2 DEF ReadRun, Bundles
    <2>. QED
      BY <1>1, <2>1, <2>2 DEF BundleInv
  <1>3. CASE ReadEvents
    <2>1. /\ exporter.at = 2 /\ exporter'.at = 3 /\ source' = source
          /\ exporter' \in [at : 1..8, outcome : {"reading", "exported", "not_found", "failed"}]
          /\ exporter'.outcome # "exported"
      BY <1>3, StatementAt DEF ReadEvents
    <2>2. /\ bundle' \in Bundles /\ bundle'.rows = bundle.rows /\ bundle'.run = bundle.run
          /\ bundle'.events = source.events
      BY <1>1, <1>3 DEF ReadEvents, Bundles
    <2>3. bundle.run.seq \in Nat
      BY <1>1 DEF Bundles
    <2>. QED
      BY <1>1, <2>1, <2>2, <2>3 DEF BundleInv
  <1>4. CASE RunNotFound \/ ContentIsRefused
    <2>1. PICK o \in {"not_found", "failed"} :
            exporter' = [exporter EXCEPT !.outcome = o] /\ UNCHANGED <<source, bundle>>
      BY <1>4 DEF RunNotFound, ContentIsRefused, Ends
    <2>2. /\ exporter' \in [at : 1..8, outcome : {"reading", "exported", "not_found", "failed"}]
          /\ exporter'.at = exporter.at /\ exporter'.outcome = o
      BY <2>1 DEF BundleInv
    <2>. QED
      BY <2>1, <2>2 DEF BundleInv
  <1>. QED
    BY <1>2, <1>3, <1>4

\* Between the statements of an export the run goes on, and what they have read
\* names nothing that the statements to come will not find (runBundle.ts).
THEOREM RunExportInductive == RunExportSpec => [](SourceInv /\ BundleInv)
  <1>1. RunExportInit => SourceInv /\ BundleInv
    <2>. SUFFICES ASSUME RunExportInit PROVE SourceInv /\ BundleInv
      OBVIOUS
    <2>1. PICK e \in Entries : e = [kind |-> "none", id |-> 0]
      BY DEF Entries
    <2>2. <<e>> \in Seq(Entries) /\ Len(<<e>>) = 1 /\ <<e>>[1] = e
      OBVIOUS
    <2>3. NoRows \in [Kinds -> SUBSET Nat] /\ \A k \in Kinds : NoRows[k] = {}
      BY DEF NoRows
    <2>4. source \in Sources /\ source.status = "QUEUED" /\ source.events = <<e>>
          /\ source.rows = NoRows
      BY <2>1, <2>2, <2>3 DEF RunExportInit, NewSource, Sources, SourceStatus
    <2>5. Names(source.events, source.rows)
      BY <2>1, <2>2, <2>4 DEF Names
    <2>6. /\ IsFiniteSet({}) /\ Cardinality({}) = 0
          /\ "attempts" \in Kinds /\ "artifacts" \in Kinds /\ {} = 1..0
      BY FS_EmptySet DEF Kinds
    <2>7. SourceInv
      BY <2>3, <2>4, <2>5, <2>6 DEF SourceInv
    <2>8. /\ bundle \in Bundles /\ bundle.events = <<>> /\ bundle.rows = NoRows
          /\ bundle.run.seq = 0 /\ bundle.run.status = "none"
      <3>1. bundle = [run |-> [status |-> "none", seq |-> 0], events |-> <<>>, rows |-> NoRows]
        BY DEF RunExportInit
      <3>2. <<>> \in Seq(Entries)
            /\ [status |-> "none", seq |-> 0] \in [status : SourceStatus \cup {"none"}, seq : Nat]
        OBVIOUS
      <3>. QED
        BY <2>3, <3>1, <3>2 DEF Bundles
    <2>9. /\ exporter \in [at : 1..8, outcome : {"reading", "exported", "not_found", "failed"}]
          /\ exporter.at = 1 /\ exporter.outcome = "reading"
      <3>1. exporter = [at |-> 1, outcome |-> "reading"] /\ 1 \in 1..8
        BY DEF RunExportInit
      <3>. QED
        BY <3>1
    <2>10. Names(bundle.events, source.rows)
      BY <2>8 DEF Names
    <2>11. 0 <= Len(source.events)
      BY <2>2, <2>4
    <2>. QED
      BY <2>3, <2>4, <2>7, <2>8, <2>9, <2>10, <2>11 DEF BundleInv
  <1>2. SourceInv /\ BundleInv /\ [RunExportNext]_exportVars => (SourceInv /\ BundleInv)'
    <2>. SUFFICES ASSUME SourceInv, BundleInv, [RunExportNext]_exportVars
                  PROVE  SourceInv' /\ BundleInv'
      OBVIOUS
    <2>1. CASE UNCHANGED exportVars
      BY <2>1 DEF exportVars, SourceInv, BundleInv
    <2>2. CASE \/ AttemptStarts \/ ToolStarts \/ ApprovalIsAsked \/ SourceRequeued
               \/ SnapshotIsSaved \/ SourceCompletes
      <3>1. SourceInv' /\ Extends(source, source') /\ UNCHANGED <<bundle, exporter>>
        BY <2>2, SourceStep
      <3>2. Len(source.events) \in Nat /\ Len(source'.events) \in Nat
        BY <3>1 DEF SourceInv, Sources
      <3>. QED
        BY <3>1, <3>2, SourceGoesOn
    <2>3. CASE ReadRun \/ ReadEvents \/ RunNotFound \/ ContentIsRefused
      <3>1. source' = source
        BY <2>3 DEF ReadRun, ReadEvents, RunNotFound, ContentIsRefused, Statement, Ends
      <3>. QED
        BY <2>3, <3>1, StatementStep DEF SourceInv
    <2>4. CASE \/ ReadRevisions \/ ReadArtifacts
               \/ \E kind \in {"attempts", "receipts", "approvals"} : ReadRows(kind)
      <3>1. PICK kind \in Kinds :
              Statement(kind) /\ bundle' = [bundle EXCEPT !.rows[kind] = source.rows[kind]]
        BY <2>4 DEF ReadRevisions, ReadArtifacts, ReadRows, Kinds
      <3>2. source' = source
        BY <3>1 DEF Statement
      <3>. QED
        BY <3>1, <3>2, RowsStep DEF SourceInv
    <2>. QED
      BY <2>1, <2>2, <2>3, <2>4 DEF RunExportNext
  <1>. QED
    BY <1>1, <1>2, PTL DEF RunExportSpec

\* However the run goes on between the statements of an export, what they give
\* holds together (runBundle.ts:10-11).
THEOREM ExportsHold == RunExportSpec => []ExportsHoldTogether
  <1>1. BundleInv => ExportsHoldTogether
    <2>. SUFFICES ASSUME BundleInv, exporter.outcome = "exported" PROVE ExportsHoldTogether
      BY DEF ExportsHoldTogether
    <2>1. /\ exporter.at = 8 /\ bundle \in Bundles /\ bundle.events \in Seq(Entries)
      BY DEF BundleInv, Bundles
    <2>2. /\ Importable /\ Len(bundle.events) >= bundle.run.seq
          /\ bundle.run.status = "COMPLETED" => bundle.rows["artifacts"] # {}
      BY <2>1 DEF BundleInv, Importable
    <2>3. ASSUME NEW i \in DOMAIN bundle.events, bundle.events[i].kind # "none"
          PROVE  bundle.events[i].id \in bundle.rows[bundle.events[i].kind]
      <3>1. i \in 1..Len(bundle.events) /\ bundle.events[i] \in Entries
        BY <2>1
      <3>2. bundle.events[i].kind \in {"attempts", "receipts", "approvals", "revisions", "artifacts"}
        BY <2>3, <3>1 DEF Entries, Kinds
      <3>. QED
        BY <2>1, <3>1, <3>2 DEF BundleInv
    <2>. QED
      BY <2>2, <2>3 DEF ExportsHoldTogether
  <1>. QED
    BY <1>1, RunExportInductive, PTL
==============================================================================
