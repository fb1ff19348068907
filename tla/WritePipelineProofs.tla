------------------------ MODULE WritePipelineProofs ------------------------
(***************************************************************************)
(* Proofs about WritePipeline.tla, for any accounts, any writes, any       *)
(* capacity of the pipeline and any number of breaks.                      *)
(*                                                                         *)
(* The three invariants of the runs are inductive together with two facts  *)
(* about the stream, one about the next batch id, and one that comes from  *)
(* the abstract queue: no write waits in two places.  That one is not proved again: every step of the   *)
(* pipeline is shown to be a step of WriteQueue.tla or to leave its        *)
(* variables alone, so the invariant of WriteQueueProofs.tla holds of the  *)
(* rows on disk.                                                           *)
(***************************************************************************)
EXTENDS WritePipeline, SequenceFacts, SequenceTheorems, WellFoundedInduction

\* Rows in the order of their keys.
Sorted(rows) == \A i, j \in DOMAIN rows : i < j => rows[i].id < rows[j].id

\* The first rows of a table.
IsPrefixOf(pipe, rows) ==
  /\ Len(pipe) <= Len(rows)
  /\ \A i \in DOMAIN pipe : pipe[i] = rows[i]

\* The writes of a table of rows, the queue that WriteQueue.tla speaks of.
WritesOf(rows) == [i \in DOMAIN rows |-> rows[i].write]

\* A stream that is being opened is needed, and so is its handshake.
StreamIsWanted ==
  stream \in {"Starting", "Backoff"} \/ (stream = "Open" /\ ~handshake) => pipeline # <<>>

\* Only an open stream has had its handshake.
HandshakeIsOpen == handshake => stream = "Open"

\* The theorems of WriteQueueProofs.tla about the rows on disk.
WQP == INSTANCE WriteQueueProofs WITH
         queue  <- [u \in Users |-> [i \in DOMAIN mutationQueue[u] |->
                                       mutationQueue[u][i].write]],
         cursor <- Acked

\* Batch ids start at one.
NextBatchIdIsPositive == nextBatchId # 0

PipelineInv ==
  /\ TypeOK
  /\ PipelineAgrees
  /\ HandlersFindTheirRows
  /\ StreamIsWanted
  /\ HandshakeIsOpen
  /\ NextBatchIdIsPositive

-----------------------------------------------------------------------------
\* A table of batches, row by row.
LEMMA RowFacts ==
  ASSUME NEW rows \in Seq(Batch)
  PROVE  /\ Len(rows) \in Nat /\ DOMAIN rows = 1 .. Len(rows)
         /\ \A i \in 1 .. Len(rows) : rows[i] \in Batch
         /\ \A i \in 1 .. Len(rows) : rows[i].id \in Nat /\ rows[i].id \in Int
         /\ \A i \in 1 .. Len(rows) : rows[i].write \in Writes
<1>1. /\ Len(rows) \in Nat /\ DOMAIN rows = 1 .. Len(rows)
      /\ \A i \in 1 .. Len(rows) : rows[i] \in Batch
  OBVIOUS
<1>2. \A b \in Batch : b.id \in Nat /\ b.id \in Int /\ b.write \in Writes
  BY DEF Batch
<1> QED
  BY <1>1, <1>2

\* The lesser of two numbers.
LEMMA MinOfFacts ==
  ASSUME NEW a \in Nat, NEW b \in Nat
  PROVE  /\ MinOf(a, b) \in Nat
         /\ MinOf(a, b) <= a /\ MinOf(a, b) <= b
         /\ \A n \in Nat : n <= a /\ n <= b => n <= MinOf(a, b)
BY DEF MinOf

\* What PositionAfter looks for.
IsPositionAfter(rows, id, p) ==
  /\ p \in 1 .. Len(rows) + 1
  /\ \A i \in 1 .. p - 1 : rows[i].id <= id
  /\ p <= Len(rows) => rows[p].id > id

\* The position that PositionAfter chooses is the only one there is.
LEMMA PositionIs ==
  ASSUME NEW rows \in Seq(Batch), NEW id \in Int, NEW p, IsPositionAfter(rows, id, p)
  PROVE  PositionAfter(rows, id) = p
<1>1. Len(rows) \in Nat /\ \A i \in 1 .. Len(rows) : rows[i].id \in Int
  BY RowFacts
<1>2. PICK q : q = PositionAfter(rows, id)
  OBVIOUS
<1>3. IsPositionAfter(rows, id, q)
  BY <1>2 DEF PositionAfter, IsPositionAfter
<1>4. ~(q < p)
  BY <1>1, <1>3 DEF IsPositionAfter
<1>5. ~(p < q)
  BY <1>1, <1>3 DEF IsPositionAfter
<1> QED
  BY <1>2, <1>3, <1>4, <1>5 DEF IsPositionAfter

\* A row whose id is above all others is put at the end.
LEMMA PutLast ==
  ASSUME NEW rows \in Seq(Batch), NEW row \in Batch,
         \A i \in DOMAIN rows : rows[i].id < row.id
  PROVE  Put(rows, row) = Append(rows, row)
<1>1. /\ row.id \in Nat /\ Len(rows) \in Nat
      /\ \A i \in 1 .. Len(rows) : rows[i].id \in Nat /\ rows[i].id < row.id
  BY RowFacts DEF Batch
<1>2. IsPositionAfter(rows, row.id - 1, Len(rows) + 1)
  BY <1>1 DEF IsPositionAfter
<1>3. IsPositionAfter(rows, row.id, Len(rows) + 1)
  BY <1>1 DEF IsPositionAfter
<1>4. row.id - 1 \in Int /\ row.id \in Int
  BY <1>1
<1>5. /\ PositionAfter(rows, row.id - 1) = Len(rows) + 1
      /\ PositionAfter(rows, row.id) = Len(rows) + 1
  BY <1>2, <1>3, <1>4, PositionIs
<1>6. Len(rows) + 1 - 1 = Len(rows)
  BY <1>1
<1>7. /\ SubSeq(rows, 1, Len(rows) + 1 - 1) = rows
      /\ SubSeq(rows, Len(rows) + 1, Len(rows)) = <<>>
  BY <1>1, <1>6, SubSeqFull, SubSeqEmpty
<1>8. Put(rows, row) = (SubSeq(rows, 1, Len(rows) + 1 - 1) \o <<row>>)
                         \o SubSeq(rows, Len(rows) + 1, Len(rows))
  BY <1>5 DEF Put
<1>9. Put(rows, row) = (rows \o <<row>>) \o <<>>
  BY <1>7, <1>8, Zenon
<1> QED
  BY <1>9

\* Deleting by the key of the first row takes the first row and no other.
LEMMA DeleteFirst ==
  ASSUME NEW rows \in Seq(Batch), Sorted(rows), rows # <<>>
  PROVE  Delete(rows, rows[1].id) = Tail(rows)
<1>1. /\ Len(rows) \in Nat \ {0} /\ DOMAIN rows = 1 .. Len(rows)
      /\ \A i \in 1 .. Len(rows) : rows[i].id \in Nat
  BY RowFacts
<1>2. rows[1].id \in Int /\ rows[1].id - 1 \in Int
  BY <1>1
<1>3. IsPositionAfter(rows, rows[1].id - 1, 1)
  BY <1>1 DEF IsPositionAfter
<1>4. IsPositionAfter(rows, rows[1].id, 2)
  BY <1>1 DEF IsPositionAfter, Sorted
<1>5. /\ PositionAfter(rows, rows[1].id - 1) = 1
      /\ PositionAfter(rows, rows[1].id) = 2
  BY <1>2, <1>3, <1>4, PositionIs
<1>6. SubSeq(rows, 1, 1 - 1) = <<>> /\ SubSeq(rows, 2, Len(rows)) = Tail(rows)
  BY <1>1
<1>7. Delete(rows, rows[1].id) = <<>> \o Tail(rows)
  BY <1>5, <1>6 DEF Delete
<1> QED
  BY <1>7

\* FillWritePipeline's loop makes a prefix of the table a prefix that is as long
\* as the pipeline and the table allow; what was there stays in front.
LEMMA RefilledFacts ==
  ASSUME NEW rows \in Seq(Batch), Sorted(rows), NEW pipe \in Seq(Batch),
         IsPrefixOf(pipe, rows), Len(pipe) <= kMaxPendingWrites
  PROVE  /\ Refilled(pipe, rows) \in Seq(Batch)
         /\ Len(Refilled(pipe, rows)) = MinOf(kMaxPendingWrites, Len(rows))
         /\ Len(pipe) <= Len(Refilled(pipe, rows))
         /\ IsPrefixOf(Refilled(pipe, rows), rows)
         /\ \A i \in DOMAIN pipe : Refilled(pipe, rows)[i] = pipe[i]
<1>1. /\ kMaxPendingWrites \in Nat /\ Len(pipe) \in Nat /\ Len(rows) \in Nat
      /\ DOMAIN pipe = 1 .. Len(pipe) /\ DOMAIN rows = 1 .. Len(rows)
      /\ Len(pipe) <= Len(rows)
      /\ \A i \in 1 .. Len(rows) : rows[i].id \in Nat
      /\ \A i \in 1 .. Len(pipe) : pipe[i] = rows[i]
  BY PipelineAssumption, RowFacts DEF IsPrefixOf
<1>2. PICK n \in Nat : n = Len(pipe)
  BY <1>1
<1>3. PICK last : last = IF pipe = <<>> THEN kBatchIdUnknown ELSE pipe[Len(pipe)].id
  OBVIOUS
<1>4. last \in Int /\ (n > 0 => last = rows[n].id) /\ (n = 0 => last = -1)
  <2>1. CASE pipe = <<>>
    BY <2>1, <1>1, <1>2, <1>3 DEF kBatchIdUnknown
  <2>2. CASE pipe # <<>>
    <3>1. n > 0
      BY <2>2, <1>2
    <3> QED
      BY <2>2, <3>1, <1>1, <1>2, <1>3
  <2> QED
    BY <2>1, <2>2
<1>5. IsPositionAfter(rows, last, n + 1)
  <2>1. n + 1 \in 1 .. Len(rows) + 1
    BY <1>1, <1>2
  <2>2. \A i \in 1 .. n : rows[i].id <= last
    BY <1>1, <1>2, <1>4 DEF Sorted
  <2>3. n + 1 <= Len(rows) => rows[n + 1].id > last
    BY <1>1, <1>2, <1>4, SMTT(30) DEF Sorted
  <2> QED
    BY <2>1, <2>2, <2>3, <1>2 DEF IsPositionAfter
<1>6. PositionAfter(rows, last) = n + 1
  BY <1>4, <1>5, PositionIs
<1>7. PICK m : m = MinOf(n + 1 + (kMaxPendingWrites - n) - 1, Len(rows))
  OBVIOUS
<1>8. m = MinOf(kMaxPendingWrites, Len(rows)) /\ m \in Nat /\ n <= m /\ m <= Len(rows)
  <2>1. n + 1 + (kMaxPendingWrites - n) - 1 = kMaxPendingWrites /\ n <= kMaxPendingWrites
    BY <1>1, <1>2
  <2>2. m = MinOf(kMaxPendingWrites, Len(rows))
    BY <2>1, <1>7
  <2>3. n \in Nat /\ n <= kMaxPendingWrites /\ n <= Len(rows)
    BY <2>1, <1>1, <1>2
  <2> QED
    BY <2>2, <2>3, <1>1, MinOfFacts
<1>9. PICK new : new = SubSeq(rows, n + 1, m)
  OBVIOUS
<1>10. Refilled(pipe, rows) = pipe \o new
  BY <1>2, <1>3, <1>6, <1>7, <1>9 DEF Refilled
<1>11. /\ new \in Seq(Batch)
       /\ Len(new) = m - n
       /\ \A i \in 1 .. m - n : new[i] = rows[n + i]
  BY <1>1, <1>2, <1>8, <1>9, SMTT(30)
<1>12. PICK f : f = pipe \o new
  OBVIOUS
<1>13. /\ f \in Seq(Batch)
       /\ Len(f) = m
       /\ DOMAIN f = 1 .. m
       /\ \A i \in 1 .. n : f[i] = pipe[i]
       /\ \A i \in 1 .. m - n : f[n + i] = new[i]
  <2>1. /\ f \in Seq(Batch) /\ DOMAIN new = 1 .. Len(new)
        /\ DOMAIN f = 1 .. n + Len(new)
        /\ \A i \in DOMAIN pipe : f[i] = pipe[i]
        /\ \A i \in DOMAIN new : f[n + i] = new[i]
    BY <1>2, <1>11, <1>12, ConcatFacts
  <2>2. n + Len(new) = m /\ Len(f) = m
    BY <2>1, <1>2, <1>8, <1>11
  <2> QED
    BY <2>1, <2>2, <1>1, <1>2, <1>11
<1>14. \A i \in 1 .. m : f[i] = rows[i]
  <2> TAKE i \in 1 .. m
  <2>1. CASE i <= n
    BY <2>1, <1>1, <1>2, <1>8, <1>13, SMTT(30)
  <2>2. CASE i > n
    <3>1. i - n \in 1 .. m - n /\ n + (i - n) = i
      BY <2>2, <1>2, <1>8
    <3> QED
      BY <3>1, <1>11, <1>13
  <2> QED
    BY <2>1, <2>2, <1>2, <1>8
<1> QED
  BY <1>1, <1>2, <1>8, <1>10, <1>12, <1>13, <1>14 DEF IsPrefixOf

\* What FillWritePipeline leaves behind: a prefix of the rows with the given
\* pipeline in front, and on a stream whose handshake is done the new batches on
\* the wire behind those already sent.
Filled(pipe, rows, state, shaken, sent, timer) ==
  /\ pipeline' \in Seq(Batch)
  /\ Len(pipeline') <= kMaxPendingWrites
  /\ Len(pipe) <= Len(pipeline')
  /\ IsPrefixOf(pipeline', rows)
  /\ \A i \in DOMAIN pipe : pipeline'[i] = pipe[i]
  /\ rows # <<>> => pipeline' # <<>>
  /\ stream' = Started(state, pipeline') /\ stream' \in StreamState
  /\ handshake' = shaken
  /\ idle' \in BOOLEAN
  /\ idle' => timer \/ (pipeline' = <<>> /\ state = "Open")
  /\ idle' /\ state = "Open" /\ shaken => Len(pipeline') = Len(pipe)
  /\ wire' \in Seq(Batch)
  /\ ~(state = "Open" /\ shaken) => wire' = sent
  /\ state = "Open" /\ shaken =>
       /\ Len(wire') = Len(sent) + Len(pipeline') - Len(pipe)
       /\ \A i \in 1 .. Len(sent) : wire'[i] = sent[i]
       /\ \A i \in 1 .. Len(pipeline') - Len(pipe) :
            wire'[Len(sent) + i] = pipeline'[Len(pipe) + i]

LEMMA FillFacts ==
  ASSUME NEW pipe \in Seq(Batch), NEW rows \in Seq(Batch), NEW state \in StreamState,
         NEW shaken \in BOOLEAN, NEW sent \in Seq(Batch), NEW timer \in BOOLEAN,
         Sorted(rows), IsPrefixOf(pipe, rows), Len(pipe) <= kMaxPendingWrites,
         FillWritePipeline(pipe, rows, state, shaken, sent, timer)
  PROVE  Filled(pipe, rows, state, shaken, sent, timer)
<1>1. PICK f : f = Refilled(pipe, rows)
  OBVIOUS
<1>2. /\ f \in Seq(Batch)
      /\ Len(f) = MinOf(kMaxPendingWrites, Len(rows))
      /\ Len(pipe) <= Len(f)
      /\ IsPrefixOf(f, rows)
      /\ \A i \in DOMAIN pipe : f[i] = pipe[i]
  BY <1>1, RefilledFacts
<1>3. /\ kMaxPendingWrites \in Nat \ {0} /\ Len(f) \in Nat
      /\ Len(pipe) \in Nat /\ Len(rows) \in Nat /\ Len(sent) \in Nat
      /\ DOMAIN f = 1 .. Len(f)
  BY <1>2, PipelineAssumption
<1>4. Len(f) <= kMaxPendingWrites
  BY <1>2, <1>3, MinOfFacts
<1>5. rows # <<>> => f # <<>>
  <2> SUFFICES ASSUME rows # <<>> PROVE f # <<>>
    OBVIOUS
  <2>1. 1 \in Nat /\ 1 <= kMaxPendingWrites /\ 1 <= Len(rows)
    BY <1>3
  <2>2. 1 <= Len(f)
    BY <2>1, <1>2, <1>3, MinOfFacts
  <2> QED
    BY <2>2, <1>3
<1>6. PICK new : new = SubSeq(f, Len(pipe) + 1, Len(f))
  OBVIOUS
<1>7. /\ new \in Seq(Batch)
      /\ Len(new) = Len(f) - Len(pipe)
      /\ \A i \in 1 .. Len(f) - Len(pipe) : new[i] = f[Len(pipe) + i]
  BY <1>2, <1>3, <1>6, SMTT(30)
<1>8. /\ pipeline' = f
      /\ stream' = Started(state, f)
      /\ handshake' = shaken
      /\ wire' = IF state = "Open" /\ shaken THEN sent \o new ELSE sent
      /\ idle' = IF state = "Open" /\ shaken /\ new # <<>> THEN FALSE
                 ELSE timer \/ (f = <<>> /\ state = "Open")
  BY <1>1, <1>6 DEF FillWritePipeline
<1>9. stream' \in StreamState
  BY <1>8 DEF Started, StreamState
<1>10. /\ idle' \in BOOLEAN
       /\ idle' => timer \/ (f = <<>> /\ state = "Open")
       /\ idle' /\ state = "Open" /\ shaken => new = <<>>
  BY <1>8
<1>11. new = <<>> => Len(f) = Len(pipe)
  BY <1>3, <1>7
<1>12. PICK s : s = sent \o new
  OBVIOUS
<1>13. /\ s \in Seq(Batch)
       /\ Len(s) = Len(sent) + Len(new) /\ Len(new) \in Nat
       /\ DOMAIN sent = 1 .. Len(sent) /\ DOMAIN new = 1 .. Len(new)
       /\ \A i \in DOMAIN sent : s[i] = sent[i]
       /\ \A i \in DOMAIN new : s[Len(sent) + i] = new[i]
  <2>1. new \in Seq(Batch) /\ sent \in Seq(Batch)
    BY <1>7
  <2> QED
    BY <2>1, <1>12, ConcatFacts
<1>14. /\ Len(s) = Len(sent) + Len(f) - Len(pipe)
       /\ \A i \in 1 .. Len(sent) : s[i] = sent[i]
       /\ \A i \in 1 .. Len(f) - Len(pipe) : s[Len(sent) + i] = f[Len(pipe) + i]
  <2>1. /\ Len(s) \in Nat /\ Len(new) \in Nat
        /\ Len(s) = Len(sent) + Len(new)
    BY <1>3, <1>7, <1>13
  <2>2. Len(s) = Len(sent) + Len(f) - Len(pipe)
    BY <2>1, <1>3, <1>7
  <2>3. \A i \in 1 .. Len(f) - Len(pipe) : s[Len(sent) + i] = new[i]
    BY <1>7, <1>13
  <2> QED
    BY <2>2, <2>3, <1>7, <1>13
<1>15. /\ wire' \in Seq(Batch)
       /\ ~(state = "Open" /\ shaken) => wire' = sent
       /\ state = "Open" /\ shaken => wire' = s
  BY <1>8, <1>12, <1>13
<1> QED
  BY <1>2, <1>4, <1>5, <1>8, <1>9, <1>10, <1>11, <1>14, <1>15 DEF Filled

\* How many of the responses report a commit, for any responses.
AckedIn(r) == IF \A i \in DOMAIN r : r[i].ok THEN Len(r) ELSE Len(r) - 1

\* The parts of the state that the pipeline and the stream own.
StreamTypes ==
  /\ pipeline \in Seq(Batch)
  /\ stream \in StreamState
  /\ handshake \in BOOLEAN
  /\ idle \in BOOLEAN
  /\ wire \in Seq(Batch)
  /\ responses \in Seq(Response)

StreamInv == StreamTypes /\ PipelineAgrees /\ StreamIsWanted /\ HandshakeIsOpen

\* Without responses, nothing is acknowledged.
LEMMA NothingAcked ==
  /\ responses = <<>> => StreamAlive /\ Acked = 0
  /\ responses' = <<>> => StreamAlive' /\ Acked' = 0
BY DEF StreamAlive, Acked

\* A stream that is not open, with nothing on it, keeps the invariant when the
\* pipeline is a prefix of the rows.
LEMMA ClosedInv ==
  ASSUME pipeline' \in Seq(Batch), Len(pipeline') <= kMaxPendingWrites,
         IsPrefixOf(pipeline', mutationQueue'[current']),
         NEW s \in {"Initial", "Error"}, stream' = Started(s, pipeline'),
         handshake' = FALSE, idle' = FALSE, wire' = <<>>, responses' = <<>>
  PROVE  StreamInv'
<1>1. stream' \in StreamState /\ stream' # "Open"
      /\ (stream' \in {"Starting", "Backoff"} => pipeline' # <<>>)
  <2>1. CASE pipeline' = <<>>
    BY <2>1 DEF Started, StreamState
  <2>2. CASE pipeline' # <<>> /\ s = "Initial"
    BY <2>2 DEF Started, StreamState
  <2>3. CASE pipeline' # <<>> /\ s = "Error"
    BY <2>3 DEF Started, StreamState
  <2> QED
    BY <2>1, <2>2, <2>3
<1>2. StreamTypes'
  <2>1. FALSE \in BOOLEAN /\ <<>> \in Seq(Batch) /\ <<>> \in Seq(Response)
    OBVIOUS
  <2> QED
    BY <2>1, <1>1 DEF StreamTypes
<1>3. PipelineIsQueuePrefix'
  BY DEF PipelineIsQueuePrefix, IsPrefixOf
<1>4. ResponsesMatchPipeline'
  BY NothingAcked DEF ResponsesMatchPipeline
<1>5. GracefulStopIsUnneeded' /\ StreamIsWanted' /\ HandshakeIsOpen'
  BY <1>1 DEF GracefulStopIsUnneeded, StreamIsWanted, HandshakeIsOpen
<1> QED
  BY <1>2, <1>3, <1>4, <1>5 DEF StreamInv, PipelineAgrees

\* So does refilling the pipeline behind a stream that is closed.
LEMMA RefilledClosedInv ==
  ASSUME NEW pipe \in Seq(Batch), NEW rows \in Seq(Batch), Sorted(rows),
         IsPrefixOf(pipe, rows), Len(pipe) <= kMaxPendingWrites,
         FillWritePipeline(pipe, rows, "Initial", FALSE, <<>>, FALSE),
         responses' = <<>>, rows = mutationQueue'[current']
  PROVE  StreamInv'
<1>1. "Initial" \in StreamState /\ FALSE \in BOOLEAN /\ <<>> \in Seq(Batch)
  BY DEF StreamState
<1>2. /\ pipeline' \in Seq(Batch) /\ Len(pipeline') <= kMaxPendingWrites
      /\ IsPrefixOf(pipeline', rows)
      /\ stream' = Started("Initial", pipeline')
      /\ handshake' = FALSE /\ idle' = FALSE /\ wire' = <<>>
  <2>1. Filled(pipe, rows, "Initial", FALSE, <<>>, FALSE)
    BY <1>1, FillFacts
  <2> QED
    BY <2>1 DEF Filled
<1> QED
  BY <1>2, ClosedInv

-----------------------------------------------------------------------------
\* The writes of a table, as the abstract queue sees them.
LEMMA WritesFacts ==
  ASSUME NEW rows \in Seq(Batch)
  PROVE  /\ WritesOf(rows) \in Seq(Writes)
         /\ Len(WritesOf(rows)) = Len(rows)
         /\ rows # <<>> => Head(WritesOf(rows)) = rows[1].write
         /\ rows # <<>> => WritesOf(Tail(rows)) = Tail(WritesOf(rows))
         /\ \A row \in Batch : WritesOf(Append(rows, row)) = Append(WritesOf(rows), row.write)
<1>1. /\ Len(rows) \in Nat /\ DOMAIN rows = 1 .. Len(rows)
      /\ \A i \in 1 .. Len(rows) : rows[i].write \in Writes
  BY RowFacts
<1>2. PICK q : q = WritesOf(rows)
  OBVIOUS
<1>3. q = [i \in 1 .. Len(rows) |-> rows[i].write]
  BY <1>1, <1>2 DEF WritesOf
<1>4. q \in Seq(Writes) /\ Len(q) = Len(rows) /\ DOMAIN q = 1 .. Len(rows)
  BY <1>1, <1>3
<1>5. ASSUME rows # <<>>
      PROVE  Head(q) = rows[1].write /\ WritesOf(Tail(rows)) = Tail(q)
  <2>1. Len(rows) > 0 /\ q # <<>> /\ 1 \in 1 .. Len(rows)
    BY <1>1, <1>4, <1>5
  <2>2. PICK t : t = Tail(rows)
    OBVIOUS
  <2>3. /\ DOMAIN t = 1 .. Len(rows) - 1
        /\ \A i \in 1 .. Len(rows) - 1 : t[i] = rows[i + 1]
    BY <2>2, <1>1, <1>5, TailFacts
  <2>4. PICK p : p = WritesOf(t)
    OBVIOUS
  <2>5. p = [i \in 1 .. Len(rows) - 1 |-> t[i].write]
    BY <2>3, <2>4 DEF WritesOf
  <2>6. /\ Tail(q) = [i \in 1 .. Len(rows) - 1 |-> q[i + 1]]
        /\ Head(q) = q[1]
    <3>1. PICK r : r = Tail(q)
      OBVIOUS
    <3>2. /\ r \in Seq(Writes) /\ DOMAIN r = 1 .. Len(rows) - 1
          /\ \A i \in DOMAIN r : r[i] = q[i + 1]
          /\ Head(q) = q[1]
      BY <3>1, <2>1, <1>4, TailFacts
    <3>3. r = [i \in 1 .. Len(rows) - 1 |-> r[i]]
      BY <3>2
    <3> QED
      BY <3>1, <3>2, <3>3
  <2>7. \A i \in 1 .. Len(rows) - 1 : t[i].write = q[i + 1]
    BY <2>3, <1>1, <1>3
  <2> QED
    BY <2>1, <2>2, <2>4, <2>5, <2>6, <2>7, <1>3
<1>6. ASSUME NEW row \in Batch
      PROVE  WritesOf(Append(rows, row)) = Append(q, row.write)
  <2>1. PICK t : t = Append(rows, row)
    OBVIOUS
  <2>2. /\ DOMAIN t = 1 .. Len(rows) + 1
        /\ \A i \in 1 .. Len(rows) : t[i] = rows[i]
        /\ t[Len(rows) + 1] = row
    BY <2>1, <1>1, AppendFacts
  <2>3. PICK a : a = Append(q, row.write)
    OBVIOUS
  <2>4. row.write \in Writes
    BY DEF Batch
  <2>5. /\ a \in Seq(Writes) /\ DOMAIN a = 1 .. Len(rows) + 1
        /\ \A i \in 1 .. Len(rows) : a[i] = q[i]
        /\ a[Len(rows) + 1] = row.write
    BY <2>3, <2>4, <1>4, AppendFacts
  <2>6. \A i \in 1 .. Len(rows) + 1 : a[i] = t[i].write
    BY <2>2, <2>5, <1>1, <1>3
  <2>7. a = [i \in 1 .. Len(rows) + 1 |-> a[i]]
    BY <2>5
  <2>8. WritesOf(t) = [i \in 1 .. Len(rows) + 1 |-> t[i].write]
    BY <2>2 DEF WritesOf
  <2> QED
    BY <2>1, <2>3, <2>6, <2>7, <2>8
<1> QED
  BY <1>2, <1>4, <1>5, <1>6

\* No write is in two rows: the abstract queue's PendingOnce, row by row.
RowsOnce ==
  \A u, v \in Users : \A i \in DOMAIN mutationQueue[u], j \in DOMAIN mutationQueue[v] :
    mutationQueue[u][i].write = mutationQueue[v][j].write => u = v /\ i = j

LEMMA RowsOnceOfQueue == WQP!PendingOnce => RowsOnce
<1> SUFFICES ASSUME WQP!PendingOnce,
                    NEW u \in Users, NEW v \in Users,
                    NEW i \in DOMAIN mutationQueue[u], NEW j \in DOMAIN mutationQueue[v],
                    mutationQueue[u][i].write = mutationQueue[v][j].write
             PROVE  u = v /\ i = j
  BY DEF RowsOnce
<1> DEFINE q == [x \in Users |-> [k \in DOMAIN mutationQueue[x] |->
                                    mutationQueue[x][k].write]]
<1>1. \A x, y \in Users : \A k \in DOMAIN q[x], l \in DOMAIN q[y] :
        q[x][k] = q[y][l] => x = y /\ k = l
  BY DEF WQP!PendingOnce
<1>2. /\ q[u] = [k \in DOMAIN mutationQueue[u] |-> mutationQueue[u][k].write]
      /\ q[v] = [k \in DOMAIN mutationQueue[v] |-> mutationQueue[v][k].write]
  OBVIOUS
<1> HIDE DEF q
<1>3. i \in DOMAIN q[u] /\ j \in DOMAIN q[v] /\ q[u][i] = q[v][j]
  BY <1>2
<1> QED
  BY <1>1, <1>3

\* The greatest batch id exists: of the numbers that are above all ids, the
\* least one is an id itself or zero.
LEMMA NextBatchIdIsFresh ==
  ASSUME NEW tables \in [Users -> Seq(Batch)], NEW bound \in Nat,
         \A u \in Users : \A i \in DOMAIN tables[u] : tables[u][i].id \in 1 .. bound - 1
  PROVE  /\ LoadNextBatchId(tables) \in Nat \ {0}
         /\ \A u \in Users : \A i \in DOMAIN tables[u] :
              tables[u][i].id \in 1 .. LoadNextBatchId(tables) - 1
<1>1. PICK I : I = BatchIds(tables)
  OBVIOUS
<1>2. /\ \A m \in I : m \in Nat \ {0} /\ m <= bound
      /\ \A u \in Users : \A i \in DOMAIN tables[u] : tables[u][i].id \in I
  BY <1>1 DEF BatchIds
<1>3. PICK T : T = {n \in Nat : \A m \in I : m <= n}
  OBVIOUS
<1>4. T \subseteq Nat /\ bound \in T /\ T # {}
  BY <1>2, <1>3
<1>5. PICK x \in T : \A y \in T : <<y, x>> \notin OpToRel(<, Nat)
  BY <1>4, WFMin, NatLessThanWellFounded
<1>6. \A y \in T : ~(y < x)
  BY <1>4, <1>5 DEF OpToRel
<1>7. x \in Nat /\ \A m \in I : m <= x
  BY <1>3, <1>4
<1>8. x \in I \cup {0}
  <2> SUFFICES ASSUME x \notin I \cup {0} PROVE FALSE
    OBVIOUS
  <2>1. x - 1 \in Nat /\ x - 1 < x
    BY <1>7
  <2>2. \A m \in I : m <= x - 1
    BY <1>2, <1>7
  <2>3. x - 1 \in T
    BY <2>1, <2>2, <1>3
  <2> QED
    BY <2>1, <2>3, <1>6
<1>9. PICK c : c = CHOOSE n \in I \cup {0} : \A m \in I : m <= n
  OBVIOUS
<1>10. c \in I \cup {0} /\ \A m \in I : m <= c
  BY <1>7, <1>8, <1>9
<1>11. LoadNextBatchId(tables) = 1 + c
  BY <1>1, <1>9 DEF LoadNextBatchId
<1>12. c \in Nat
  BY <1>2, <1>10
<1> QED
  BY <1>2, <1>10, <1>11, <1>12

-----------------------------------------------------------------------------
\* The abstract queue of WriteQueue.tla.
Queue == [u \in Users |-> [i \in DOMAIN mutationQueue[u] |-> mutationQueue[u][i].write]]

\* One account's rows change: so does that account's queue, and no other.
LEMMA QueueUpdate ==
  ASSUME mutationQueue \in [Users -> Seq(Batch)], current \in Users, NEW rows,
         mutationQueue' = [mutationQueue EXCEPT ![current] = rows]
  PROVE  /\ Queue[current] = WritesOf(mutationQueue[current])
         /\ Queue' = [Queue EXCEPT ![current] = WritesOf(rows)]
<1>1. Queue = [u \in Users |-> WritesOf(mutationQueue[u])]
  BY DEF Queue, WritesOf
<1>2. Queue' = [u \in Users |-> WritesOf(mutationQueue'[u])]
  BY DEF Queue, WritesOf
<1>3. \A u \in Users : mutationQueue'[u] = IF u = current THEN rows ELSE mutationQueue[u]
  OBVIOUS
<1>4. PICK f : f = [u \in Users |-> WritesOf(mutationQueue[u])]
  OBVIOUS
<1>5. PICK g : g = [u \in Users |-> WritesOf(mutationQueue'[u])]
  OBVIOUS
<1>6. \A u \in Users : g[u] = IF u = current THEN WritesOf(rows) ELSE f[u]
  BY <1>3, <1>4, <1>5
<1>7. g = [f EXCEPT ![current] = WritesOf(rows)]
  BY <1>4, <1>5, <1>6
<1>8. f[current] = WritesOf(mutationQueue[current])
  BY <1>4
<1> QED
  BY <1>1, <1>2, <1>4, <1>5, <1>7, <1>8

\* Every account's rows are ordered by id.
LEMMA RowsSorted ==
  ASSUME BatchIdsFresh, NEW u \in Users PROVE Sorted(mutationQueue[u])
BY DEF BatchIdsFresh, Sorted

\* The first row of the signed-in account is resolved: it leaves the table and
\* no other does, the handler called is the one of its write, if that is still
\* registered, and the handlers that remain keep their rows.
LEMMA PopRows ==
  ASSUME TypeOK, HandlersFindTheirRows, RowsOnce,
         NEW outcome \in {"ok", "error"}, NEW batch,
         mutationQueue[current] # <<>>, batch = mutationQueue[current][1],
         NotifyUser(batch.id, outcome),
         mutationQueue' = [mutationQueue EXCEPT
                             ![current] = Delete(mutationQueue[current], batch.id)],
         UNCHANGED <<current, nextBatchId>>
  PROVE  /\ mutationQueue' \in [Users -> Seq(Batch)]
         /\ Delete(mutationQueue[current], batch.id) = Tail(mutationQueue[current])
         /\ mutationQueue'[current'] = Tail(mutationQueue[current])
         /\ Sorted(Tail(mutationQueue[current]))
         /\ callbacks' \subseteq Handler
         /\ completion' \in [Writes -> {"unissued", "waiting", "ok", "error", "lost"}]
         /\ completion' = WQP!Notify(batch.write, outcome)
         /\ HandlersFindTheirRows'
<1> DEFINE called == {h \in callbacks : h.user = current /\ h.id = batch.id}
<1>1. /\ current \in Users /\ mutationQueue \in [Users -> Seq(Batch)]
      /\ completion \in [Writes -> {"unissued", "waiting", "ok", "error", "lost"}]
      /\ callbacks \subseteq Handler
      /\ current' = current /\ nextBatchId' = nextBatchId
  BY DEF TypeOK
<1>2. PICK rows \in Seq(Batch) : rows = mutationQueue[current]
  BY <1>1
<1>3. Sorted(rows)
  BY <1>1, <1>2, RowsSorted DEF HandlersFindTheirRows
<1>4. PICK t : t = Tail(rows)
  OBVIOUS
<1>5. /\ t \in Seq(Batch) /\ DOMAIN rows = 1 .. Len(rows) /\ Len(rows) \in Nat
      /\ 1 \in DOMAIN rows
      /\ DOMAIN t = 1 .. Len(rows) - 1
      /\ \A i \in DOMAIN t : t[i] = rows[i + 1] /\ i + 1 \in DOMAIN rows
  BY <1>2, <1>4, TailFacts
<1>6. Delete(mutationQueue[current], batch.id) = t
  BY <1>2, <1>3, <1>4, DeleteFirst
<1>7. Sorted(t)
  BY <1>3, <1>5, SMTT(30) DEF Sorted
<1>8. /\ mutationQueue' \in [Users -> Seq(Batch)]
      /\ \A u \in Users : mutationQueue'[u] = IF u = current THEN t ELSE mutationQueue[u]
  BY <1>1, <1>5, <1>6
<1>9. batch = rows[1] /\ batch \in Batch /\ batch.write \in Writes
  BY <1>2, <1>5, RowFacts
<1>10. /\ callbacks' = callbacks \ called
       /\ completion' = [w \in Writes |-> IF \E h \in called : h.write = w THEN outcome
                                                                         ELSE completion[w]]
  BY DEF NotifyUser
<1>11. \A h \in callbacks :
         /\ h.user \in Users /\ h.write \in Writes
         /\ completion[h.write] = "waiting"
         /\ \E i \in DOMAIN mutationQueue[h.user] :
              mutationQueue[h.user][i] = [id |-> h.id, write |-> h.write]
  BY <1>1 DEF HandlersFindTheirRows, HandlersArePending, Handler
\* The handler called is the one of the write.
<1>12. \A h \in called : h.write = batch.write /\ completion[h.write] = "waiting"
  <2> TAKE h \in called
  <2>1. PICK i \in DOMAIN rows : rows[i] = [id |-> batch.id, write |-> h.write]
    BY <1>2, <1>11
  <2>2. rows[i].id = rows[1].id /\ rows[i].write = h.write
    BY <2>1, <1>9
  <2>3. i = 1
    <3>1. 1 < i => rows[1].id < rows[i].id
      BY <1>3, <1>5 DEF Sorted
    <3>2. rows[1].id \in Nat /\ i \in 1 .. Len(rows)
      BY <1>5, RowFacts
    <3> QED
      BY <3>1, <3>2, <2>2
  <2> QED
    BY <2>2, <2>3, <1>9, <1>11
\* It is called if it is registered.
<1>13. \A h \in callbacks : h.write = batch.write => h \in called
  <2> SUFFICES ASSUME NEW h \in callbacks, h.write = batch.write PROVE h \in called
    OBVIOUS
  <2>1. PICK i \in DOMAIN mutationQueue[h.user] :
          mutationQueue[h.user][i] = [id |-> h.id, write |-> h.write]
    BY <1>11
  <2>2. mutationQueue[h.user][i].id = h.id /\ mutationQueue[h.user][i].write = h.write
    BY <2>1
  <2>3. h.user \in Users /\ 1 \in DOMAIN mutationQueue[current]
        /\ mutationQueue[h.user][i].write = mutationQueue[current][1].write
    BY <2>2, <1>2, <1>5, <1>9, <1>11
  <2>4. h.user = current /\ i = 1
    BY <2>3, <1>1 DEF RowsOnce
  <2> QED
    BY <2>2, <2>4
<1> HIDE DEF called
<1>14. completion[batch.write] = "waiting" => \E h \in called : h.write = batch.write
  BY <1>9, <1>13 DEF HandlersFindTheirRows, HandlersArePending
<1>15. completion' = WQP!Notify(batch.write, outcome)
  <2>1. CASE completion[batch.write] = "waiting"
    <3>1. \A w \in Writes : (\E h \in called : h.write = w) <=> w = batch.write
      BY <2>1, <1>12, <1>14
    <3>2. completion' = [w \in Writes |-> IF w = batch.write THEN outcome ELSE completion[w]]
      BY <3>1, <1>10
    <3>3. completion' = [completion EXCEPT ![batch.write] = outcome]
      BY <3>2, <1>1
    <3> QED
      BY <2>1, <3>3 DEF WQP!Notify
  <2>2. CASE completion[batch.write] # "waiting"
    <3>1. \A w \in Writes : ~(\E h \in called : h.write = w)
      BY <2>2, <1>12
    <3>2. completion' = [w \in Writes |-> completion[w]]
      BY <3>1, <1>10
    <3>3. completion' = completion
      BY <3>2, <1>1
    <3> QED
      BY <2>2, <3>3 DEF WQP!Notify
  <2> QED
    BY <2>1, <2>2
<1>16. BatchIdsFresh'
  <2>1. \A u \in Users : \A i \in DOMAIN mutationQueue'[u] :
          mutationQueue'[u][i].id \in 1 .. nextBatchId - 1
    <3> TAKE u \in Users
    <3>1. \A v \in Users : \A i \in DOMAIN mutationQueue[v] :
            mutationQueue[v][i].id \in 1 .. nextBatchId - 1
      BY DEF HandlersFindTheirRows, BatchIdsFresh
    <3>2. \A i \in DOMAIN rows : rows[i].id \in 1 .. nextBatchId - 1
      BY <3>1, <1>1, <1>2
    <3>3. \A i \in DOMAIN t : t[i].id \in 1 .. nextBatchId - 1
      BY <3>2, <1>5
    <3> QED
      BY <3>1, <3>3, <1>8
  <2>2. \A u \in Users : Sorted(mutationQueue'[u])
    BY <1>7, <1>8, RowsSorted DEF HandlersFindTheirRows
  <2> QED
    BY <2>1, <2>2, <1>1 DEF BatchIdsFresh, Sorted
<1>17. \A w \in Writes : w # batch.write => completion'[w] = completion[w]
  BY <1>10, <1>12
<1>18. \A h \in callbacks' :
         /\ completion'[h.write] = "waiting"
         /\ \E i \in DOMAIN mutationQueue'[h.user] :
              mutationQueue'[h.user][i] = [id |-> h.id, write |-> h.write]
  <2> TAKE h \in callbacks'
  <2>1. h \in callbacks /\ h \notin called
    BY <1>10
  <2>2. h.write # batch.write /\ completion'[h.write] = "waiting"
    BY <2>1, <1>11, <1>13, <1>17
  <2>3. PICK i \in DOMAIN mutationQueue[h.user] :
          mutationQueue[h.user][i] = [id |-> h.id, write |-> h.write]
    BY <2>1, <1>11
  <2>4. \E k \in DOMAIN mutationQueue'[h.user] :
          mutationQueue'[h.user][k] = [id |-> h.id, write |-> h.write]
    <3>1. CASE h.user # current
      BY <3>1, <2>1, <2>3, <1>8, <1>11
    <3>2. CASE h.user = current
      <4>1. i \in 1 .. Len(rows) /\ rows[i] = [id |-> h.id, write |-> h.write]
        BY <3>2, <2>3, <1>2, <1>5
      <4>2. rows[i].write = h.write
        BY <4>1
      <4>3. i # 1
        BY <4>2, <2>2, <1>9
      <4>4. i - 1 \in DOMAIN t /\ t[i - 1] = rows[i]
        <5>1. i - 1 \in DOMAIN t /\ (i - 1) + 1 = i
          BY <4>1, <4>3, <1>5
        <5> QED
          BY <5>1, <1>5
      <4>5. mutationQueue'[h.user] = t
        BY <3>2, <1>1, <1>8
      <4> QED
        BY <4>1, <4>4, <4>5
    <3> QED
      BY <3>1, <3>2
  <2> QED
    BY <2>2, <2>4
<1>19. \A w \in Writes : completion'[w] = "waiting" => \E h \in callbacks' : h.write = w
  <2> SUFFICES ASSUME NEW w \in Writes, completion'[w] = "waiting"
               PROVE  \E h \in callbacks' : h.write = w
    OBVIOUS
  <2>1. ~(\E h \in called : h.write = w) /\ completion[w] = "waiting"
    BY <1>10
  <2>2. PICK h \in callbacks : h.write = w
    BY <2>1 DEF HandlersFindTheirRows, HandlersArePending
  <2> QED
    BY <2>1, <2>2, <1>10
<1>20. callbacks' \subseteq Handler
  BY <1>1, <1>10
<1>21. completion' \in [Writes -> {"unissued", "waiting", "ok", "error", "lost"}]
  BY <1>1, <1>10
<1>22. HandlersFindTheirRows'
  BY <1>16, <1>18, <1>19 DEF HandlersFindTheirRows, HandlersArePending
<1>23. mutationQueue'[current'] = t
  BY <1>1, <1>8
<1> QED
  BY <1>2, <1>4, <1>6, <1>7, <1>8, <1>15, <1>20, <1>21, <1>22, <1>23

-----------------------------------------------------------------------------
\* ResponsesMatchPipeline, said of any stream, pipeline and queues.
Matching(state, shaken, pipe, sent, read) ==
  /\ read # <<>> \/ sent # <<>> => state = "Open" /\ shaken
  /\ shaken => /\ AckedIn(read) + Len(sent) = Len(pipe)
               /\ \A i \in 1 .. AckedIn(read) : /\ read[i].ok
                                                /\ read[i].batch = pipe[i]
               /\ \A i \in 1 .. Len(sent) : sent[i] = pipe[AckedIn(read) + i]
  /\ ~(\A i \in DOMAIN read : read[i].ok) =>
       /\ sent # <<>>
       /\ read[Len(read)] = [batch |-> sent[1], ok |-> FALSE]

LEMMA MatchingNow ==
  /\ ResponsesMatchPipeline <=> Matching(stream, handshake, pipeline, wire, responses)
  /\ ResponsesMatchPipeline' <=> Matching(stream', handshake', pipeline', wire', responses')
  /\ Acked = AckedIn(responses)
  /\ Acked' = AckedIn(responses')
<1>1. Acked = AckedIn(responses) /\ Acked' = AckedIn(responses')
  BY DEF Acked, AckedIn, StreamAlive
<1>2. ResponsesMatchPipeline <=> Matching(stream, handshake, pipeline, wire, responses)
  BY <1>1 DEF ResponsesMatchPipeline, Matching, StreamAlive
<1>3. ResponsesMatchPipeline' <=> Matching(stream', handshake', pipeline', wire', responses')
  BY <1>1 DEF ResponsesMatchPipeline, Matching, StreamAlive
<1> QED
  BY <1>1, <1>2, <1>3

\* The acknowledged responses are a number of them.
LEMMA AckedFacts ==
  ASSUME NEW read \in Seq(Response)
  PROVE  /\ AckedIn(read) \in Nat
         /\ Len(read) \in Nat /\ DOMAIN read = 1 .. Len(read)
         /\ (\A i \in DOMAIN read : read[i].ok) => AckedIn(read) = Len(read)
         /\ ~(\A i \in DOMAIN read : read[i].ok) => AckedIn(read) = Len(read) - 1
<1>1. Len(read) \in Nat /\ DOMAIN read = 1 .. Len(read)
  OBVIOUS
<1>2. ~(\A i \in DOMAIN read : read[i].ok) => Len(read) >= 1
  BY <1>1
<1>3. CASE \A i \in DOMAIN read : read[i].ok
  <2>1. AckedIn(read) = Len(read)
    BY <1>3 DEF AckedIn
  <2> QED
    BY <2>1, <1>1, <1>3
<1>4. CASE ~(\A i \in DOMAIN read : read[i].ok)
  <2>1. AckedIn(read) = Len(read) - 1
    BY <1>4 DEF AckedIn
  <2>2. Len(read) - 1 \in Nat
    BY <1>1, <1>2, <1>4
  <2> QED
    BY <2>1, <2>2, <1>1, <1>4
<1> QED
  BY <1>3, <1>4

\* What is added to the pipeline and to the wire is the same number of batches.
LEMMA Together ==
  ASSUME NEW a \in Nat, NEW p \in Nat, NEW q \in Nat, NEW w \in Nat, NEW v \in Nat,
         a + w = p, v = w + q - p
  PROVE  /\ a + v = q
         /\ \A i \in 1 .. v : i > w =>
              i - w \in 1 .. q - p /\ w + (i - w) = i /\ p + (i - w) = a + i
OBVIOUS

\* New batches at the end of the pipeline and at the end of the wire leave a
\* stream and a pipeline that agree.
LEMMA MatchingExtended ==
  ASSUME NEW pipe \in Seq(Batch), NEW full \in Seq(Batch),
         NEW sent \in Seq(Batch), NEW more \in Seq(Batch), NEW read \in Seq(Response),
         Matching("Open", TRUE, pipe, sent, read),
         \A i \in DOMAIN pipe : full[i] = pipe[i],
         Len(pipe) <= Len(full),
         Len(more) = Len(sent) + Len(full) - Len(pipe),
         \A i \in 1 .. Len(sent) : more[i] = sent[i],
         \A i \in 1 .. Len(full) - Len(pipe) : more[Len(sent) + i] = full[Len(pipe) + i]
  PROVE  Matching("Open", TRUE, full, more, read)
<1>1. PICK a \in Nat : a = AckedIn(read)
  BY AckedFacts
<1>2. /\ Len(pipe) \in Nat /\ Len(full) \in Nat /\ Len(sent) \in Nat /\ Len(more) \in Nat
      /\ DOMAIN pipe = 1 .. Len(pipe)
  BY RowFacts
<1>3. a + Len(sent) = Len(pipe)
  BY <1>1 DEF Matching
<1>4. /\ \A i \in 1 .. a : read[i].ok /\ read[i].batch = pipe[i]
      /\ \A i \in 1 .. Len(sent) : sent[i] = pipe[a + i]
      /\ ~(\A i \in DOMAIN read : read[i].ok) =>
           sent # <<>> /\ read[Len(read)] = [batch |-> sent[1], ok |-> FALSE]
  BY <1>1 DEF Matching
<1>5. /\ a + Len(more) = Len(full)
      /\ \A i \in 1 .. Len(more) : i > Len(sent) =>
           /\ i - Len(sent) \in 1 .. Len(full) - Len(pipe)
           /\ Len(sent) + (i - Len(sent)) = i
           /\ Len(pipe) + (i - Len(sent)) = a + i
  BY <1>2, <1>3, Together
<1>6. \A i \in 1 .. a : read[i].ok /\ read[i].batch = full[i]
  <2> TAKE i \in 1 .. a
  <2>1. i \in 1 .. Len(pipe)
    BY <1>2, <1>3
  <2>2. full[i] = pipe[i]
    BY <2>1, <1>2
  <2> QED
    BY <2>2, <1>4
<1>7. \A i \in 1 .. Len(more) : more[i] = full[a + i]
  <2> TAKE i \in 1 .. Len(more)
  <2>1. CASE i <= Len(sent)
    <3>1. i \in 1 .. Len(sent) /\ a + i \in DOMAIN pipe
      BY <2>1, <1>2, <1>3
    <3> QED
      BY <3>1, <1>4
  <2>2. CASE i > Len(sent)
    <3>1. /\ i - Len(sent) \in 1 .. Len(full) - Len(pipe)
          /\ Len(sent) + (i - Len(sent)) = i
          /\ Len(pipe) + (i - Len(sent)) = a + i
      BY <2>2, <1>5
    <3>2. more[Len(sent) + (i - Len(sent))] = full[Len(pipe) + (i - Len(sent))]
      BY <3>1
    <3> QED
      BY <3>1, <3>2
  <2> QED
    BY <2>1, <2>2, <1>2
<1>8. ASSUME ~(\A i \in DOMAIN read : read[i].ok)
      PROVE  more # <<>> /\ read[Len(read)] = [batch |-> more[1], ok |-> FALSE]
  <2>1. sent # <<>> /\ read[Len(read)] = [batch |-> sent[1], ok |-> FALSE]
    BY <1>4, <1>8
  <2>2. Len(sent) >= 1
    BY <2>1, <1>2
  <2>3. Len(more) >= 1 /\ 1 \in 1 .. Len(sent)
    BY <2>2, <1>2
  <2>4. more[1] = sent[1] /\ more # <<>>
    BY <2>3
  <2> QED
    BY <2>1, <2>4
<1> QED
  BY <1>1, <1>5, <1>6, <1>7, <1>8 DEF Matching

\* Refilling a pipeline whose stream agrees with it leaves a pipeline whose
\* stream agrees with it: the new batches are at the end of both.
LEMMA FillOpenInv ==
  ASSUME stream \in StreamState, handshake \in BOOLEAN, idle \in BOOLEAN,
         wire \in Seq(Batch), responses' \in Seq(Response),
         NEW pipe \in Seq(Batch), NEW rows \in Seq(Batch), Sorted(rows),
         IsPrefixOf(pipe, rows), Len(pipe) <= kMaxPendingWrites,
         FillWritePipeline(pipe, rows, stream, handshake, wire, idle),
         rows = mutationQueue'[current'],
         Matching(stream, handshake, pipe, wire, responses'),
         stream \in {"Starting", "Backoff"} \/ (stream = "Open" /\ ~handshake) => pipe # <<>>,
         handshake => stream = "Open",
         idle => stream = "Open" /\ handshake /\ pipe = <<>>
  PROVE  StreamInv'
<1>1. /\ pipeline' \in Seq(Batch)
      /\ Len(pipeline') <= kMaxPendingWrites
      /\ Len(pipe) <= Len(pipeline')
      /\ IsPrefixOf(pipeline', rows)
      /\ \A i \in DOMAIN pipe : pipeline'[i] = pipe[i]
      /\ stream' = Started(stream, pipeline') /\ stream' \in StreamState
      /\ handshake' = handshake
      /\ idle' \in BOOLEAN
      /\ idle' => idle \/ (pipeline' = <<>> /\ stream = "Open")
      /\ idle' /\ stream = "Open" /\ handshake => Len(pipeline') = Len(pipe)
      /\ wire' \in Seq(Batch)
      /\ ~(stream = "Open" /\ handshake) => wire' = wire
      /\ stream = "Open" /\ handshake =>
           /\ Len(wire') = Len(wire) + Len(pipeline') - Len(pipe)
           /\ \A i \in 1 .. Len(wire) : wire'[i] = wire[i]
           /\ \A i \in 1 .. Len(pipeline') - Len(pipe) :
                wire'[Len(wire) + i] = pipeline'[Len(pipe) + i]
  <2>1. Filled(pipe, rows, stream, handshake, wire, idle)
    BY FillFacts
  <2> QED
    BY <2>1 DEF Filled
<1>2. /\ stream' = "Open" <=> stream = "Open"
      /\ stream' \in {"Starting", "Backoff"} =>
           stream \in {"Starting", "Backoff"} \/ pipeline' # <<>>
  BY <1>1 DEF Started, StreamState
<1>3. pipe # <<>> => pipeline' # <<>>
  <2>1. Len(pipe) \in Nat /\ Len(pipeline') \in Nat
    BY <1>1
  <2> QED
    BY <2>1, <1>1
<1>4. StreamIsWanted'
  BY <1>1, <1>2, <1>3 DEF StreamIsWanted
<1>5. HandshakeIsOpen'
  BY <1>1, <1>2 DEF HandshakeIsOpen
<1>6. GracefulStopIsUnneeded'
  BY <1>1, <1>2 DEF GracefulStopIsUnneeded
<1>7. PipelineIsQueuePrefix'
  BY <1>1 DEF PipelineIsQueuePrefix, IsPrefixOf
<1>8. StreamTypes'
  BY <1>1 DEF StreamTypes
<1>9. Matching(stream', handshake', pipeline', wire', responses')
  <2>1. CASE ~handshake
    <3>1. wire = <<>> /\ responses' = <<>> /\ wire' = <<>>
      BY <2>1, <1>1 DEF Matching
    <3>2. \A i \in DOMAIN responses' : responses'[i].ok
      BY <3>1
    <3> QED
      BY <2>1, <3>1, <3>2, <1>1 DEF Matching
  <2>2. CASE handshake
    <3>1. stream = "Open" /\ stream' = "Open" /\ handshake'
      BY <2>2, <1>1, <1>2
    <3>2. Matching("Open", TRUE, pipe, wire, responses')
      BY <2>2, <3>1
    <3>3. Matching("Open", TRUE, pipeline', wire', responses')
      BY <2>2, <3>1, <3>2, <1>1, MatchingExtended
    <3> QED
      BY <3>1, <3>3
  <2> QED
    BY <2>1, <2>2
<1>10. ResponsesMatchPipeline'
  BY <1>9, MatchingNow
<1> QED
  BY <1>4, <1>5, <1>6, <1>7, <1>8, <1>10 DEF StreamInv, PipelineAgrees

-----------------------------------------------------------------------------
\* The part of the state that is on disk or in the process, but not the stream's.
DataTypes ==
  /\ current \in Users
  /\ mutationQueue \in [Users -> Seq(Batch)]
  /\ nextBatchId \in Nat
  /\ callbacks \subseteq Handler
  /\ committed \subseteq Writes
  /\ refused \subseteq Writes
  /\ completion \in [Writes -> {"unissued", "waiting", "ok", "error", "lost"}]
  /\ breaks \in 0 .. MaxBreaks

DataInv == DataTypes /\ HandlersFindTheirRows /\ NextBatchIdIsPositive

LEMMA Parts ==
  /\ PipelineInv <=> DataInv /\ StreamInv
  /\ PipelineInv' <=> DataInv' /\ StreamInv'
BY DEF PipelineInv, DataInv, StreamInv, TypeOK, DataTypes, StreamTypes

\* The invariant, taken apart for the steps.
LEMMA Given ==
  ASSUME PipelineInv
  PROVE  /\ TypeOK /\ DataTypes /\ StreamTypes
         /\ HandlersFindTheirRows /\ NextBatchIdIsPositive
         /\ StreamIsWanted /\ HandshakeIsOpen /\ GracefulStopIsUnneeded
         /\ Matching(stream, handshake, pipeline, wire, responses)
         /\ Len(pipeline) <= kMaxPendingWrites
         /\ IsPrefixOf(pipeline, mutationQueue[current])
         /\ mutationQueue[current] \in Seq(Batch)
         /\ Sorted(mutationQueue[current])
<1>1. TypeOK /\ DataTypes /\ StreamTypes
  BY DEF PipelineInv, TypeOK, DataTypes, StreamTypes
<1>2. Sorted(mutationQueue[current])
  BY <1>1, RowsSorted DEF PipelineInv, HandlersFindTheirRows, DataTypes
<1>3. Matching(stream, handshake, pipeline, wire, responses)
  BY MatchingNow DEF PipelineInv, PipelineAgrees
<1>4. Len(pipeline) <= kMaxPendingWrites /\ IsPrefixOf(pipeline, mutationQueue[current])
  BY DEF PipelineInv, PipelineAgrees, PipelineIsQueuePrefix, IsPrefixOf
<1>5. mutationQueue[current] \in Seq(Batch)
  BY <1>1 DEF DataTypes
<1> QED
  BY <1>1, <1>2, <1>3, <1>4, <1>5 DEF PipelineInv, PipelineAgrees

\* Nothing on disk and no handler changes.
LEMMA SameRows ==
  ASSUME HandlersFindTheirRows, UNCHANGED <<mutationQueue, nextBatchId, callbacks, completion>>
  PROVE  HandlersFindTheirRows'
BY DEF HandlersFindTheirRows, BatchIdsFresh, HandlersArePending

\* A write is made: its row goes behind all others and its handler is new.
LEMMA WriteMutationsStep ==
  ASSUME PipelineInv, NEW w \in Writes, WriteMutations(w)
  PROVE  PipelineInv' /\ WQP!Issue(w)
<1>1. /\ TypeOK /\ DataTypes /\ StreamTypes
      /\ HandlersFindTheirRows /\ NextBatchIdIsPositive
      /\ StreamIsWanted /\ HandshakeIsOpen /\ GracefulStopIsUnneeded
      /\ Matching(stream, handshake, pipeline, wire, responses)
      /\ Len(pipeline) <= kMaxPendingWrites
      /\ IsPrefixOf(pipeline, mutationQueue[current])
      /\ Sorted(mutationQueue[current])
  BY Given
<1>2. PICK old \in Seq(Batch) : old = mutationQueue[current]
  BY Given
<1>3. PICK row \in Batch : row = [id |-> nextBatchId, write |-> w]
  BY <1>1 DEF DataTypes, Batch
<1>4. row.id = nextBatchId /\ row.write = w /\ nextBatchId \in Nat \ {0}
  BY <1>1, <1>3 DEF DataTypes, NextBatchIdIsPositive
<1>5. /\ current \in Users /\ mutationQueue \in [Users -> Seq(Batch)]
      /\ \A u \in Users : \A i \in DOMAIN mutationQueue[u] :
           mutationQueue[u][i].id \in 1 .. nextBatchId - 1
  BY <1>1 DEF DataTypes, HandlersFindTheirRows, BatchIdsFresh
<1>6. \A i \in DOMAIN old : old[i].id \in 1 .. nextBatchId - 1
  BY <1>2, <1>5
<1>7. \A i \in DOMAIN old : old[i].id < row.id
  BY <1>4, <1>6
<1>8. Put(mutationQueue[current], row) = Append(old, row)
  BY <1>2, <1>7, PutLast
<1>9. PICK rows : rows = Append(old, row)
  OBVIOUS
<1>10. /\ rows \in Seq(Batch) /\ Len(old) \in Nat /\ Len(rows) = Len(old) + 1
       /\ DOMAIN old = 1 .. Len(old) /\ DOMAIN rows = 1 .. Len(old) + 1
       /\ \A i \in DOMAIN old : rows[i] = old[i]
       /\ rows[Len(old) + 1] = row
  BY <1>9, AppendFacts
<1>11. /\ completion[w] = "unissued"
       /\ mutationQueue' = [mutationQueue EXCEPT ![current] = rows]
       /\ nextBatchId' = nextBatchId + 1
       /\ completion' = [completion EXCEPT ![w] = "waiting"]
       /\ FillWritePipeline(pipeline, rows, stream, handshake, wire, idle)
       /\ UNCHANGED <<current, responses, committed, refused, breaks>>
       /\ callbacks' =
            IF \E h \in callbacks : h.user = current /\ h.id = row.id
            THEN callbacks
            ELSE callbacks \cup {[user |-> current, id |-> row.id, write |-> w]}
  BY <1>3, <1>8, <1>9 DEF WriteMutations
<1>12. \A h \in callbacks :
         /\ h.user \in Users /\ h.write \in Writes /\ completion[h.write] = "waiting"
         /\ \E i \in DOMAIN mutationQueue[h.user] :
              mutationQueue[h.user][i] = [id |-> h.id, write |-> h.write]
  BY <1>1 DEF HandlersFindTheirRows, HandlersArePending, DataTypes, Handler
<1>13. ASSUME NEW h \in callbacks PROVE h.id # row.id
  <2>1. PICK i \in DOMAIN mutationQueue[h.user] :
          mutationQueue[h.user][i] = [id |-> h.id, write |-> h.write]
    BY <1>12
  <2>2. mutationQueue[h.user][i].id = h.id /\ h.user \in Users
    BY <2>1, <1>12
  <2>3. h.id \in 1 .. nextBatchId - 1
    BY <2>2, <1>5
  <2> QED
    BY <2>3, <1>4
<1>14. PICK new : new = [user |-> current, id |-> row.id, write |-> w]
  OBVIOUS
<1>15. /\ new \in Handler /\ new.user = current /\ new.id = row.id /\ new.write = w
       /\ callbacks' = callbacks \cup {new}
  BY <1>4, <1>5, <1>11, <1>13, <1>14 DEF Handler
<1>16. /\ mutationQueue' \in [Users -> Seq(Batch)]
       /\ \A u \in Users : mutationQueue'[u] = IF u = current THEN rows ELSE mutationQueue[u]
       /\ mutationQueue'[current'] = rows
  BY <1>5, <1>10, <1>11
<1>17. DataTypes'
  <2>1. /\ current' \in Users /\ nextBatchId' \in Nat /\ committed' \subseteq Writes
        /\ refused' \subseteq Writes /\ breaks' \in 0 .. MaxBreaks
    BY <1>1, <1>11 DEF DataTypes
  <2>2. completion' \in [Writes -> {"unissued", "waiting", "ok", "error", "lost"}]
    BY <1>1, <1>11 DEF DataTypes
  <2>3. callbacks' \subseteq Handler
    BY <1>1, <1>15 DEF DataTypes
  <2> QED
    BY <2>1, <2>2, <2>3, <1>16 DEF DataTypes
<1>18. Sorted(rows)
  <2> SUFFICES ASSUME NEW i \in DOMAIN rows, NEW j \in DOMAIN rows, i < j
               PROVE  rows[i].id < rows[j].id
    BY DEF Sorted
  <2>1. i \in DOMAIN old
    BY <1>10
  <2>2. CASE j \in DOMAIN old
    BY <2>1, <2>2, <1>1, <1>2, <1>10 DEF Sorted
  <2>3. CASE j \notin DOMAIN old
    <3>1. j = Len(old) + 1
      BY <2>3, <1>10
    <3> QED
      BY <3>1, <2>1, <1>7, <1>10
  <2> QED
    BY <2>2, <2>3
<1>19. BatchIdsFresh'
  <2>1. ASSUME NEW u \in Users
        PROVE  /\ \A i \in DOMAIN mutationQueue'[u] :
                    mutationQueue'[u][i].id \in 1 .. nextBatchId' - 1
               /\ Sorted(mutationQueue'[u])
    <3>1. nextBatchId' - 1 = nextBatchId
      BY <1>4, <1>11
    <3>2. CASE u = current
      <4>1. \A i \in DOMAIN rows : rows[i].id \in 1 .. nextBatchId
        <5> TAKE i \in DOMAIN rows
        <5>1. CASE i \in DOMAIN old
          BY <5>1, <1>4, <1>6, <1>10
        <5>2. CASE i \notin DOMAIN old
          <6>1. i = Len(old) + 1
            BY <5>2, <1>10
          <6> QED
            BY <6>1, <1>4, <1>10
        <5> QED
          BY <5>1, <5>2
      <4> QED
        BY <4>1, <3>1, <3>2, <1>16, <1>18
    <3>3. CASE u # current
      <4>1. mutationQueue'[u] = mutationQueue[u]
        BY <3>3, <1>16
      <4>2. \A i \in DOMAIN mutationQueue[u] : mutationQueue[u][i].id \in 1 .. nextBatchId
        BY <1>4, <1>5
      <4>3. Sorted(mutationQueue[u])
        BY <1>1, RowsSorted DEF HandlersFindTheirRows
      <4> QED
        BY <4>1, <4>2, <4>3, <3>1
    <3> QED
      BY <3>2, <3>3
  <2> QED
    BY <2>1 DEF BatchIdsFresh, Sorted
<1>20. HandlersArePending'
  <2>1. \A x \in Writes : completion'[x] = IF x = w THEN "waiting" ELSE completion[x]
    BY <1>1, <1>11 DEF DataTypes
  <2>2. ASSUME NEW h \in callbacks'
        PROVE  /\ completion'[h.write] = "waiting"
               /\ \E i \in DOMAIN mutationQueue'[h.user] :
                    mutationQueue'[h.user][i] = [id |-> h.id, write |-> h.write]
    <3>1. CASE h \in callbacks
      <4>1. completion'[h.write] = "waiting"
        BY <3>1, <2>1, <1>12
      <4>2. PICK i \in DOMAIN mutationQueue[h.user] :
              mutationQueue[h.user][i] = [id |-> h.id, write |-> h.write]
        BY <3>1, <1>12
      <4>3. i \in DOMAIN mutationQueue'[h.user]
            /\ mutationQueue'[h.user][i] = mutationQueue[h.user][i]
        <5>1. h.user \in Users
          BY <3>1, <1>12
        <5>2. CASE h.user = current
          BY <5>1, <5>2, <4>2, <1>2, <1>10, <1>16
        <5>3. CASE h.user # current
          BY <5>1, <5>3, <4>2, <1>16
        <5> QED
          BY <5>2, <5>3
      <4> QED
        BY <4>1, <4>2, <4>3
    <3>2. CASE h = new
      <4>1. completion'[h.write] = "waiting"
        BY <3>2, <2>1, <1>15
      <4>2. mutationQueue'[h.user] = rows
        BY <3>2, <1>5, <1>15, <1>16
      <4>3. /\ Len(old) + 1 \in DOMAIN rows
            /\ rows[Len(old) + 1] = [id |-> h.id, write |-> h.write]
        BY <3>2, <1>3, <1>4, <1>10, <1>15
      <4> QED
        BY <4>1, <4>2, <4>3
    <3> QED
      BY <3>1, <3>2, <1>15
  <2>3. ASSUME NEW x \in Writes, completion'[x] = "waiting"
        PROVE  \E h \in callbacks' : h.write = x
    <3>1. CASE x = w
      BY <3>1, <1>15
    <3>2. CASE x # w
      <4>1. completion[x] = "waiting"
        BY <3>2, <2>1, <2>3
      <4>2. PICK h \in callbacks : h.write = x
        BY <4>1, <1>1 DEF HandlersFindTheirRows, HandlersArePending
      <4> QED
        BY <4>2, <1>15
    <3> QED
      BY <3>1, <3>2
  <2> QED
    BY <2>2, <2>3 DEF HandlersArePending
<1>21. StreamInv'
  <2>1. IsPrefixOf(pipeline, rows)
    <3>1. /\ Len(pipeline) \in Nat /\ DOMAIN pipeline = 1 .. Len(pipeline)
          /\ Len(pipeline) <= Len(old)
          /\ \A i \in DOMAIN pipeline : pipeline[i] = old[i]
      BY <1>1, <1>2 DEF IsPrefixOf, StreamTypes
    <3> QED
      BY <3>1, <1>10 DEF IsPrefixOf
  <2>2. /\ stream \in StreamState /\ handshake \in BOOLEAN /\ idle \in BOOLEAN
        /\ wire \in Seq(Batch) /\ pipeline \in Seq(Batch)
        /\ responses' \in Seq(Response) /\ responses' = responses
    BY <1>1, <1>11 DEF StreamTypes
  <2>3. /\ idle => stream = "Open" /\ handshake /\ pipeline = <<>>
        /\ stream \in {"Starting", "Backoff"} \/ (stream = "Open" /\ ~handshake)
             => pipeline # <<>>
        /\ handshake => stream = "Open"
    BY <1>1, <2>2 DEF StreamIsWanted, HandshakeIsOpen, GracefulStopIsUnneeded
  <2>4. Matching(stream, handshake, pipeline, wire, responses')
    BY <1>1, <2>2
  <2> QED
    BY <2>1, <2>2, <2>3, <2>4, <1>1, <1>10, <1>11, <1>16, <1>18, FillOpenInv
<1>22. PipelineInv'
  <2>1. NextBatchIdIsPositive'
    BY <1>4, <1>11 DEF NextBatchIdIsPositive
  <2> QED
    BY <2>1, <1>17, <1>19, <1>20, <1>21, Parts DEF DataInv, HandlersFindTheirRows
<1>23. WQP!Issue(w)
  <2>1. Queue[current] = WritesOf(old) /\ Queue' = [Queue EXCEPT ![current] = WritesOf(rows)]
    BY <1>2, <1>5, <1>11, QueueUpdate
  <2>2. WritesOf(rows) = Append(WritesOf(old), w)
    BY <1>4, <1>9, WritesFacts
  <2>3. Queue' = [Queue EXCEPT ![current] = Append(@, w)]
    BY <2>1, <2>2
  <2>4. Acked' = Acked
    BY <1>11 DEF Acked, StreamAlive
  <2> QED
    BY <2>3, <2>4, <1>11 DEF WQP!Issue, Queue
<1> QED
  BY <1>22, <1>23

\* A response says that the stream is open and what its first element is about.
LEMMA FirstResponse ==
  ASSUME StreamTypes, Matching(stream, handshake, pipeline, wire, responses),
         responses # <<>>
  PROVE  /\ stream = "Open" /\ handshake
         /\ pipeline # <<>>
         /\ Head(responses).ok => AckedIn(responses) > 0
         /\ ~Head(responses).ok => AckedIn(responses) = 0
<1>1. PICK a \in Nat : a = AckedIn(responses)
  BY AckedFacts DEF StreamTypes
<1>2. /\ stream = "Open" /\ handshake
      /\ a + Len(wire) = Len(pipeline)
      /\ \A i \in 1 .. a : responses[i].ok
      /\ ~(\A i \in DOMAIN responses : responses[i].ok) =>
           wire # <<>> /\ responses[Len(responses)] = [batch |-> wire[1], ok |-> FALSE]
  BY <1>1 DEF Matching
<1>3. /\ Len(responses) \in Nat \ {0} /\ DOMAIN responses = 1 .. Len(responses)
      /\ Head(responses) = responses[1]
      /\ Len(wire) \in Nat /\ Len(pipeline) \in Nat
      /\ wire # <<>> => Len(wire) >= 1
  BY DEF StreamTypes
<1>4. ASSUME Head(responses).ok PROVE a > 0 /\ pipeline # <<>>
  <2>1. CASE \A i \in DOMAIN responses : responses[i].ok
    <3>1. a = Len(responses)
      BY <2>1, <1>1, AckedFacts DEF StreamTypes
    <3>2. Len(pipeline) >= 1
      BY <3>1, <1>2, <1>3
    <3> QED
      BY <3>1, <3>2, <1>3
  <2>2. CASE ~(\A i \in DOMAIN responses : responses[i].ok)
    <3>1. a = Len(responses) - 1
      BY <2>2, <1>1, AckedFacts DEF StreamTypes
    <3>2. ~responses[Len(responses)].ok
      BY <2>2, <1>2
    <3>3. Len(responses) # 1
      BY <3>2, <1>3, <1>4
    <3>4. a >= 1
      BY <3>1, <3>3, <1>3
    <3>5. Len(pipeline) >= 1
      BY <3>4, <1>2, <1>3
    <3> QED
      BY <3>4, <3>5
  <2> QED
    BY <2>1, <2>2
<1>5. ASSUME ~Head(responses).ok PROVE a = 0 /\ pipeline # <<>>
  <2>1. ~(1 \in 1 .. a)
    BY <1>2, <1>3, <1>5
  <2>2. a = 0
    BY <2>1
  <2>3. 1 \in DOMAIN responses
    BY <1>3
  <2>4. wire # <<>>
    BY <2>3, <1>2, <1>3, <1>5
  <2>5. Len(pipeline) >= 1
    BY <2>2, <2>4, <1>2, <1>3
  <2> QED
    BY <2>2, <2>5
<1> QED
  BY <1>1, <1>2, <1>4, <1>5

\* The first write of the pipeline is the oldest row of the account; without it
\* the rest of the pipeline is a prefix of the rest of the rows.
LEMMA PipelineTail ==
  ASSUME NEW pipe \in Seq(Batch), NEW rows \in Seq(Batch), pipe # <<>>,
         IsPrefixOf(pipe, rows), Len(pipe) <= kMaxPendingWrites
  PROVE  /\ rows # <<>> /\ Head(pipe) = rows[1]
         /\ Tail(pipe) \in Seq(Batch) /\ Tail(rows) \in Seq(Batch)
         /\ IsPrefixOf(Tail(pipe), Tail(rows))
         /\ Len(Tail(pipe)) <= kMaxPendingWrites
<1>1. /\ Len(pipe) \in Nat \ {0} /\ Len(rows) \in Nat /\ kMaxPendingWrites \in Nat
      /\ DOMAIN pipe = 1 .. Len(pipe) /\ Head(pipe) = pipe[1]
      /\ Len(pipe) <= Len(rows)
      /\ \A i \in 1 .. Len(pipe) : pipe[i] = rows[i]
  BY PipelineAssumption DEF IsPrefixOf
<1>2. rows # <<>>
  BY <1>1
<1>3. PICK p : p = Tail(pipe)
  OBVIOUS
<1>4. PICK r : r = Tail(rows)
  OBVIOUS
<1>5. /\ p \in Seq(Batch) /\ DOMAIN p = 1 .. Len(pipe) - 1 /\ Len(p) = Len(pipe) - 1
      /\ \A i \in DOMAIN p : p[i] = pipe[i + 1]
  BY <1>3, TailFacts
<1>6. /\ r \in Seq(Batch) /\ DOMAIN r = 1 .. Len(rows) - 1 /\ Len(r) = Len(rows) - 1
      /\ \A i \in DOMAIN r : r[i] = rows[i + 1]
  BY <1>2, <1>4, TailFacts
<1>7. \A i \in DOMAIN p : p[i] = r[i]
  <2> TAKE i \in DOMAIN p
  <2>1. i + 1 \in 1 .. Len(pipe) /\ i \in DOMAIN r
    BY <1>1, <1>5, <1>6
  <2> QED
    BY <2>1, <1>1, <1>5, <1>6
<1>8. Len(p) <= Len(r) /\ Len(p) <= kMaxPendingWrites
  BY <1>1, <1>5, <1>6
<1> QED
  BY <1>1, <1>2, <1>3, <1>4, <1>5, <1>6, <1>7, <1>8 DEF IsPrefixOf

\* The first response is read and the first write of the pipeline is gone: what
\* is left still agrees.
LEMMA MatchingTail ==
  ASSUME NEW pipe \in Seq(Batch), NEW sent \in Seq(Batch), NEW read \in Seq(Response),
         Matching("Open", TRUE, pipe, sent, read),
         pipe # <<>>, read # <<>>, Head(read).ok, AckedIn(read) > 0
  PROVE  /\ Matching("Open", TRUE, Tail(pipe), sent, Tail(read))
         /\ AckedIn(Tail(read)) = AckedIn(read) - 1
<1>1. PICK a \in Nat : a = AckedIn(read)
  BY AckedFacts
<1>2. /\ a + Len(sent) = Len(pipe)
      /\ \A i \in 1 .. a : read[i].ok /\ read[i].batch = pipe[i]
      /\ \A i \in 1 .. Len(sent) : sent[i] = pipe[a + i]
      /\ ~(\A i \in DOMAIN read : read[i].ok) =>
           sent # <<>> /\ read[Len(read)] = [batch |-> sent[1], ok |-> FALSE]
  BY <1>1 DEF Matching
<1>3. PICK p : p = Tail(pipe)
  OBVIOUS
<1>4. PICK r : r = Tail(read)
  OBVIOUS
<1>5. /\ Len(pipe) \in Nat \ {0} /\ Len(sent) \in Nat /\ Len(read) \in Nat \ {0} /\ a > 0
      /\ DOMAIN read = 1 .. Len(read) /\ Head(read) = read[1]
  BY <1>1
<1>6. /\ p \in Seq(Batch) /\ DOMAIN p = 1 .. Len(pipe) - 1 /\ Len(p) = Len(pipe) - 1
      /\ \A i \in DOMAIN p : p[i] = pipe[i + 1]
  BY <1>3, TailFacts
<1>7. /\ r \in Seq(Response) /\ DOMAIN r = 1 .. Len(read) - 1 /\ Len(r) = Len(read) - 1
      /\ \A i \in DOMAIN r : r[i] = read[i + 1]
  BY <1>4, TailFacts
<1>8. (\A i \in DOMAIN r : r[i].ok) <=> (\A i \in DOMAIN read : read[i].ok)
  <2>1. ASSUME \A i \in DOMAIN r : r[i].ok, NEW i \in DOMAIN read PROVE read[i].ok
    <3>1. CASE i = 1
      BY <3>1, <1>5
    <3>2. CASE i # 1
      <4>1. i - 1 \in DOMAIN r /\ (i - 1) + 1 = i
        BY <3>2, <1>5, <1>7
      <4> QED
        BY <4>1, <2>1, <1>7
    <3> QED
      BY <3>1, <3>2
  <2>2. ASSUME \A i \in DOMAIN read : read[i].ok, NEW i \in DOMAIN r PROVE r[i].ok
    <3>1. i + 1 \in DOMAIN read
      BY <1>5, <1>7
    <3> QED
      BY <3>1, <2>2, <1>7
  <2> QED
    BY <2>1, <2>2
<1>9. AckedIn(r) = a - 1
  <2>1. CASE \A i \in DOMAIN read : read[i].ok
    <3>1. a = Len(read) /\ AckedIn(r) = Len(r)
      BY <2>1, <1>1, <1>7, <1>8, AckedFacts
    <3> QED
      BY <3>1, <1>7
  <2>2. CASE ~(\A i \in DOMAIN read : read[i].ok)
    <3>1. a = Len(read) - 1 /\ AckedIn(r) = Len(r) - 1
      BY <2>2, <1>1, <1>7, <1>8, AckedFacts
    <3> QED
      BY <3>1, <1>5, <1>7
  <2> QED
    BY <2>1, <2>2
<1>10. a - 1 + Len(sent) = Len(p)
  BY <1>2, <1>5, <1>6
<1>11. \A i \in 1 .. a - 1 : r[i].ok /\ r[i].batch = p[i]
  <2> TAKE i \in 1 .. a - 1
  <2>1. i + 1 \in 1 .. a /\ i \in DOMAIN p
    BY <1>2, <1>5, <1>6
  <2>2. read[i + 1].ok /\ read[i + 1].batch = pipe[i + 1]
    BY <2>1, <1>2
  <2>3. i \in DOMAIN r
    <3>1. a <= Len(read)
      BY <1>1, <1>5, AckedFacts
    <3> QED
      BY <3>1, <1>5, <1>7
  <2> QED
    BY <2>1, <2>2, <2>3, <1>6, <1>7
<1>12. \A i \in 1 .. Len(sent) : sent[i] = p[a - 1 + i]
  <2> TAKE i \in 1 .. Len(sent)
  <2>1. a - 1 + i \in DOMAIN p /\ (a - 1 + i) + 1 = a + i
    BY <1>2, <1>5, <1>6
  <2>2. sent[i] = pipe[a + i]
    BY <1>2
  <2> QED
    BY <2>1, <2>2, <1>6
<1>13. ASSUME ~(\A i \in DOMAIN r : r[i].ok)
       PROVE  sent # <<>> /\ r[Len(r)] = [batch |-> sent[1], ok |-> FALSE]
  <2>1. sent # <<>> /\ read[Len(read)] = [batch |-> sent[1], ok |-> FALSE]
    BY <1>2, <1>8, <1>13
  <2>2. Len(r) \in DOMAIN r /\ Len(r) + 1 = Len(read)
    <3>1. Len(r) # 0
      BY <1>7, <1>13
    <3> QED
      BY <3>1, <1>5, <1>7
  <2>3. r[Len(r)] = read[Len(read)]
    BY <2>2, <1>7
  <2> QED
    BY <2>1, <2>3
<1> QED
  BY <1>1, <1>3, <1>4, <1>9, <1>10, <1>11, <1>12, <1>13 DEF Matching

\* A commit is acknowledged: the oldest row and the first write of the pipeline
\* go, and the abstract queue acknowledges its head.
LEMMA MutationResultStep ==
  ASSUME PipelineInv, RowsOnce, OnWriteStreamMutationResult
  PROVE  PipelineInv' /\ WQP!Acknowledge
<1>1. /\ TypeOK /\ DataTypes /\ StreamTypes
      /\ HandlersFindTheirRows /\ NextBatchIdIsPositive
      /\ GracefulStopIsUnneeded
      /\ Matching(stream, handshake, pipeline, wire, responses)
      /\ Len(pipeline) <= kMaxPendingWrites
      /\ IsPrefixOf(pipeline, mutationQueue[current])
  BY Given
<1>2. PICK old \in Seq(Batch) : old = mutationQueue[current]
  BY Given
<1>3. responses # <<>> /\ Head(responses).ok /\ responses' = Tail(responses)
      /\ UNCHANGED <<current, nextBatchId, committed, refused, breaks>>
  BY DEF OnWriteStreamMutationResult
<1>4. /\ stream = "Open" /\ handshake = TRUE
      /\ pipeline # <<>> /\ AckedIn(responses) > 0
  BY <1>1, <1>3, FirstResponse DEF StreamTypes
<1>5. PICK batch : batch = Head(pipeline)
  OBVIOUS
<1>6. PICK pipe : pipe = Tail(pipeline)
  OBVIOUS
<1>7. PICK rows : rows = Tail(old)
  OBVIOUS
<1>8. /\ old # <<>> /\ batch = old[1]
      /\ pipe \in Seq(Batch) /\ rows \in Seq(Batch)
      /\ IsPrefixOf(pipe, rows) /\ Len(pipe) <= kMaxPendingWrites
  BY <1>1, <1>2, <1>4, <1>5, <1>6, <1>7, PipelineTail DEF StreamTypes
<1>9. /\ NotifyUser(batch.id, "ok")
      /\ mutationQueue' = [mutationQueue EXCEPT
                             ![current] = Delete(mutationQueue[current], batch.id)]
      /\ FillWritePipeline(pipe, Delete(mutationQueue[current], batch.id),
                           stream, handshake, wire, idle)
  BY <1>5, <1>6 DEF OnWriteStreamMutationResult
<1>10. /\ mutationQueue' \in [Users -> Seq(Batch)]
       /\ Delete(mutationQueue[current], batch.id) = rows
       /\ mutationQueue'[current'] = rows
       /\ Sorted(rows)
       /\ callbacks' \subseteq Handler
       /\ completion' \in [Writes -> {"unissued", "waiting", "ok", "error", "lost"}]
       /\ completion' = WQP!Notify(batch.write, "ok")
       /\ HandlersFindTheirRows'
  BY <1>1, <1>2, <1>3, <1>7, <1>8, <1>9, PopRows
<1>11. DataInv'
  BY <1>1, <1>3, <1>10 DEF DataInv, DataTypes, NextBatchIdIsPositive
<1>12. responses' \in Seq(Response)
  BY <1>1, <1>3 DEF StreamTypes
<1>13. /\ Matching(stream, handshake, pipe, wire, responses')
       /\ AckedIn(responses') = AckedIn(responses) - 1
  BY <1>1, <1>3, <1>4, <1>6, MatchingTail DEF StreamTypes
<1>14. StreamInv'
  <2>1. FillWritePipeline(pipe, rows, stream, handshake, wire, idle)
    BY <1>9, <1>10
  <2>2. /\ stream \in StreamState /\ handshake \in BOOLEAN /\ idle \in BOOLEAN
        /\ wire \in Seq(Batch)
    BY <1>1 DEF StreamTypes
  <2>3. ~idle
    BY <1>1, <1>4 DEF GracefulStopIsUnneeded
  <2> QED
    BY <2>1, <2>2, <2>3, <1>4, <1>8, <1>10, <1>12, <1>13, FillOpenInv
<1>15. WQP!Acknowledge
  <2>1. current \in Users /\ mutationQueue \in [Users -> Seq(Batch)]
    BY <1>1 DEF DataTypes
  <2>2. Queue[current] = WritesOf(old) /\ Queue' = [Queue EXCEPT ![current] = WritesOf(rows)]
    BY <2>1, <1>2, <1>9, <1>10, QueueUpdate
  <2>3. Head(WritesOf(old)) = batch.write /\ WritesOf(rows) = Tail(WritesOf(old))
    BY <1>7, <1>8, WritesFacts
  <2>4. /\ Queue' = [Queue EXCEPT ![current] = Tail(@)]
        /\ completion' = WQP!Notify(Head(Queue[current]), "ok")
    BY <2>2, <2>3, <1>10
  <2>5. Acked > 0 /\ Acked' = Acked - 1
    BY <1>4, <1>13, MatchingNow
  <2> QED
    BY <2>4, <2>5, <1>3 DEF WQP!Acknowledge, Queue
<1> QED
  BY <1>11, <1>14, <1>15, Parts

\* A write is refused: it is the oldest row, and nothing is acknowledged before
\* it, so the abstract queue rejects its head.
LEMMA WriteErrorStep ==
  ASSUME PipelineInv, RowsOnce, HandleWriteError
  PROVE  PipelineInv' /\ WQP!Reject
<1>1. /\ TypeOK /\ DataTypes /\ StreamTypes
      /\ HandlersFindTheirRows /\ NextBatchIdIsPositive
      /\ Matching(stream, handshake, pipeline, wire, responses)
      /\ Len(pipeline) <= kMaxPendingWrites
      /\ IsPrefixOf(pipeline, mutationQueue[current])
  BY Given
<1>2. PICK old \in Seq(Batch) : old = mutationQueue[current]
  BY Given
<1>3. responses # <<>> /\ ~Head(responses).ok /\ responses' = <<>>
      /\ UNCHANGED <<current, nextBatchId, committed, breaks>>
  BY DEF HandleWriteError
<1>4. pipeline # <<>> /\ AckedIn(responses) = 0
  BY <1>1, <1>3, FirstResponse
<1>5. PICK batch : batch = Head(pipeline)
  OBVIOUS
<1>6. PICK pipe : pipe = Tail(pipeline)
  OBVIOUS
<1>7. PICK rows : rows = Tail(old)
  OBVIOUS
<1>8. /\ old # <<>> /\ batch = old[1]
      /\ pipe \in Seq(Batch) /\ rows \in Seq(Batch)
      /\ IsPrefixOf(pipe, rows) /\ Len(pipe) <= kMaxPendingWrites
  BY <1>1, <1>2, <1>4, <1>5, <1>6, <1>7, PipelineTail DEF StreamTypes
<1>9. /\ NotifyUser(batch.id, "error")
      /\ refused' = refused \cup {batch.write}
      /\ mutationQueue' = [mutationQueue EXCEPT
                             ![current] = Delete(mutationQueue[current], batch.id)]
      /\ FillWritePipeline(pipe, Delete(mutationQueue[current], batch.id),
                           "Initial", FALSE, <<>>, FALSE)
  BY <1>5, <1>6 DEF HandleWriteError
<1>10. /\ mutationQueue' \in [Users -> Seq(Batch)]
       /\ Delete(mutationQueue[current], batch.id) = rows
       /\ mutationQueue'[current'] = rows
       /\ Sorted(rows)
       /\ callbacks' \subseteq Handler
       /\ completion' \in [Writes -> {"unissued", "waiting", "ok", "error", "lost"}]
       /\ completion' = WQP!Notify(batch.write, "error")
       /\ HandlersFindTheirRows'
  BY <1>1, <1>2, <1>3, <1>7, <1>8, <1>9, PopRows
<1>11. batch.write \in Writes
  BY <1>8, RowFacts
<1>12. DataInv'
  BY <1>1, <1>3, <1>9, <1>10, <1>11 DEF DataInv, DataTypes, NextBatchIdIsPositive
<1>13. StreamInv'
  <2>1. FillWritePipeline(pipe, rows, "Initial", FALSE, <<>>, FALSE)
    BY <1>9, <1>10
  <2> QED
    BY <2>1, <1>3, <1>8, <1>10, RefilledClosedInv
<1>14. WQP!Reject
  <2>1. current \in Users /\ mutationQueue \in [Users -> Seq(Batch)]
    BY <1>1 DEF DataTypes
  <2>2. Queue[current] = WritesOf(old) /\ Queue' = [Queue EXCEPT ![current] = WritesOf(rows)]
    BY <2>1, <1>2, <1>9, <1>10, QueueUpdate
  <2>3. Head(WritesOf(old)) = batch.write /\ WritesOf(rows) = Tail(WritesOf(old))
    BY <1>7, <1>8, WritesFacts
  <2>4. WritesOf(old) # <<>>
    <3>1. WritesOf(old) \in Seq(Writes) /\ Len(WritesOf(old)) = Len(old) /\ Len(old) # 0
      BY <1>8, WritesFacts
    <3> QED
      BY <3>1
  <2>5. /\ Queue' = [Queue EXCEPT ![current] = Tail(@)]
        /\ Queue[current] # <<>>
        /\ completion' = WQP!Notify(Head(Queue[current]), "error")
        /\ refused' = refused \cup {Head(Queue[current])}
    BY <2>2, <2>3, <2>4, <1>9, <1>10
  <2>6. Acked = 0 /\ Acked' = Acked
    BY <1>3, <1>4, MatchingNow, NothingAcked
  <2> QED
    BY <2>5, <2>6, <1>3 DEF WQP!Reject, Queue
<1> QED
  BY <1>12, <1>13, <1>14, Parts

\* The server commits the next write on the wire: the first one of the account
\* that it has not yet committed on this stream.
LEMMA ServerCommitsStep ==
  ASSUME PipelineInv, ServerCommits
  PROVE  PipelineInv' /\ WQP!Commit
<1>1. /\ DataTypes /\ StreamTypes
      /\ HandlersFindTheirRows /\ NextBatchIdIsPositive
      /\ StreamIsWanted /\ HandshakeIsOpen /\ GracefulStopIsUnneeded
      /\ Matching(stream, handshake, pipeline, wire, responses)
      /\ Len(pipeline) <= kMaxPendingWrites
      /\ IsPrefixOf(pipeline, mutationQueue[current])
      /\ mutationQueue[current] \in Seq(Batch)
  BY Given
<1>2. /\ wire # <<>> /\ \A i \in DOMAIN responses : responses[i].ok
      /\ committed' = committed \cup {Head(wire).write}
      /\ wire' = Tail(wire)
      /\ responses' = Append(responses, [batch |-> Head(wire), ok |-> TRUE])
      /\ UNCHANGED <<current, mutationQueue, nextBatchId, callbacks, pipeline,
                     stream, handshake, idle, refused, completion, breaks>>
  BY DEF ServerCommits, StreamAlive
<1>3. PICK a \in Nat : a = AckedIn(responses)
  BY <1>1, AckedFacts DEF StreamTypes
<1>4. /\ stream = "Open" /\ handshake
      /\ a + Len(wire) = Len(pipeline)
      /\ \A i \in 1 .. a : responses[i].ok /\ responses[i].batch = pipeline[i]
      /\ \A i \in 1 .. Len(wire) : wire[i] = pipeline[a + i]
  BY <1>1, <1>2, <1>3 DEF Matching
<1>5. PICK first : first = Head(wire)
  OBVIOUS
<1>6. /\ first \in Batch /\ first = wire[1]
      /\ Len(wire) \in Nat \ {0} /\ Len(pipeline) \in Nat
      /\ Tail(wire) \in Seq(Batch) /\ Len(Tail(wire)) = Len(wire) - 1
      /\ \A i \in 1 .. Len(wire) - 1 : Tail(wire)[i] = wire[i + 1]
  BY <1>1, <1>2, <1>5, TailFacts DEF StreamTypes
<1>7. PICK e : e = [batch |-> first, ok |-> TRUE]
  OBVIOUS
<1>8. e \in Response /\ e.ok /\ e.batch = first
  BY <1>6, <1>7 DEF Response
<1>9. PICK r : r = Append(responses, e)
  OBVIOUS
<1>10. /\ r \in Seq(Response) /\ Len(r) = a + 1 /\ a = Len(responses)
       /\ DOMAIN responses = 1 .. a /\ DOMAIN r = 1 .. a + 1
       /\ \A i \in 1 .. a : r[i] = responses[i]
       /\ r[a + 1] = e
  <2>1. responses \in Seq(Response) /\ a = Len(responses)
    BY <1>1, <1>2, <1>3, AckedFacts DEF StreamTypes
  <2> QED
    BY <2>1, <1>8, <1>9, AppendFacts
<1>11. responses' = r
  BY <1>2, <1>5, <1>7, <1>9
<1>12. \A i \in 1 .. a + 1 : r[i].ok /\ r[i].batch = pipeline[i]
  <2> TAKE i \in 1 .. a + 1
  <2>1. CASE i \in 1 .. a
    BY <2>1, <1>4, <1>10
  <2>2. CASE i = a + 1
    <3>1. wire[1] = pipeline[a + 1]
      BY <1>4, <1>6
    <3> QED
      BY <2>2, <3>1, <1>6, <1>8, <1>10
  <2> QED
    BY <2>1, <2>2
<1>13. AckedIn(r) = a + 1
  BY <1>10, <1>12, AckedFacts
<1>14. Matching(stream', handshake', pipeline', wire', responses')
  <2>1. a + 1 + Len(wire') = Len(pipeline)
    BY <1>2, <1>4, <1>6
  <2>2. \A i \in 1 .. Len(wire') : wire'[i] = pipeline[a + 1 + i]
    <3> TAKE i \in 1 .. Len(wire')
    <3>1. i + 1 \in 1 .. Len(wire) /\ a + (i + 1) = a + 1 + i /\ i \in 1 .. Len(wire) - 1
      BY <1>2, <1>6
    <3>2. wire'[i] = wire[i + 1]
      BY <3>1, <1>2, <1>6
    <3> QED
      BY <3>1, <3>2, <1>4
  <2>3. \A i \in DOMAIN r : r[i].ok
    BY <1>10, <1>12
  <2>4. Matching("Open", TRUE, pipeline, wire', r)
    BY <2>1, <2>2, <2>3, <1>12, <1>13 DEF Matching
  <2>5. handshake' = TRUE
    BY <1>1, <1>2, <1>4 DEF StreamTypes
  <2> QED
    BY <2>4, <2>5, <1>2, <1>4, <1>11
<1>15. StreamInv'
  <2>1. StreamTypes'
    BY <1>1, <1>2, <1>6, <1>10, <1>11 DEF StreamTypes
  <2>2. PipelineIsQueuePrefix'
    BY <1>1, <1>2 DEF PipelineIsQueuePrefix, IsPrefixOf
  <2>3. StreamIsWanted' /\ HandshakeIsOpen' /\ GracefulStopIsUnneeded'
    BY <1>1, <1>2 DEF StreamIsWanted, HandshakeIsOpen, GracefulStopIsUnneeded
  <2> QED
    BY <2>1, <2>2, <2>3, <1>14, MatchingNow DEF StreamInv, PipelineAgrees
<1>16. DataInv'
  <2>1. first.write \in Writes
    BY <1>6 DEF Batch
  <2>2. DataTypes'
    BY <2>1, <1>1, <1>2, <1>5 DEF DataTypes
  <2> QED
    BY <2>2, <1>1, <1>2, SameRows DEF DataInv, NextBatchIdIsPositive
<1>17. WQP!Commit
  <2>1. PICK rows \in Seq(Batch) : rows = mutationQueue[current]
    BY <1>1
  <2>2. /\ a + 1 \in 1 .. Len(pipeline) /\ Len(pipeline) <= Len(rows)
        /\ Len(rows) \in Nat /\ first = pipeline[a + 1]
    BY <2>1, <1>1, <1>4, <1>6 DEF IsPrefixOf
  <2>3. first = rows[a + 1] /\ a < Len(rows) /\ a + 1 \in DOMAIN rows
    <3>1. a + 1 \in DOMAIN pipeline /\ a + 1 \in DOMAIN rows
      BY <2>1, <2>2, <1>1 DEF StreamTypes
    <3> QED
      BY <3>1, <2>1, <2>2, <1>1 DEF IsPrefixOf
  <2>4. Queue[current] = WritesOf(rows)
    BY <2>1, <1>1 DEF DataTypes, Queue, WritesOf
  <2>5. Len(WritesOf(rows)) = Len(rows) /\ WritesOf(rows)[a + 1] = first.write
    BY <2>3, WritesFacts DEF WritesOf
  <2>6. Acked = a /\ Acked' = a + 1
    BY <1>3, <1>11, <1>13, MatchingNow
  <2>7. Queue' = Queue
    BY <1>2 DEF Queue
  <2>8. /\ Acked < Len(Queue[current]) /\ Acked' = Acked + 1
        /\ committed' = committed \cup {Queue[current][Acked + 1]}
    BY <2>3, <2>4, <2>5, <2>6, <1>2, <1>5
  <2> QED
    BY <2>7, <2>8, <1>2 DEF WQP!Commit, Queue
<1> QED
  BY <1>15, <1>16, <1>17, Parts

\* The server refuses the next write on the wire and ends the stream: its answer
\* is on the way, nothing of the abstract queue changes.
LEMMA ServerRefusesStep ==
  ASSUME PipelineInv, ServerRefuses
  PROVE  PipelineInv' /\ UNCHANGED WQP!vars
<1>1. /\ DataTypes /\ StreamTypes
      /\ HandlersFindTheirRows /\ NextBatchIdIsPositive
      /\ StreamIsWanted /\ HandshakeIsOpen /\ GracefulStopIsUnneeded
      /\ Matching(stream, handshake, pipeline, wire, responses)
      /\ Len(pipeline) <= kMaxPendingWrites
      /\ IsPrefixOf(pipeline, mutationQueue[current])
  BY Given
<1>2. /\ wire # <<>> /\ \A i \in DOMAIN responses : responses[i].ok
      /\ responses' = Append(responses, [batch |-> Head(wire), ok |-> FALSE])
      /\ UNCHANGED <<current, mutationQueue, nextBatchId, callbacks, pipeline, stream,
                     handshake, idle, wire, committed, refused, completion, breaks>>
  BY DEF ServerRefuses, StreamAlive
<1>3. PICK a \in Nat : a = AckedIn(responses)
  BY <1>1, AckedFacts DEF StreamTypes
<1>4. /\ stream = "Open" /\ handshake = TRUE
      /\ a + Len(wire) = Len(pipeline)
      /\ \A i \in 1 .. a : responses[i].ok /\ responses[i].batch = pipeline[i]
      /\ \A i \in 1 .. Len(wire) : wire[i] = pipeline[a + i]
  BY <1>1, <1>2, <1>3 DEF Matching, StreamTypes
<1>5. Head(wire) \in Batch /\ Head(wire) = wire[1]
  BY <1>1, <1>2 DEF StreamTypes
<1>6. PICK e : e = [batch |-> wire[1], ok |-> FALSE]
  OBVIOUS
<1>7. e \in Response /\ ~e.ok
  BY <1>5, <1>6 DEF Response
<1>8. PICK r : r = Append(responses, e)
  OBVIOUS
<1>9. /\ r \in Seq(Response) /\ Len(r) = a + 1
      /\ DOMAIN r = 1 .. a + 1 /\ DOMAIN responses = 1 .. a
      /\ \A i \in 1 .. a : r[i] = responses[i]
      /\ r[a + 1] = e
  <2>1. responses \in Seq(Response) /\ a = Len(responses)
    BY <1>1, <1>2, <1>3, AckedFacts DEF StreamTypes
  <2> QED
    BY <2>1, <1>7, <1>8, AppendFacts
<1>10. responses' = r
  BY <1>2, <1>5, <1>6, <1>8
<1>11. ~(\A i \in DOMAIN r : r[i].ok) /\ AckedIn(r) = a
  <2>1. a + 1 \in DOMAIN r /\ ~r[a + 1].ok
    BY <1>7, <1>9
  <2>2. ~(\A i \in DOMAIN r : r[i].ok)
    BY <2>1
  <2>3. AckedIn(r) = Len(r) - 1
    BY <2>2, <1>9, AckedFacts
  <2> QED
    BY <2>2, <2>3, <1>9
<1>12. \A i \in 1 .. a : r[i].ok /\ r[i].batch = pipeline[i]
  BY <1>4, <1>9
<1>13. r[Len(r)] = [batch |-> wire[1], ok |-> FALSE]
  BY <1>6, <1>9
<1>14. Matching("Open", TRUE, pipeline, wire, r)
  BY <1>2, <1>4, <1>11, <1>12, <1>13 DEF Matching
<1>15. Matching(stream', handshake', pipeline', wire', responses')
  BY <1>2, <1>4, <1>10, <1>14
<1>16. StreamInv'
  <2>1. StreamTypes'
    BY <1>1, <1>2, <1>9, <1>10 DEF StreamTypes
  <2>2. PipelineIsQueuePrefix'
    BY <1>1, <1>2 DEF PipelineIsQueuePrefix, IsPrefixOf
  <2>3. StreamIsWanted' /\ HandshakeIsOpen' /\ GracefulStopIsUnneeded'
    BY <1>1, <1>2 DEF StreamIsWanted, HandshakeIsOpen, GracefulStopIsUnneeded
  <2> QED
    BY <2>1, <2>2, <2>3, <1>15, MatchingNow DEF StreamInv, PipelineAgrees
<1>17. DataInv'
  <2>1. DataTypes'
    BY <1>1, <1>2 DEF DataTypes
  <2> QED
    BY <2>1, <1>1, <1>2, SameRows DEF DataInv, NextBatchIdIsPositive
<1>18. UNCHANGED WQP!vars
  <2>1. Acked' = Acked
    BY <1>3, <1>10, <1>11, MatchingNow
  <2> QED
    BY <2>1, <1>2 DEF WQP!vars
<1> QED
  BY <1>16, <1>17, <1>18, Parts

\* The handshake is done: the whole pipeline goes out on a wire that was empty.
LEMMA HandshakeStep ==
  ASSUME PipelineInv, OnWriteStreamHandshakeComplete
  PROVE  PipelineInv' /\ UNCHANGED WQP!vars
<1>1. /\ DataTypes /\ StreamTypes
      /\ HandlersFindTheirRows /\ NextBatchIdIsPositive
      /\ StreamIsWanted /\ HandshakeIsOpen /\ GracefulStopIsUnneeded
      /\ Matching(stream, handshake, pipeline, wire, responses)
      /\ Len(pipeline) <= kMaxPendingWrites
      /\ IsPrefixOf(pipeline, mutationQueue[current])
  BY Given
<1>2. /\ stream = "Open" /\ ~handshake /\ handshake' = TRUE
      /\ wire' = wire \o pipeline
      /\ idle' = (idle /\ pipeline = <<>>)
      /\ UNCHANGED <<current, mutationQueue, nextBatchId, callbacks, pipeline, stream,
                     responses, committed, refused, completion, breaks>>
  BY DEF OnWriteStreamHandshakeComplete
<1>3. wire = <<>> /\ responses = <<>>
  BY <1>1, <1>2 DEF Matching
<1>4. pipeline # <<>> /\ ~idle /\ idle' = FALSE /\ wire' = pipeline
  BY <1>1, <1>2, <1>3 DEF StreamIsWanted, GracefulStopIsUnneeded, StreamTypes
<1>5. Matching("Open", TRUE, pipeline, pipeline, responses)
  <2>1. (\A i \in DOMAIN responses : responses[i].ok) /\ AckedIn(responses) = 0
    BY <1>3 DEF AckedIn
  <2>2. Len(pipeline) \in Nat
    BY <1>1 DEF StreamTypes
  <2>3. \A i \in 1 .. Len(pipeline) : 0 + i = i
    BY <2>2
  <2> QED
    BY <2>1, <2>2, <2>3 DEF Matching
<1>6. Matching(stream', handshake', pipeline', wire', responses')
  BY <1>2, <1>4, <1>5
<1>7. StreamInv'
  <2>1. StreamTypes'
    <3>1. TRUE \in BOOLEAN /\ FALSE \in BOOLEAN
      OBVIOUS
    <3> QED
      BY <3>1, <1>1, <1>2, <1>4 DEF StreamTypes
  <2>2. PipelineIsQueuePrefix'
    BY <1>1, <1>2 DEF PipelineIsQueuePrefix, IsPrefixOf
  <2>3. StreamIsWanted' /\ HandshakeIsOpen' /\ GracefulStopIsUnneeded'
    BY <1>1, <1>2, <1>4 DEF StreamIsWanted, HandshakeIsOpen, GracefulStopIsUnneeded
  <2> QED
    BY <2>1, <2>2, <2>3, <1>6, MatchingNow DEF StreamInv, PipelineAgrees
<1>8. DataInv'
  <2>1. DataTypes'
    BY <1>1, <1>2 DEF DataTypes
  <2> QED
    BY <2>1, <1>1, <1>2, SameRows DEF DataInv, NextBatchIdIsPositive
<1>9. UNCHANGED WQP!vars
  <2>1. Acked' = Acked
    BY <1>2 DEF Acked, StreamAlive
  <2> QED
    BY <2>1, <1>2 DEF WQP!vars
<1> QED
  BY <1>7, <1>8, <1>9, Parts

\* A stream that is being opened carries nothing yet.
LEMMA OpeningStep ==
  ASSUME PipelineInv, BackoffElapsed \/ OnWriteStreamOpen
  PROVE  PipelineInv' /\ UNCHANGED WQP!vars
<1>1. /\ DataTypes /\ StreamTypes
      /\ HandlersFindTheirRows /\ NextBatchIdIsPositive
      /\ StreamIsWanted /\ HandshakeIsOpen /\ GracefulStopIsUnneeded
      /\ Matching(stream, handshake, pipeline, wire, responses)
      /\ Len(pipeline) <= kMaxPendingWrites
      /\ IsPrefixOf(pipeline, mutationQueue[current])
  BY Given
<1>2. /\ stream \in {"Backoff", "Starting"} /\ stream' \in {"Starting", "Open"}
      /\ idle' = idle \/ idle' = FALSE
      /\ UNCHANGED <<current, mutationQueue, nextBatchId, callbacks, pipeline, handshake,
                     wire, responses, committed, refused, completion, breaks>>
  BY DEF BackoffElapsed, OnWriteStreamOpen
<1>3. ~handshake /\ wire = <<>> /\ responses = <<>> /\ pipeline # <<>> /\ ~idle
  BY <1>1, <1>2 DEF HandshakeIsOpen, Matching, StreamIsWanted, GracefulStopIsUnneeded
<1>4. Matching(stream', handshake', pipeline', wire', responses')
  BY <1>2, <1>3 DEF Matching
<1>5. StreamInv'
  <2>1. StreamTypes'
    BY <1>1, <1>2, <1>3 DEF StreamTypes, StreamState
  <2>2. PipelineIsQueuePrefix'
    BY <1>1, <1>2 DEF PipelineIsQueuePrefix, IsPrefixOf
  <2>3. StreamIsWanted' /\ HandshakeIsOpen' /\ GracefulStopIsUnneeded'
    BY <1>2, <1>3 DEF StreamIsWanted, HandshakeIsOpen, GracefulStopIsUnneeded
  <2> QED
    BY <2>1, <2>2, <2>3, <1>4, MatchingNow DEF StreamInv, PipelineAgrees
<1>6. DataInv'
  <2>1. DataTypes'
    BY <1>1, <1>2 DEF DataTypes
  <2> QED
    BY <2>1, <1>1, <1>2, SameRows DEF DataInv, NextBatchIdIsPositive
<1>7. UNCHANGED WQP!vars
  <2>1. Acked' = Acked
    BY <1>2 DEF Acked, StreamAlive
  <2> QED
    BY <2>1, <1>2 DEF WQP!vars
<1> QED
  BY <1>5, <1>6, <1>7, Parts

\* The stream breaks or is stopped when idle: the pipeline stays, what was on
\* the stream is lost.
LEMMA ClosedStep ==
  ASSUME PipelineInv, OnWriteStreamError \/ IdleTimeout
  PROVE  PipelineInv' /\ WQP!Disconnect
<1>1. /\ DataTypes /\ StreamTypes
      /\ HandlersFindTheirRows /\ NextBatchIdIsPositive
      /\ Len(pipeline) <= kMaxPendingWrites
      /\ IsPrefixOf(pipeline, mutationQueue[current])
  BY Given
<1>2. /\ handshake' = FALSE /\ idle' = FALSE /\ wire' = <<>> /\ responses' = <<>>
      /\ UNCHANGED <<current, mutationQueue, nextBatchId, callbacks, pipeline,
                     committed, refused, completion>>
  BY DEF OnWriteStreamError, IdleTimeout, CloseWithError
<1>3. PICK s \in {"Initial", "Error"} : stream' = Started(s, pipeline')
  BY DEF OnWriteStreamError, IdleTimeout, CloseWithError
<1>4. breaks' \in 0 .. MaxBreaks
  BY <1>1, BreaksAssumption DEF DataTypes, OnWriteStreamError, IdleTimeout, Break
<1>5. StreamInv'
  <2>1. /\ pipeline' \in Seq(Batch) /\ Len(pipeline') <= kMaxPendingWrites
        /\ IsPrefixOf(pipeline', mutationQueue'[current'])
    BY <1>1, <1>2 DEF StreamTypes
  <2> QED
    BY <2>1, <1>2, <1>3, ClosedInv
<1>6. DataInv'
  <2>1. DataTypes'
    BY <1>1, <1>2, <1>4 DEF DataTypes
  <2> QED
    BY <2>1, <1>1, <1>2, SameRows DEF DataInv, NextBatchIdIsPositive
<1>7. WQP!Disconnect
  <2>1. Acked' = 0
    BY <1>2, NothingAcked
  <2> QED
    BY <2>1, <1>2 DEF WQP!Disconnect
<1> QED
  BY <1>5, <1>6, <1>7, Parts

\* Restarting the network fills an empty pipeline from the rows of an account.
LEMMA RestartNetworkInv ==
  ASSUME DataTypes, HandlersFindTheirRows, NEW u \in Users, current' = u,
         UNCHANGED mutationQueue, RestartNetwork(mutationQueue[u])
  PROVE  StreamInv' /\ Acked' = 0
<1>1. PICK rows \in Seq(Batch) : rows = mutationQueue[u]
  BY DEF DataTypes
<1>2. Sorted(rows)
  BY <1>1, RowsSorted DEF HandlersFindTheirRows
<1>3. /\ FillWritePipeline(<<>>, rows, "Initial", FALSE, <<>>, FALSE)
      /\ responses' = <<>> /\ rows = mutationQueue'[current']
  BY <1>1 DEF RestartNetwork
<1>4. /\ <<>> \in Seq(Batch) /\ IsPrefixOf(<<>>, rows) /\ Len(<<>>) <= kMaxPendingWrites
  BY <1>1, PipelineAssumption DEF IsPrefixOf
<1>5. StreamInv'
  BY <1>2, <1>3, <1>4, RefilledClosedInv
<1> QED
  BY <1>3, <1>5, NothingAcked

\* The streams restart under the same account.
LEMMA StreamsRestartedStep ==
  ASSUME PipelineInv, StreamsRestarted
  PROVE  PipelineInv' /\ WQP!Disconnect
<1>1. DataTypes /\ HandlersFindTheirRows /\ NextBatchIdIsPositive
  BY Given
<1>2. /\ RestartNetwork(mutationQueue[current])
      /\ breaks < MaxBreaks /\ breaks' = breaks + 1
      /\ UNCHANGED <<current, mutationQueue, nextBatchId, callbacks, committed,
                     refused, completion>>
  BY DEF StreamsRestarted, Break
<1>3. StreamInv' /\ Acked' = 0
  BY <1>1, <1>2, RestartNetworkInv DEF DataTypes
<1>4. DataInv'
  <2>1. DataTypes'
    BY <1>1, <1>2, BreaksAssumption DEF DataTypes
  <2> QED
    BY <2>1, <1>1, <1>2, SameRows DEF DataInv, NextBatchIdIsPositive
<1>5. WQP!Disconnect
  BY <1>2, <1>3 DEF WQP!Disconnect
<1> QED
  BY <1>3, <1>4, <1>5, Parts

\* Ids computed from the rows of all accounts are fresh.
LEMMA ReloadedIdsAreFresh ==
  ASSUME DataTypes, BatchIdsFresh, UNCHANGED mutationQueue,
         nextBatchId' = LoadNextBatchId(mutationQueue)
  PROVE  nextBatchId' \in Nat \ {0} /\ BatchIdsFresh'
<1>1. /\ mutationQueue \in [Users -> Seq(Batch)] /\ nextBatchId \in Nat
      /\ \A u \in Users : \A i \in DOMAIN mutationQueue[u] :
           mutationQueue[u][i].id \in 1 .. nextBatchId - 1
  BY DEF DataTypes, BatchIdsFresh
<1>2. /\ LoadNextBatchId(mutationQueue) \in Nat \ {0}
      /\ \A u \in Users : \A i \in DOMAIN mutationQueue[u] :
           mutationQueue[u][i].id \in 1 .. LoadNextBatchId(mutationQueue) - 1
  BY <1>1, NextBatchIdIsFresh
<1> QED
  BY <1>2 DEF BatchIdsFresh

\* Another account signs in: its rows take the pipeline over.
LEMMA UserChangedStep ==
  ASSUME PipelineInv, NEW u \in Users, UserChanged(u)
  PROVE  PipelineInv' /\ WQP!SwitchUser(u)
<1>1. DataTypes /\ HandlersFindTheirRows
  BY Given
<1>2. /\ current' = u /\ nextBatchId' = LoadNextBatchId(mutationQueue)
      /\ RestartNetwork(mutationQueue[u])
      /\ UNCHANGED <<mutationQueue, callbacks, committed, refused, completion, breaks>>
  BY DEF UserChanged
<1>3. StreamInv' /\ Acked' = 0
  BY <1>1, <1>2, RestartNetworkInv
<1>4. nextBatchId' \in Nat \ {0} /\ BatchIdsFresh'
  BY <1>1, <1>2, ReloadedIdsAreFresh DEF HandlersFindTheirRows
<1>5. DataInv'
  <2>1. DataTypes'
    BY <1>1, <1>2, <1>4 DEF DataTypes
  <2>2. HandlersArePending'
    BY <1>1, <1>2 DEF HandlersFindTheirRows, HandlersArePending
  <2> QED
    BY <2>1, <2>2, <1>4 DEF DataInv, HandlersFindTheirRows, NextBatchIdIsPositive
<1>6. WQP!SwitchUser(u)
  BY <1>2, <1>3 DEF WQP!SwitchUser
<1> QED
  BY <1>3, <1>5, <1>6, Parts

\* The process starts again: the rows are there, the handlers are not.
LEMMA RestartStep ==
  ASSUME PipelineInv, NEW u \in Users, Restart(u)
  PROVE  PipelineInv' /\ WQP!Restart(u)
<1>1. DataTypes /\ HandlersFindTheirRows
  BY Given
<1>2. /\ current' = u /\ nextBatchId' = LoadNextBatchId(mutationQueue)
      /\ breaks < MaxBreaks /\ breaks' = breaks + 1
      /\ callbacks' = {}
      /\ completion' = [w \in Writes |-> IF completion[w] = "waiting"
                                         THEN "lost" ELSE completion[w]]
      /\ RestartNetwork(mutationQueue[u])
      /\ UNCHANGED <<mutationQueue, committed, refused>>
  BY DEF Restart, Break
<1>3. StreamInv' /\ Acked' = 0
  BY <1>1, <1>2, RestartNetworkInv
<1>4. nextBatchId' \in Nat \ {0} /\ BatchIdsFresh'
  BY <1>1, <1>2, ReloadedIdsAreFresh DEF HandlersFindTheirRows
<1>5. /\ completion' \in [Writes -> {"unissued", "waiting", "ok", "error", "lost"}]
      /\ \A w \in Writes : completion'[w] # "waiting"
  BY <1>1, <1>2 DEF DataTypes
<1>6. DataInv'
  <2>1. DataTypes'
    BY <1>1, <1>2, <1>4, <1>5, BreaksAssumption DEF DataTypes
  <2>2. HandlersArePending'
    BY <1>2, <1>5 DEF HandlersArePending
  <2> QED
    BY <2>1, <2>2, <1>4 DEF DataInv, HandlersFindTheirRows, NextBatchIdIsPositive
<1>7. WQP!Restart(u)
  BY <1>2, <1>3 DEF WQP!Restart
<1> QED
  BY <1>3, <1>6, <1>7, Parts

-----------------------------------------------------------------------------
\* The pipeline and the abstract queue start together.
LEMMA InitPipeline == Init => PipelineInv /\ WQP!Init
<1> SUFFICES ASSUME Init PROVE PipelineInv /\ WQP!Init
  OBVIOUS
<1>1. /\ current \in Users /\ mutationQueue = [u \in Users |-> <<>>]
      /\ nextBatchId = 1 /\ callbacks = {} /\ pipeline = <<>> /\ stream = "Initial"
      /\ handshake = FALSE /\ idle = FALSE /\ wire = <<>> /\ responses = <<>>
      /\ committed = {} /\ refused = {}
      /\ completion = [w \in Writes |-> "unissued"] /\ breaks = 0
  BY DEF Init
<1>2. \A u \in Users : mutationQueue[u] = <<>>
  BY <1>1
<1>3. mutationQueue \in [Users -> Seq(Batch)]
  BY <1>1
<1>4. DataTypes
  BY <1>1, <1>3, BreaksAssumption DEF DataTypes
<1>5. StreamTypes
  <2>1. /\ "Initial" \in StreamState /\ FALSE \in BOOLEAN
        /\ <<>> \in Seq(Batch) /\ <<>> \in Seq(Response)
    BY DEF StreamState
  <2> QED
    BY <2>1, <1>1 DEF StreamTypes
<1>6. HandlersFindTheirRows
  <2>1. BatchIdsFresh
    BY <1>2 DEF BatchIdsFresh
  <2>2. HandlersArePending
    BY <1>1 DEF HandlersArePending
  <2> QED
    BY <2>1, <2>2 DEF HandlersFindTheirRows
<1>7. StreamAlive /\ Acked = 0
  BY <1>1, NothingAcked
<1>8. ResponsesMatchPipeline
  BY <1>1, <1>7 DEF ResponsesMatchPipeline
<1>9. PipelineIsQueuePrefix
  BY <1>1, <1>2, PipelineAssumption DEF PipelineIsQueuePrefix
<1>10. GracefulStopIsUnneeded /\ StreamIsWanted /\ HandshakeIsOpen /\ NextBatchIdIsPositive
  BY <1>1 DEF GracefulStopIsUnneeded, StreamIsWanted, HandshakeIsOpen, NextBatchIdIsPositive
<1>11. PipelineInv
  BY <1>4, <1>5, <1>6, <1>8, <1>9, <1>10, Parts DEF DataInv, StreamInv, PipelineAgrees
<1>12. WQP!Init
  <2>1. Queue = [u \in Users |-> <<>>]
    <3>1. Queue = [u \in Users |-> WritesOf(mutationQueue[u])]
      BY DEF Queue, WritesOf
    <3>2. \A u \in Users : WritesOf(mutationQueue[u]) = <<>>
      BY <1>2 DEF WritesOf
    <3> QED
      BY <3>1, <3>2
  <2> QED
    BY <2>1, <1>1, <1>7 DEF WQP!Init, Queue
<1> QED
  BY <1>11, <1>12

\* Every step keeps the invariant and is one of the abstract queue's or none.
LEMMA NextPipeline ==
  ASSUME PipelineInv, RowsOnce, [Next]_vars
  PROVE  PipelineInv' /\ [WQP!Next]_WQP!vars
<1>1. ASSUME NEW w \in Writes, WriteMutations(w)
      PROVE  PipelineInv' /\ [WQP!Next]_WQP!vars
  BY <1>1, WriteMutationsStep DEF WQP!Next
<1>2. CASE BackoffElapsed \/ OnWriteStreamOpen
  BY <1>2, OpeningStep
<1>3. CASE OnWriteStreamHandshakeComplete
  BY <1>3, HandshakeStep
<1>4. CASE OnWriteStreamMutationResult
  BY <1>4, MutationResultStep DEF WQP!Next
<1>5. CASE HandleWriteError
  BY <1>5, WriteErrorStep DEF WQP!Next
<1>6. CASE ServerCommits
  BY <1>6, ServerCommitsStep DEF WQP!Next
<1>7. CASE ServerRefuses
  BY <1>7, ServerRefusesStep
<1>8. CASE OnWriteStreamError \/ IdleTimeout
  BY <1>8, ClosedStep DEF WQP!Next
<1>9. CASE StreamsRestarted
  BY <1>9, StreamsRestartedStep DEF WQP!Next
<1>10. ASSUME NEW u \in Users, UserChanged(u)
       PROVE  PipelineInv' /\ [WQP!Next]_WQP!vars
  BY <1>10, UserChangedStep DEF WQP!Next
<1>11. ASSUME NEW u \in Users, Restart(u)
       PROVE  PipelineInv' /\ [WQP!Next]_WQP!vars
  BY <1>11, RestartStep DEF WQP!Next
<1>12. CASE UNCHANGED vars
  <2>1. UNCHANGED <<current, mutationQueue, nextBatchId, callbacks, pipeline, stream,
                    handshake, idle, wire, responses, committed, refused, completion, breaks>>
    BY <1>12 DEF vars
  <2>2. Acked' = Acked
    BY <2>1 DEF Acked, StreamAlive
  <2>3. UNCHANGED WQP!vars
    BY <2>1, <2>2 DEF WQP!vars
  <2>4. DataInv'
    <3>1. DataTypes'
      BY <2>1, Given DEF DataTypes
    <3> QED
      BY <3>1, <2>1, Given, SameRows DEF DataInv, NextBatchIdIsPositive
  <2>5. StreamInv'
    <3>1. StreamTypes'
      BY <2>1, Given DEF StreamTypes
    <3>2. Matching(stream', handshake', pipeline', wire', responses')
      BY <2>1, Given
    <3>3. PipelineIsQueuePrefix'
      BY <2>1, Given DEF PipelineIsQueuePrefix, IsPrefixOf
    <3>4. StreamIsWanted' /\ HandshakeIsOpen' /\ GracefulStopIsUnneeded'
      BY <2>1, Given DEF StreamIsWanted, HandshakeIsOpen, GracefulStopIsUnneeded
    <3> QED
      BY <3>1, <3>2, <3>3, <3>4, MatchingNow DEF StreamInv, PipelineAgrees
  <2> QED
    BY <2>3, <2>4, <2>5, Parts
<1> QED
  BY <1>1, <1>2, <1>3, <1>4, <1>5, <1>6, <1>7, <1>8, <1>9, <1>10, <1>11, <1>12
     DEF Next, Progress

\* The inductive invariant: the pipeline's own and the abstract queue's.
Inv == PipelineInv /\ WQP!Inv

LEMMA InitInv == Init => Inv
BY InitPipeline, WQP!InitInv DEF Inv

LEMMA NextInv == Inv /\ [Next]_vars => Inv' /\ [WQP!Next]_WQP!vars
<1> SUFFICES ASSUME Inv, [Next]_vars PROVE Inv' /\ [WQP!Next]_WQP!vars
  OBVIOUS
<1>1. PipelineInv /\ WQP!Inv
  BY DEF Inv
<1>2. RowsOnce
  BY <1>1, RowsOnceOfQueue DEF WQP!Inv
<1>3. PipelineInv' /\ [WQP!Next]_WQP!vars
  BY <1>1, <1>2, NextPipeline
<1>4. WQP!Inv'
  BY <1>1, <1>3, WQP!NextInv
<1> QED
  BY <1>3, <1>4 DEF Inv

\* The invariant holds at the end of every task of the worker queue.
THEOREM Invariance == Spec => []Inv
BY InitInv, NextInv, PTL DEF Spec

\* The variables have their types, for any accounts and any number of writes.
THEOREM TypeCorrect == Spec => []TypeOK
BY Invariance, PTL DEF Inv, PipelineInv

\* The pipeline of RemoteStore holds the oldest rows of the signed-in account, a
\* response is always about the write the code takes it for, and a graceful stop
\* never hits a stream that still has writes to send.
THEOREM PipelineAlwaysAgrees == Spec => []PipelineAgrees
BY Invariance, PTL DEF Inv, PipelineInv

\* Batch ids, computed afresh at every change of account and every start, lead
\* every completion handler to the row of its own write.
THEOREM HandlersAlwaysFindTheirRows == Spec => []HandlersFindTheirRows
BY Invariance, PTL DEF Inv, PipelineInv

\* The abstract actions by their two names: WriteQueue.tla's, and the same ones
\* reached through its proofs.
LEMMA SameQueue ==
  /\ WQP!Init => WQ!Init
  /\ [WQP!Next]_WQP!vars => [WQ!Next]_WQ!vars
<1>1. WQP!Init => WQ!Init
  BY DEF WQP!Init, WQ!Init
<1>2. WQP!vars = WQ!vars /\ (WQP!vars' = WQ!vars')
  BY DEF WQP!vars, WQ!vars
<1>3. WQP!Next => WQ!Next
  BY DEF WQ!Next, WQP!Next, WQ!Issue, WQP!Issue, WQ!Commit, WQP!Commit,
         WQ!Acknowledge, WQP!Acknowledge, WQ!Reject, WQP!Reject,
         WQ!Disconnect, WQP!Disconnect, WQ!SwitchUser, WQP!SwitchUser,
         WQ!Restart, WQP!Restart, WQ!Notify, WQP!Notify
<1> QED
  BY <1>1, <1>2, <1>3

\* The SDK's write path implements the queue it promises the app: the worker
\* queue's tasks, the server and the breaks are steps of WriteQueue.tla, whose
\* theorems therefore hold of the rows on disk.
THEOREM Refinement == Spec => ImplementsWriteQueue
<1>1. Init => WQ!Init
  BY InitPipeline, SameQueue
<1>2. Inv /\ [Next]_vars => [WQ!Next]_WQ!vars
  BY NextInv, SameQueue
<1> QED
  BY <1>1, <1>2, Invariance, PTL DEF Spec, ImplementsWriteQueue, WQ!Spec

=============================================================================
