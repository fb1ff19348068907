-------------------------- MODULE LocalViewProofs --------------------------
(***************************************************************************)
(* Proofs about LocalView.tla, for any accounts, articles and bounds.      *)
(*                                                                         *)
(* The cache hears of a document from two sides, and what keeps the two in *)
(* order is that versions of a document only grow at the server: a version *)
(* identifies contents, contents with text keep it, and an acknowledgement *)
(* under way is about a document that has not changed its mind since.  The *)
(* other half is the order of the queue: the text of an article is always  *)
(* resolved before the picture that the same account adds to it.           *)
(***************************************************************************)
EXTENDS LocalView, SequenceFacts

\* The theorems about the mutation queues.
QueueProofs == INSTANCE WriteQueueProofs

Versions == 1 .. Now

\* What the server has recorded about article a up to version v.
HistoryOf(h, n, a) ==
  \A v \in 1 .. n :
    /\ h[v][a].version <= v
    /\ h[v][a].version = 0 <=> h[v][a].fields = {}
    /\ h[v][a].version # 0 => h[h[v][a].version][a] = h[v][a]
    /\ \A w \in v .. n :
         /\ h[v][a].version <= h[w][a].version
         /\ "text" \in h[v][a].fields => "text" \in h[w][a].fields

HistoryIsOrderly == \A a \in Articles : HistoryOf(history, Now, a)

\* A field is there because its write has been committed.
HistoryIsEarned ==
  \A a \in Articles, v \in Versions :
    /\ "text" \in history[v][a].fields => Set(a) \in committed
    /\ "picture" \in history[v][a].fields => Merge(a) \in committed

\* From version v on the server has field f of article a.
HasSince(a, f, v) == \A w \in v .. Now : f \in history[w][a].fields

\* The acknowledgement of write w with version v tells the truth, now and later.
AckIsTrue(w, v) ==
  /\ v \in Versions
  /\ history[v][w.article].version = v
  /\ HasSince(w.article, FieldOf(w), v)
  /\ w.kind = "set" => history[v][w.article].fields = {"text"}

AcksAreTrue == \A i \in DOMAIN acks : AckIsTrue(queue[current][i], acks[i])

\* An entry c of the cache for article a.
EntryIsSound(a, c) ==
  /\ c.state = "absent" => c = Absent
  /\ c.state # "absent" => c.version \in Versions
  /\ c.state = "synced" => c.fields = history[c.version][a].fields
  /\ c.state = "guessed" => history[c.version][a].version = c.version
  /\ "text" \in c.fields => HasSince(a, "text", c.version)
  /\ c.state = "guessed" /\ Merge(a) \notin acked =>
       c.fields = {"text"} /\ history[c.version][a].fields = {"text"}

CacheIsSound == \A a \in Articles : EntryIsSound(a, cache[a])

\* A field in the cache is the field of a committed write.
CacheIsEarned ==
  \A a \in Articles :
    /\ "text" \in cache[a].fields => Set(a) \in committed
    /\ "picture" \in cache[a].fields => Merge(a) \in committed

\* The cache is not behind what watch has told it.
CacheIsUpToDate ==
  \A a \in Articles :
    seen[a] # 0 => seen[a] \in Versions /\ Told(a, seen[a]).version <= cache[a].version

\* What the accounts' queues and the history of the writes have to do with each other.
QueuesAreOwn ==
  /\ \A w \in Writes : author[w] = None <=> completion[w] = "unissued"
  /\ \A u \in Users : \A i \in DOMAIN queue[u] : author[queue[u][i]] = u
  /\ \A w \in acked : completion[w] # "unissued" /\ ~Queue!Pending(w)
  /\ \A w \in Writes : w \in acked \/ w \in refused \/ completion[w] = "unissued" \/ Queue!Pending(w)

\* The text of an article goes before its picture.
TextGoesFirst ==
  \A a \in Articles :
    /\ completion[Merge(a)] # "unissued" => completion[Set(a)] # "unissued"
    /\ \A u \in Users : \A i, j \in DOMAIN queue[u] :
         queue[u][i] = Set(a) /\ queue[u][j] = Merge(a) => i < j
    /\ Queue!Pending(Set(a)) /\ author[Set(a)] = author[Merge(a)] => Merge(a) \notin acked

\* An article of one author.
OneAuthor(a) == author[Set(a)] = author[Merge(a)]

\* What has been acknowledged is in the cache, and watch will not take it away.
AcknowledgedIsCached ==
  \A a \in Articles \ forgotten :
    /\ Set(a) \in acked /\ (Merge(a) \in acked => OneAuthor(a)) => "text" \in cache[a].fields
    /\ {Set(a), Merge(a)} \subseteq acked /\ OneAuthor(a) =>
         cache[a].fields = Fields /\ HasSince(a, "picture", cache[a].version)

Inv ==
  /\ TypeOK
  /\ QueueProofs!Inv
  /\ viewUser = current
  /\ HistoryIsOrderly
  /\ HistoryIsEarned
  /\ AcksAreTrue
  /\ CacheIsSound
  /\ CacheIsEarned
  /\ CacheIsUpToDate
  /\ QueuesAreOwn
  /\ TextGoesFirst
  /\ AcknowledgedIsCached
  /\ WatchHasTheLastWord

-----------------------------------------------------------------------------
\* The writes of an article.
LEMMA WriteFacts ==
  /\ \A a \in Articles :
       /\ Set(a) \in Writes /\ Set(a).kind = "set" /\ Set(a).article = a
       /\ Merge(a) \in Writes /\ Merge(a).kind = "merge" /\ Merge(a).article = a
       /\ Set(a) # Merge(a)
       /\ FieldOf(Set(a)) = "text" /\ FieldOf(Merge(a)) = "picture"
  /\ \A w \in Writes :
       /\ w.article \in Articles
       /\ w = Set(w.article) \/ w = Merge(w.article)
       /\ w.kind = "set" => w = Set(w.article) /\ FieldOf(w) = "text"
       /\ w.kind # "set" => w = Merge(w.article) /\ FieldOf(w) = "picture"
       /\ FieldOf(w) \in Fields
<1>1. ASSUME NEW a \in Articles
      PROVE  /\ Set(a) \in Writes /\ Set(a).kind = "set" /\ Set(a).article = a
             /\ Merge(a) \in Writes /\ Merge(a).kind = "merge" /\ Merge(a).article = a
  BY DEF Writes, Set, Merge
<1>2. ASSUME NEW a \in Articles
      PROVE  Set(a) # Merge(a) /\ FieldOf(Set(a)) = "text" /\ FieldOf(Merge(a)) = "picture"
  BY <1>1 DEF FieldOf
<1>3. ASSUME NEW w \in Writes
      PROVE  /\ w.article \in Articles
             /\ w = Set(w.article) \/ w = Merge(w.article)
             /\ w.kind = "set" => w = Set(w.article) /\ FieldOf(w) = "text"
             /\ w.kind # "set" => w = Merge(w.article) /\ FieldOf(w) = "picture"
             /\ FieldOf(w) \in Fields
  <2>1. \/ \E a \in Articles : w = Set(a)
        \/ \E a \in Articles : w = Merge(a)
    BY DEF Writes
  <2>2. CASE \E a \in Articles : w = Set(a)
    BY <1>1, <2>2 DEF FieldOf, Fields
  <2>3. CASE \E a \in Articles : w = Merge(a)
    BY <1>1, <2>3 DEF FieldOf, Fields
  <2> QED
    BY <2>1, <2>2, <2>3
<1> QED
  BY <1>1, <1>2, <1>3

\* What a write makes of a document.
LEMMA AppliedFacts ==
  ASSUME NEW a \in Articles, NEW w \in Writes, NEW fields
  PROVE  /\ w = Set(a) => AppliedTo(a, fields, w) = {"text"}
         /\ w = Merge(a) => AppliedTo(a, fields, w) = fields \cup {"picture"}
         /\ w \notin {Set(a), Merge(a)} => AppliedTo(a, fields, w) = fields
         /\ fields \in SUBSET Fields => Applied(fields, w) \in SUBSET Fields
         /\ FieldOf(w) \in Applied(fields, w) /\ Applied(fields, w) # {}
         /\ "text" \in fields => "text" \in Applied(fields, w)
         /\ w.kind = "set" => Applied(fields, w) = {"text"}
         /\ w.kind # "set" => Applied(fields, w) = fields \cup {"picture"}
<1>1. /\ w.kind = "set" => Applied(fields, w) = {"text"} /\ FieldOf(w) = "text"
      /\ w.kind # "set" => Applied(fields, w) = fields \cup {"picture"} /\ FieldOf(w) = "picture"
  BY DEF Applied, FieldOf
<1>2. w.article = a => w = Set(a) \/ w = Merge(a)
  BY WriteFacts
<1>3. Set(a).article = a /\ Merge(a).article = a /\ Set(a).kind = "set" /\ Merge(a).kind # "set"
  BY WriteFacts
<1> QED
  BY <1>1, <1>2, <1>3 DEF AppliedTo, Fields

-----------------------------------------------------------------------------
\* What the writes at the positions in s of queue q make of a document of article a
\* with the fields base: the last text replaces what was there before.
Shown(a, q, base, s) ==
  IF \E i \in s : q[i] = Set(a)
  THEN {"text"} \cup
       {f \in {"picture"} : \E j \in s : q[j] = Merge(a) /\ \A i \in s : q[i] = Set(a) => i < j}
  ELSE base \cup {f \in {"picture"} : \E j \in s : q[j] = Merge(a)}

\* A set of positions has a last one.
LEMMA LastPosition ==
  ASSUME NEW n \in Nat, NEW s \in SUBSET (1 .. n), s # {}
  PROVE  Max(s) \in s /\ \A i \in s : i <= Max(s)
<1> DEFINE U == {m \in Nat : \A i \in s : i <= m}
<1>1. n \in U
  OBVIOUS
<1>2. PICK m \in U : \A k \in U : m <= k
  <2>1. U # {} /\ U \in SUBSET Nat
    BY <1>1
  <2>2. \E m \in U : \A k \in U : <<k, m>> \notin OpToRel(<, Nat)
    BY <2>1, NatLessThanWellFounded, WFMin
  <2>3. PICK m \in U : \A k \in U : <<k, m>> \notin OpToRel(<, Nat)
    BY <2>2
  <2>4. \A k \in U : ~(k < m)
    BY <2>3 DEF OpToRel
  <2>5. \A k \in U : m <= k
    BY <2>1, <2>4
  <2> QED
    BY <2>5
<1>3. m \in s
  <2> SUFFICES ASSUME m \notin s PROVE FALSE
    OBVIOUS
  <2>0. m \in Nat /\ \A i \in s : i <= m
    BY <1>2
  <2>1. ASSUME NEW i \in s
        PROVE  i \in Nat /\ i <= m /\ i # m /\ i >= 1
    <3>1. i \in 1 .. n
      OBVIOUS
    <3>2. i # m
      OBVIOUS
    <3> QED
      BY <2>0, <3>1, <3>2
  <2>2. m # 0
    <3>1. PICK i \in s : TRUE
      OBVIOUS
    <3> QED
      BY <2>0, <2>1, <3>1
  <2>3. m - 1 \in Nat /\ \A i \in s : i <= m - 1
    BY <2>0, <2>1, <2>2
  <2>4. m - 1 \in U
    BY <2>3
  <2> QED
    BY <1>2, <2>4
<1>4. m \in s /\ \A i \in s : i <= m
  BY <1>2, <1>3
<1>5. \E x \in s : \A y \in s : x >= y
  BY <1>4
<1>6. Max(s) \in s /\ \A y \in s : Max(s) >= y
  BY <1>5 DEF Max
<1>7. \A i \in s : i \in Nat
  OBVIOUS
<1> QED
  BY <1>6, <1>7

\* One more write, behind the others.
LEMMA ShownStep ==
  ASSUME NEW a \in Articles, NEW q \in Seq(Writes), NEW base,
         NEW s \in SUBSET (DOMAIN q), NEW m \in s, \A i \in s : i <= m
  PROVE  Shown(a, q, base, s) = AppliedTo(a, Shown(a, q, base, s \ {m}), q[m])
<1>1. /\ q[m] \in Writes /\ Set(a) # Merge(a)
      /\ \A i \in s : i \in Nat
  BY WriteFacts
<1>2. PICK t : t = s \ {m}
  OBVIOUS
<1>3. /\ \A i \in t : i \in s /\ i < m
      /\ \A i \in s : i = m \/ i \in t
      /\ m \notin t
  BY <1>1, <1>2
<1>4. CASE q[m] = Set(a)
  <2>1. Shown(a, q, base, s) = {"text"}
    <3>1. ~\E j \in s : q[j] = Merge(a) /\ \A i \in s : q[i] = Set(a) => i < j
      BY <1>1, <1>3, <1>4
    <3> QED
      BY <1>4, <3>1 DEF Shown
  <2> QED
    BY <1>1, <1>4, <2>1, AppliedFacts
<1>5. CASE q[m] = Merge(a)
  <2>1. (\E i \in s : q[i] = Set(a)) <=> (\E i \in t : q[i] = Set(a))
    BY <1>1, <1>3, <1>5
  <2>2. \E j \in s : q[j] = Merge(a) /\ \A i \in s : q[i] = Set(a) => i < j
    BY <1>1, <1>3, <1>5
  <2>3. Shown(a, q, base, s) = Shown(a, q, base, t) \cup {"picture"}
    BY <2>1, <2>2 DEF Shown
  <2> QED
    BY <1>1, <1>2, <1>5, <2>3, AppliedFacts
<1>6. CASE q[m] \notin {Set(a), Merge(a)}
  <2>1. (\E i \in s : q[i] = Set(a)) <=> (\E i \in t : q[i] = Set(a))
    BY <1>3, <1>6
  <2>2. (\E j \in s : q[j] = Merge(a)) <=> (\E j \in t : q[j] = Merge(a))
    BY <1>3, <1>6
  <2>3. (\E j \in s : q[j] = Merge(a) /\ \A i \in s : q[i] = Set(a) => i < j)
          <=> (\E j \in t : q[j] = Merge(a) /\ \A i \in t : q[i] = Set(a) => i < j)
    BY <1>3, <1>6
  <2>4. Shown(a, q, base, s) = Shown(a, q, base, t)
    BY <2>1, <2>2, <2>3 DEF Shown
  <2> QED
    BY <1>1, <1>2, <1>6, <2>4, AppliedFacts
<1> QED
  BY <1>4, <1>5, <1>6

\* The recursion by which the community module folds a queue, q's positions in s.
Folds(a, q, base, g) ==
  g = [s \in SUBSET (DOMAIN q) |-> IF s = {} THEN base
                                   ELSE AppliedTo(a, g[s \ {Max(s)}], q[Max(s)])]

\* The recursion has a solution, and the fold is one.
LEMMA FoldExists ==
  ASSUME NEW a \in Articles, NEW q \in Seq(Writes), NEW base
  PROVE  \E g : /\ Folds(a, q, base, g)
                /\ FoldLeft(LAMBDA fields, w : AppliedTo(a, fields, w), base, q) = g[DOMAIN q]
<1> DEFINE h == [s \in SUBSET (DOMAIN q) |-> Shown(a, q, base, s)]
<1>1. Folds(a, q, base, h)
  <2>1. ASSUME NEW s \in SUBSET (DOMAIN q)
        PROVE  Shown(a, q, base, s) = IF s = {} THEN base
                                      ELSE AppliedTo(a, h[s \ {Max(s)}], q[Max(s)])
    <3>1. CASE s = {}
      BY <3>1 DEF Shown
    <3>2. CASE s # {}
      <4>1. Len(q) \in Nat /\ DOMAIN q = 1 .. Len(q)
        OBVIOUS
      <4>2. Max(s) \in s /\ \A i \in s : i <= Max(s)
        BY <3>2, <4>1, LastPosition
      <4>3. h[s \ {Max(s)}] = Shown(a, q, base, s \ {Max(s)})
        OBVIOUS
      <4>4. Shown(a, q, base, s) = AppliedTo(a, Shown(a, q, base, s \ {Max(s)}), q[Max(s)])
        BY <4>2, ShownStep
      <4> QED
        BY <3>2, <4>3, <4>4
    <3> QED
      BY <3>1, <3>2
  <2> QED
    BY <2>1 DEF Folds
<1> DEFINE Solves(g) == g = [s \in SUBSET (DOMAIN q) |->
                               IF s = {} THEN base
                               ELSE AppliedTo(a, g[s \ {Max(s)}], q[Max(s)])]
<1>2. Solves(h)
  BY <1>1 DEF Folds
<1>3. Solves(CHOOSE g : Solves(g))
  <2> HIDE DEF Solves, h
  <2> QED
    BY <1>2
<1>4. FoldLeft(LAMBDA fields, w : AppliedTo(a, fields, w), base, q)
        = (CHOOSE g : Solves(g))[DOMAIN q]
  BY Zenon DEF FoldLeft, MapThenFoldSet
<1> QED
  BY <1>3, <1>4 DEF Folds

\* What the first writes of a queue make of a document, whatever the recursion.
LEMMA FoldIsShown ==
  ASSUME NEW a \in Articles, NEW q \in Seq(Writes), NEW base, NEW g, Folds(a, q, base, g)
  PROVE  g[DOMAIN q] = Shown(a, q, base, DOMAIN q)
<1> DEFINE W == {n \in 0 .. Len(q) : g[1 .. n] # Shown(a, q, base, 1 .. n)}
<1>1. Len(q) \in Nat /\ DOMAIN q = 1 .. Len(q)
  OBVIOUS
<1>2. SUFFICES ASSUME W # {} PROVE FALSE
  BY <1>1
<1>3. PICK n \in W : \A k \in W : n <= k
  <2>1. W \in SUBSET Nat
    BY <1>1
  <2>2. \E n \in W : \A k \in W : <<k, n>> \notin OpToRel(<, Nat)
    BY <1>2, <2>1, NatLessThanWellFounded, WFMin
  <2>3. PICK n \in W : \A k \in W : <<k, n>> \notin OpToRel(<, Nat)
    BY <2>2
  <2>4. \A k \in W : ~(k < n)
    BY <2>1, <2>3 DEF OpToRel
  <2>5. \A k \in W : n <= k
    BY <2>1, <2>4
  <2> QED
    BY <2>5
<1>4. n \in 0 .. Len(q) /\ g[1 .. n] # Shown(a, q, base, 1 .. n)
  BY <1>3
<1>5. n # 0
  <2> SUFFICES ASSUME n = 0 PROVE FALSE
    OBVIOUS
  <2>1. 1 .. n = {} /\ {} \in SUBSET (DOMAIN q)
    BY <1>1
  <2>2. g[{}] = base
    BY <2>1 DEF Folds
  <2>3. Shown(a, q, base, {}) = base
    BY DEF Shown
  <2> QED
    BY <1>4, <2>1, <2>2, <2>3
<1>6. n \in Nat /\ n >= 1 /\ n <= Len(q) /\ n - 1 \in 0 .. Len(q) /\ n - 1 < n
  BY <1>1, <1>4, <1>5
<1>7. g[1 .. n - 1] = Shown(a, q, base, 1 .. n - 1)
  BY <1>3, <1>6
<1>8. PICK s : s = 1 .. n
  OBVIOUS
<1>9. s \in SUBSET (1 .. n) /\ s \in SUBSET (DOMAIN q) /\ n \in s /\ \A i \in s : i <= n
  BY <1>1, <1>6, <1>8
<1>10. Max(s) = n
  <2>1. Max(s) \in s /\ \A i \in s : i <= Max(s)
    BY <1>6, <1>9, LastPosition
  <2>2. PICK x : x = Max(s)
    OBVIOUS
  <2>3. x \in s /\ n <= x
    BY <1>9, <2>1, <2>2
  <2>4. x \in 1 .. n
    BY <1>9, <2>3
  <2> QED
    BY <1>6, <2>2, <2>3, <2>4
<1>11. s \ {n} = 1 .. n - 1
  BY <1>6, <1>8
<1>12. g[s] = AppliedTo(a, g[s \ {n}], q[n])
  BY <1>9, <1>10 DEF Folds
<1>13. Shown(a, q, base, s) = AppliedTo(a, Shown(a, q, base, s \ {n}), q[n])
  <2> HIDE DEF W
  <2>1. s \in SUBSET (DOMAIN q)
    BY <1>9
  <2>2. n \in s
    BY <1>9
  <2>3. \A i \in s : i <= n
    BY <1>9
  <2> QED
    BY <2>1, <2>2, <2>3, ShownStep
<1> QED
  BY <1>4, <1>7, <1>8, <1>11, <1>12, <1>13

\* GetDocument in closed form: the last queued text replaces what is in the cache,
\* a picture queued behind it is added, and other articles' writes do not matter.
LEMMA DocumentIsShown ==
  ASSUME NEW a \in Articles, queue[viewUser] \in Seq(Writes)
  PROVE  GetDocument(a) =
           Shown(a, queue[viewUser], cache[a].fields, DOMAIN queue[viewUser])
<1>1. PICK g : /\ Folds(a, queue[viewUser], cache[a].fields, g)
               /\ FoldLeft(LAMBDA fields, w : AppliedTo(a, fields, w),
                           cache[a].fields, queue[viewUser]) = g[DOMAIN queue[viewUser]]
  BY FoldExists
<1> QED
  BY <1>1, FoldIsShown DEF GetDocument

-----------------------------------------------------------------------------
\* What the type invariant says of the pieces.
LEMMA Typed ==
  ASSUME TypeOK
  PROVE  /\ current \in Users /\ queue \in [Users -> Seq(Writes)]
         /\ cursor \in Nat /\ cursor <= Len(queue[current])
         /\ committed \subseteq Writes /\ refused \subseteq Writes
         /\ completion \in [Writes -> Queue!CompletionState]
         /\ viewUser \in Users /\ lastRemote \in 0 .. MaxVersion
         /\ cache \in [Articles -> [version : 0 .. MaxVersion, fields : SUBSET Fields,
                                    state : States]]
         /\ history \in Seq([Articles -> [version : 0 .. MaxVersion, fields : SUBSET Fields]])
         /\ MaxVersion \in Nat /\ Now \in Nat /\ Now \in 1 .. MaxVersion
         /\ DOMAIN history = Versions /\ Now \in Versions /\ Versions \in SUBSET Nat
         /\ acks \in Seq(1 .. MaxVersion) /\ DOMAIN acks = 1 .. cursor /\ Len(acks) = cursor
         /\ author \in [Writes -> Users \cup {None}]
         /\ acked \in SUBSET Writes /\ forgotten \in SUBSET Articles
         /\ seen \in [Articles -> 0 .. MaxVersion]
<1>1. MaxVersion \in Nat
  BY LocalViewAssumption
<1>2. Now \in 1 .. MaxVersion /\ history \in Seq([Articles -> [version : 0 .. MaxVersion, fields : SUBSET Fields]])
  BY DEF TypeOK
<1>3. Now \in Nat /\ DOMAIN history = 1 .. Now /\ Now >= 1
  BY <1>1, <1>2 DEF Now
<1>4. acks \in Seq(1 .. MaxVersion) /\ Len(acks) = cursor /\ DOMAIN acks = 1 .. cursor
  <2>1. acks \in Seq(1 .. MaxVersion) /\ Len(acks) = cursor
    BY DEF TypeOK
  <2> QED
    BY <2>1
<1> QED
  BY <1>1, <1>2, <1>3, <1>4 DEF TypeOK, Queue!TypeOK, Versions

\* A document of the server's history.
LEMMA HistoryTyped ==
  ASSUME TypeOK, NEW a \in Articles, NEW v \in Versions
  PROVE  /\ v \in Nat /\ v >= 1 /\ v <= Now
         /\ history[v] \in [Articles -> [version : 0 .. MaxVersion, fields : SUBSET Fields]]
         /\ history[v][a].version \in Nat
         /\ history[v][a].version <= MaxVersion
         /\ history[v][a].fields \in SUBSET Fields
         /\ history[v][a] = Doc(history[v][a].version, history[v][a].fields)
<1>1. v \in Nat /\ v >= 1 /\ v <= Now
  BY Typed DEF Versions
<1>2. history[v] \in [Articles -> [version : 0 .. MaxVersion, fields : SUBSET Fields]]
  BY Typed
<1>3. history[v][a] \in [version : 0 .. MaxVersion, fields : SUBSET Fields]
  BY <1>2
<1>4. MaxVersion \in Nat
  BY LocalViewAssumption
<1>5. PICK d : d = history[v][a]
  OBVIOUS
<1>6. d.version \in 0 .. MaxVersion /\ d.fields \in SUBSET Fields /\ d = Doc(d.version, d.fields)
  BY <1>3, <1>5 DEF Doc
<1> QED
  BY <1>1, <1>2, <1>4, <1>5, <1>6

\* An entry of the cache.
LEMMA EntryTyped ==
  ASSUME TypeOK, NEW a \in Articles
  PROVE  /\ cache[a].version \in Nat /\ cache[a].version <= MaxVersion
         /\ cache[a].fields \in SUBSET Fields
         /\ cache[a].state \in States
<1>1. cache[a] \in [version : 0 .. MaxVersion, fields : SUBSET Fields, state : States]
  BY Typed
<1>2. MaxVersion \in Nat
  BY LocalViewAssumption
<1>3. cache[a].version \in 0 .. MaxVersion /\ cache[a].fields \in SUBSET Fields /\ cache[a].state \in States
  BY <1>1
<1> QED
  BY <1>2, <1>3

\* What is absent has version 0 and no fields.
LEMMA AbsentFacts ==
  Absent.version = 0 /\ Absent.fields = {} /\ Absent.state = "absent"
BY DEF Absent, Entry

-----------------------------------------------------------------------------
\* The abstract queue's steps by their other name.
LEMMA SameQueue == Queue!Next \/ UNCHANGED sdk => [QueueProofs!Next]_QueueProofs!vars
<1>1. UNCHANGED sdk => UNCHANGED QueueProofs!vars
  BY DEF sdk, QueueProofs!vars
<1>2. Queue!Next => QueueProofs!Next
  BY DEF Queue!Next, QueueProofs!Next, Queue!Issue, QueueProofs!Issue,
         Queue!Commit, QueueProofs!Commit, Queue!Acknowledge, QueueProofs!Acknowledge,
         Queue!Reject, QueueProofs!Reject, Queue!Disconnect, QueueProofs!Disconnect,
         Queue!SwitchUser, QueueProofs!SwitchUser, Queue!Restart, QueueProofs!Restart,
         Queue!Notify, QueueProofs!Notify
<1> QED
  BY <1>1, <1>2

\* Whatever the app, the server and the connection do to the queues, it is one of
\* WriteQueue's steps.
LEMMA QueueStep ==
  ASSUME QueueProofs!Inv, Queue!Next \/ UNCHANGED sdk
  PROVE  QueueProofs!Inv' /\ Queue!TypeOK'
<1>1. QueueProofs!Inv'
  BY SameQueue, QueueProofs!NextInv
<1>2. QueueProofs!TypeOK'
  BY <1>1 DEF QueueProofs!Inv
<1>3. Queue!TypeOK'
  BY <1>2 DEF QueueProofs!TypeOK, Queue!TypeOK, QueueProofs!CompletionState, Queue!CompletionState
<1> QED
  BY <1>1, <1>3

\* What the theorems about the queues say here.
LEMMA QueueFacts ==
  ASSUME QueueProofs!Inv
  PROVE  /\ \A u, v \in Users : \A i \in DOMAIN queue[u], j \in DOMAIN queue[v] :
              queue[u][i] = queue[v][j] => u = v /\ i = j
         /\ \A i \in 1 .. cursor : queue[current][i] \in committed
         /\ \A w \in Writes : completion[w] = "unissued" =>
              w \notin committed /\ ~Queue!Pending(w)
<1> QED
  BY DEF QueueProofs!Inv, QueueProofs!PendingOnce, QueueProofs!CursorCommitted,
         QueueProofs!UnissuedIsNowhere, QueueProofs!Pending, Queue!Pending

-----------------------------------------------------------------------------
\* Steps that leave a part of the state alone.

\* The server's past is not rewritten.
LEMMA HistoryKept ==
  ASSUME Inv, history' = history, committed \subseteq committed'
  PROVE  HistoryIsOrderly' /\ HistoryIsEarned'
<1>1. Now' = Now /\ Versions' = Versions
  BY DEF Now, Versions
<1>2. HistoryIsOrderly'
  BY <1>1 DEF Inv, HistoryIsOrderly
<1>3. HistoryIsEarned'
  BY <1>1 DEF Inv, HistoryIsEarned
<1> QED
  BY <1>2, <1>3

\* The cache and what it is measured by.
LEMMA CacheKept ==
  ASSUME Inv, UNCHANGED <<cache, history, acked, seen>>, committed \subseteq committed'
  PROVE  CacheIsSound' /\ CacheIsEarned' /\ CacheIsUpToDate' /\ WatchHasTheLastWord'
<1>1. Now' = Now /\ Versions' = Versions
  BY DEF Now, Versions
<1>2. CacheIsSound'
  BY <1>1 DEF Inv, CacheIsSound, EntryIsSound, HasSince
<1>3. CacheIsEarned'
  BY DEF Inv, CacheIsEarned
<1>4. CacheIsUpToDate'
  BY <1>1 DEF Inv, CacheIsUpToDate, Told
<1>5. WatchHasTheLastWord'
  BY DEF Inv, WatchHasTheLastWord
<1> QED
  BY <1>2, <1>3, <1>4, <1>5

\* What has been acknowledged.
LEMMA AcknowledgedKept ==
  ASSUME Inv, UNCHANGED <<cache, history, acked, forgotten, author>>
  PROVE  AcknowledgedIsCached'
<1>1. Now' = Now
  BY DEF Now
<1> QED
  BY <1>1 DEF Inv, AcknowledgedIsCached, HasSince, OneAuthor

\* The queues and who has written what.
LEMMA QueuesKept ==
  ASSUME Inv, UNCHANGED <<queue, author, acked, refused>>,
         \A w \in Writes : completion'[w] = "unissued" <=> completion[w] = "unissued"
  PROVE  QueuesAreOwn' /\ TextGoesFirst'
<1>1. \A w : Queue!Pending(w)' <=> Queue!Pending(w)
  BY DEF Queue!Pending
<1>2. QueuesAreOwn'
  <2>1. acked \subseteq Writes
    BY Typed DEF Inv
  <2> QED
    BY <1>1, <2>1 DEF Inv, QueuesAreOwn
<1>3. TextGoesFirst'
  BY <1>1, WriteFacts DEF Inv, TextGoesFirst
<1> QED
  BY <1>2, <1>3

\* No acknowledgement is under way.
LEMMA AcksDropped == acks' = <<>> => AcksAreTrue'
<1>1. DOMAIN (<<>>) = {}
  OBVIOUS
<1> QED
  BY <1>1 DEF AcksAreTrue

\* The acknowledgements under way are still those of the first writes.
LEMMA AcksKept ==
  ASSUME Inv, UNCHANGED <<acks, history>>,
         \A i \in DOMAIN acks : queue'[current'][i] = queue[current][i]
  PROVE  AcksAreTrue'
<1>1. Now' = Now /\ Versions' = Versions
  BY DEF Now, Versions
<1> QED
  BY <1>1 DEF Inv, AcksAreTrue, AckIsTrue, HasSince

-----------------------------------------------------------------------------
\* The steps that leave the cache and the server's past alone.

\* Initially nothing has been written.
LEMMA InitInv == Init => Inv
<1> SUFFICES ASSUME Init PROVE Inv
  OBVIOUS
<1>1. /\ queue = [u \in Users |-> <<>>] /\ cursor = 0 /\ committed = {} /\ refused = {}
      /\ completion = [w \in Writes |-> "unissued"] /\ current \in Users
      /\ viewUser = current /\ lastRemote = 0 /\ acks = <<>> /\ acked = {} /\ forgotten = {}
      /\ author = [w \in Writes |-> None] /\ seen = [a \in Articles |-> 0]
      /\ cache = [a \in Articles |-> Absent]
      /\ history = <<[a \in Articles |-> Doc(0, {})]>>
  BY DEF Init, Queue!Init
<1>2. QueueProofs!Inv
  <2>1. QueueProofs!Init
    BY DEF Init, Queue!Init, QueueProofs!Init
  <2> QED
    BY <2>1, QueueProofs!InitInv
<1>3. Queue!TypeOK
  BY <1>2 DEF QueueProofs!Inv, QueueProofs!TypeOK, Queue!TypeOK,
              QueueProofs!CompletionState, Queue!CompletionState
<1>4. /\ MaxVersion \in Nat /\ 1 \in 1 .. MaxVersion /\ 0 \in 0 .. MaxVersion
  BY LocalViewAssumption
<1>5. Now = 1 /\ Versions = {1}
  BY <1>1 DEF Now, Versions
<1>6. PICK row : row = [a \in Articles |-> Doc(0, {})]
  OBVIOUS
<1>7. /\ row \in [Articles -> [version : 0 .. MaxVersion, fields : SUBSET Fields]]
      /\ \A a \in Articles : row[a].version = 0 /\ row[a].fields = {}
      /\ history = <<row>> /\ history[1] = row
  BY <1>1, <1>4, <1>6 DEF Doc
<1>8. TypeOK
  <2>1. history \in Seq([Articles -> [version : 0 .. MaxVersion, fields : SUBSET Fields]])
    BY <1>7
  <2>2. cache \in [Articles -> [version : 0 .. MaxVersion, fields : SUBSET Fields, state : States]]
    BY <1>1, <1>4 DEF Absent, Entry, States
  <2>3. acks \in Seq(1 .. MaxVersion) /\ Len(acks) = cursor
    BY <1>1
  <2> QED
    BY <1>1, <1>3, <1>4, <1>5, <2>1, <2>2, <2>3 DEF TypeOK
<1>9. DOMAIN acks = {} /\ \A u \in Users : DOMAIN queue[u] = {}
  BY <1>1
<1>10. HistoryIsOrderly
  BY <1>5, <1>7 DEF HistoryIsOrderly, HistoryOf
<1>11. HistoryIsEarned
  BY <1>5, <1>7 DEF HistoryIsEarned
<1>12. AcksAreTrue
  BY <1>9 DEF AcksAreTrue
<1>13. CacheIsSound /\ CacheIsEarned /\ CacheIsUpToDate /\ WatchHasTheLastWord
  BY <1>1, AbsentFacts DEF CacheIsSound, EntryIsSound, CacheIsEarned, CacheIsUpToDate, WatchHasTheLastWord
<1>14. QueuesAreOwn /\ TextGoesFirst
  BY <1>1, <1>9, WriteFacts DEF QueuesAreOwn, TextGoesFirst, Queue!Pending
<1>15. AcknowledgedIsCached
  BY <1>1 DEF AcknowledgedIsCached
<1> QED
  BY <1>1, <1>2, <1>8, <1>10, <1>11, <1>12, <1>13, <1>14, <1>15 DEF Inv

\* Steps that break the connection and leave the queues as they are.
LEMMA ResetStep ==
  ASSUME Inv, QueueProofs!Inv', Queue!TypeOK',
         UNCHANGED <<queue, committed, refused, cache, lastRemote, history, past>>,
         viewUser' = current', acks' = <<>>, cursor' = 0,
         \A w \in Writes : completion'[w] = "unissued" <=> completion[w] = "unissued"
  PROVE  Inv'
<1>1. UNCHANGED <<author, acked, seen, forgotten>>
  BY DEF past
<1>2. TypeOK'
  <2>1. acks' \in Seq(1 .. MaxVersion) /\ Len(acks') = cursor'
    OBVIOUS
  <2>2. viewUser' \in Users
    BY DEF Queue!TypeOK
  <2> QED
    BY <1>1, <2>1, <2>2 DEF Inv, TypeOK, Now
<1>3. HistoryIsOrderly' /\ HistoryIsEarned'
  BY HistoryKept
<1>4. CacheIsSound' /\ CacheIsEarned' /\ CacheIsUpToDate' /\ WatchHasTheLastWord'
  BY <1>1, CacheKept
<1>5. AcknowledgedIsCached'
  BY <1>1, AcknowledgedKept
<1>6. QueuesAreOwn' /\ TextGoesFirst'
  BY <1>1, QueuesKept
<1>7. AcksAreTrue'
  BY AcksDropped
<1> QED
  BY <1>2, <1>3, <1>4, <1>5, <1>6, <1>7 DEF Inv

\* The connection breaks.
LEMMA ConnectionBreaksStep == ASSUME Inv, ConnectionBreaks PROVE Inv'
<1>1. Queue!Disconnect
  BY DEF ConnectionBreaks
<1>2. QueueProofs!Inv' /\ Queue!TypeOK'
  BY <1>1, QueueStep DEF Queue!Next, Inv
<1>3. /\ UNCHANGED <<queue, committed, refused, cache, lastRemote, history, past>>
      /\ viewUser' = current' /\ acks' = <<>> /\ cursor' = 0 /\ completion' = completion
  BY DEF ConnectionBreaks, Queue!Disconnect, Inv
<1> QED
  BY <1>2, <1>3, ResetStep

\* Another account signs in.
LEMMA HandleUserChangeStep == ASSUME Inv, NEW u \in Users, HandleUserChange(u) PROVE Inv'
<1>1. Queue!SwitchUser(u)
  BY DEF HandleUserChange
<1>2. QueueProofs!Inv' /\ Queue!TypeOK'
  BY <1>1, QueueStep DEF Queue!Next, Inv
<1>3. /\ UNCHANGED <<queue, committed, refused, cache, lastRemote, history, past>>
      /\ viewUser' = current' /\ acks' = <<>> /\ cursor' = 0 /\ completion' = completion
  BY DEF HandleUserChange, Queue!SwitchUser, Inv
<1> QED
  BY <1>2, <1>3, ResetStep

\* The process dies and starts again.
LEMMA RestartStep == ASSUME Inv, NEW u \in Users, Restart(u) PROVE Inv'
<1>1. Queue!Restart(u)
  BY DEF Restart
<1>2. QueueProofs!Inv' /\ Queue!TypeOK'
  BY <1>1, QueueStep DEF Queue!Next, Inv
<1>3. /\ UNCHANGED <<queue, committed, refused, cache, lastRemote, history, past>>
      /\ viewUser' = current' /\ acks' = <<>> /\ cursor' = 0
  BY DEF Restart, Queue!Restart, Inv
<1>4. \A w \in Writes : completion'[w] = "unissued" <=> completion[w] = "unissued"
  BY DEF Restart, Queue!Restart
<1> QED
  BY <1>2, <1>3, <1>4, ResetStep

-----------------------------------------------------------------------------
\* A write leaves a queue.
LEMMA PopFacts ==
  ASSUME NEW q \in [Users -> Seq(Writes)], NEW u \in Users, q[u] # <<>>,
         NEW g, g = [q EXCEPT ![u] = Tail(@)]
  PROVE  /\ \A v \in Users \ {u} : g[v] = q[v]
         /\ 1 \in DOMAIN q[u] /\ Head(q[u]) = q[u][1] /\ Head(q[u]) \in Writes
         /\ \A i \in DOMAIN g[u] : i \in Nat /\ i + 1 \in DOMAIN q[u] /\ g[u][i] = q[u][i + 1]
         /\ \A i \in DOMAIN q[u] : i # 1 => i \in Nat /\ i - 1 \in DOMAIN g[u]
                                           /\ g[u][i - 1] = q[u][i]
<1>1. q[u] \in Seq(Writes) /\ g[u] = Tail(q[u])
  OBVIOUS
<1>2. \A v \in Users \ {u} : g[v] = q[v]
  OBVIOUS
<1>3. PICK s : s = q[u]
  OBVIOUS
<1>4. PICK t : t = Tail(s)
  OBVIOUS
<1>5. /\ Len(s) \in Nat /\ DOMAIN s = 1 .. Len(s) /\ 1 \in DOMAIN s
      /\ Head(s) = s[1] /\ Head(s) \in Writes /\ DOMAIN t = 1 .. Len(s) - 1
      /\ \A i \in DOMAIN t : t[i] = s[i + 1] /\ i + 1 \in DOMAIN s
  BY <1>1, <1>3, <1>4, TailFacts
<1>6. \A i \in DOMAIN t : i \in Nat
  BY <1>5
<1>7. ASSUME NEW i \in DOMAIN s, i # 1
      PROVE  i \in Nat /\ i - 1 \in DOMAIN t /\ t[i - 1] = s[i]
  <2>1. i \in Nat /\ i - 1 \in DOMAIN t
    BY <1>5, <1>7
  <2>2. t[i - 1] = s[(i - 1) + 1]
    BY <1>5, <2>1
  <2>3. (i - 1) + 1 = i
    BY <2>1
  <2> QED
    BY <2>1, <2>2, <2>3
<1> QED
  BY <1>1, <1>2, <1>3, <1>4, <1>5, <1>6, <1>7

\* What remains pending when the oldest write of the account leaves its queue.
LEMMA PopPending ==
  ASSUME Inv, queue[current] # <<>>, queue' = [queue EXCEPT ![current] = Tail(@)]
  PROVE  /\ Head(queue[current]) \in Writes /\ Queue!Pending(Head(queue[current]))
         /\ \A w : Queue!Pending(w)' <=> Queue!Pending(w) /\ w # Head(queue[current])
<1>1. current \in Users /\ queue \in [Users -> Seq(Writes)]
  BY Typed DEF Inv
<1>2. /\ \A v \in Users \ {current} : queue'[v] = queue[v]
      /\ 1 \in DOMAIN queue[current]
      /\ Head(queue[current]) = queue[current][1] /\ Head(queue[current]) \in Writes
      /\ \A i \in DOMAIN queue'[current] :
           i \in Nat /\ i + 1 \in DOMAIN queue[current] /\ queue'[current][i] = queue[current][i + 1]
      /\ \A i \in DOMAIN queue[current] :
           i # 1 => i \in Nat /\ i - 1 \in DOMAIN queue'[current]
                              /\ queue'[current][i - 1] = queue[current][i]
  BY <1>1, PopFacts
<1>3. \A u, v \in Users : \A i \in DOMAIN queue[u], j \in DOMAIN queue[v] :
        queue[u][i] = queue[v][j] => u = v /\ i = j
  BY QueueFacts DEF Inv
<1>4. Queue!Pending(Head(queue[current]))
  BY <1>1, <1>2 DEF Queue!Pending
<1>5. ASSUME NEW w, Queue!Pending(w)'
      PROVE  Queue!Pending(w) /\ w # Head(queue[current])
  <2>1. PICK u \in Users : \E i \in DOMAIN queue'[u] : queue'[u][i] = w
    BY <1>5 DEF Queue!Pending
  <2>2. PICK i \in DOMAIN queue'[u] : queue'[u][i] = w
    BY <2>1
  <2>3. CASE u = current
    <3>1. i \in Nat /\ i + 1 \in DOMAIN queue[current] /\ w = queue[current][i + 1] /\ i + 1 # 1
      <4>1. i \in Nat /\ i + 1 \in DOMAIN queue[current] /\ w = queue[current][i + 1]
        BY <1>2, <2>2, <2>3
      <4>2. i # 0
        <5>1. queue'[current] \in Seq(Writes)
          BY <1>1
        <5> QED
          BY <2>2, <2>3, <5>1
      <4> QED
        BY <4>1, <4>2
    <3> QED
      BY <1>1, <1>2, <1>3, <3>1 DEF Queue!Pending
  <2>4. CASE u # current
    <3>1. i \in DOMAIN queue[u] /\ w = queue[u][i]
      BY <1>2, <2>2, <2>4
    <3> QED
      BY <1>1, <1>2, <1>3, <2>4, <3>1 DEF Queue!Pending
  <2> QED
    BY <2>3, <2>4
<1>6. ASSUME NEW w, Queue!Pending(w), w # Head(queue[current])
      PROVE  Queue!Pending(w)'
  <2>1. PICK u \in Users : \E i \in DOMAIN queue[u] : queue[u][i] = w
    BY <1>6 DEF Queue!Pending
  <2>2. PICK i \in DOMAIN queue[u] : queue[u][i] = w
    BY <2>1
  <2>3. CASE u = current
    <3>1. i # 1
      BY <1>2, <1>6, <2>2, <2>3
    <3>2. i - 1 \in DOMAIN queue'[current] /\ queue'[current][i - 1] = w
      BY <1>2, <2>2, <2>3, <3>1
    <3> QED
      BY <1>1, <3>2 DEF Queue!Pending
  <2>4. CASE u # current
    BY <1>2, <2>2, <2>4 DEF Queue!Pending
  <2> QED
    BY <2>3, <2>4
<1> QED
  BY <1>2, <1>4, <1>5, <1>6

\* The oldest write of the account is resolved, one way or the other.
LEMMA PopQueues ==
  ASSUME Inv, queue[current] # <<>>, queue' = [queue EXCEPT ![current] = Tail(@)],
         author' = author,
         \A w \in Writes : completion'[w] = "unissued" <=> completion[w] = "unissued",
         \/ acked' = acked \cup {Head(queue[current])} /\ refused' = refused
         \/ acked' = acked /\ refused' = refused \cup {Head(queue[current])}
  PROVE  QueuesAreOwn' /\ TextGoesFirst'
<1>1. PICK w : w = Head(queue[current])
  OBVIOUS
<1>2. /\ w \in Writes /\ Queue!Pending(w)
      /\ \A x : Queue!Pending(x)' <=> Queue!Pending(x) /\ x # w
  BY <1>1, PopPending
<1>3. current \in Users /\ queue \in [Users -> Seq(Writes)] /\ acked \in SUBSET Writes
  BY Typed DEF Inv
<1>4. /\ \A v \in Users \ {current} : queue'[v] = queue[v]
      /\ 1 \in DOMAIN queue[current] /\ w = queue[current][1]
      /\ \A i \in DOMAIN queue'[current] :
           i \in Nat /\ i + 1 \in DOMAIN queue[current] /\ queue'[current][i] = queue[current][i + 1]
  BY <1>1, <1>3, PopFacts
<1>5. completion[w] # "unissued"
  BY <1>2, QueueFacts DEF Inv
<1>6. /\ \A x \in Writes : author[x] = None <=> completion[x] = "unissued"
      /\ \A u \in Users : \A i \in DOMAIN queue[u] : author[queue[u][i]] = u
      /\ \A x \in acked : completion[x] # "unissued" /\ ~Queue!Pending(x)
      /\ \A x \in Writes : x \in acked \/ x \in refused \/ completion[x] = "unissued" \/ Queue!Pending(x)
  BY DEF Inv, QueuesAreOwn
<1>7. \A u \in Users : \A i \in DOMAIN queue'[u] : author'[queue'[u][i]] = u
  BY <1>4, <1>6
<1>8. \A x \in acked' : completion'[x] # "unissued" /\ ~Queue!Pending(x)'
  BY <1>1, <1>2, <1>3, <1>5, <1>6
<1>9. \A x \in Writes : x \in acked' \/ x \in refused' \/ completion'[x] = "unissued" \/ Queue!Pending(x)'
  BY <1>1, <1>2, <1>6
<1>10. QueuesAreOwn'
  BY <1>6, <1>7, <1>8, <1>9 DEF QueuesAreOwn
<1>11. ASSUME NEW a \in Articles
       PROVE  /\ completion'[Merge(a)] # "unissued" => completion'[Set(a)] # "unissued"
              /\ \A u \in Users : \A i, j \in DOMAIN queue'[u] :
                   queue'[u][i] = Set(a) /\ queue'[u][j] = Merge(a) => i < j
              /\ Queue!Pending(Set(a))' /\ author'[Set(a)] = author'[Merge(a)] => Merge(a) \notin acked'
  <2>1. Set(a) \in Writes /\ Merge(a) \in Writes /\ Set(a) # Merge(a)
    BY WriteFacts
  <2>2. /\ completion[Merge(a)] # "unissued" => completion[Set(a)] # "unissued"
        /\ \A u \in Users : \A i, j \in DOMAIN queue[u] :
             queue[u][i] = Set(a) /\ queue[u][j] = Merge(a) => i < j
        /\ Queue!Pending(Set(a)) /\ author[Set(a)] = author[Merge(a)] => Merge(a) \notin acked
    BY DEF Inv, TextGoesFirst
  <2>3. ASSUME NEW u \in Users, NEW i \in DOMAIN queue'[u], NEW j \in DOMAIN queue'[u],
               queue'[u][i] = Set(a), queue'[u][j] = Merge(a)
        PROVE  i < j
    <3>1. CASE u = current
      <4>1. /\ i \in Nat /\ i + 1 \in DOMAIN queue[current] /\ queue[current][i + 1] = Set(a)
            /\ j \in Nat /\ j + 1 \in DOMAIN queue[current] /\ queue[current][j + 1] = Merge(a)
        BY <1>4, <2>3, <3>1
      <4>2. i + 1 < j + 1
        BY <1>3, <2>2, <4>1
      <4> QED
        BY <4>1, <4>2
    <3>2. CASE u # current
      BY <1>4, <2>2, <2>3, <3>2
    <3> QED
      BY <3>1, <3>2
  <2>4. ASSUME Queue!Pending(Set(a))', author'[Set(a)] = author'[Merge(a)], Merge(a) \in acked'
        PROVE  FALSE
    <3>1. Queue!Pending(Set(a)) /\ Set(a) # w /\ Merge(a) \notin acked
      BY <1>2, <2>2, <2>4
    <3>2. w = Merge(a)
      BY <1>1, <2>4, <3>1
    <3>3. PICK u \in Users : \E i \in DOMAIN queue[u] : queue[u][i] = Set(a)
      BY <3>1 DEF Queue!Pending
    <3>4. PICK i \in DOMAIN queue[u] : queue[u][i] = Set(a)
      BY <3>3
    <3>5. author[Set(a)] = u /\ author[Merge(a)] = current
      <4>1. author[queue[u][i]] = u /\ author[queue[current][1]] = current
        BY <1>3, <1>4, <1>6
      <4> QED
        BY <1>4, <3>2, <3>4, <4>1
    <3>6. u = current
      BY <2>4, <3>5
    <3>7. i < 1
      BY <1>3, <1>4, <2>2, <3>2, <3>4, <3>6
    <3>8. queue[current] \in Seq(Writes)
      BY <1>3
    <3>9. i \in Nat /\ i >= 1
      BY <3>4, <3>6, <3>8
    <3> QED
      BY <3>7, <3>9
  <2> QED
    BY <2>1, <2>2, <2>3, <2>4
<1>12. TextGoesFirst'
  BY <1>11 DEF TextGoesFirst
<1> QED
  BY <1>10, <1>12

\* A write is refused: nothing is on its way then.
LEMMA RejectBatchStep == ASSUME Inv, RejectBatch PROVE Inv'
<1>1. Queue!Reject
  BY DEF RejectBatch
<1>2. QueueProofs!Inv' /\ Queue!TypeOK'
  BY <1>1, QueueStep DEF Queue!Next, Inv
<1>3. /\ queue[current] # <<>> /\ cursor = 0 /\ cursor' = 0 /\ current' = current
      /\ queue' = [queue EXCEPT ![current] = Tail(@)]
      /\ refused' = refused \cup {Head(queue[current])} /\ committed' = committed
      /\ UNCHANGED <<cache, viewUser, lastRemote, history, acks, author, acked, seen, forgotten>>
  BY DEF RejectBatch, Queue!Reject, server, past
<1>4. completion' = Queue!Notify(Head(queue[current]), "error")
  BY DEF RejectBatch, Queue!Reject
<1>5. Head(queue[current]) \in Writes /\ Queue!Pending(Head(queue[current]))
  BY <1>3, PopPending
<1>6. completion \in [Writes -> Queue!CompletionState]
  BY Typed DEF Inv
<1>7. \A w \in Writes : completion'[w] = "unissued" <=> completion[w] = "unissued"
  BY <1>4, <1>5, <1>6 DEF Queue!Notify
<1>8. QueuesAreOwn' /\ TextGoesFirst'
  BY <1>3, <1>7, PopQueues
<1>9. acks' = <<>>
  BY <1>3 DEF Inv, TypeOK
<1>10. TypeOK'
  BY <1>2, <1>3 DEF Inv, TypeOK, Now
<1>11. HistoryIsOrderly' /\ HistoryIsEarned'
  BY <1>3, HistoryKept
<1>12. CacheIsSound' /\ CacheIsEarned' /\ CacheIsUpToDate' /\ WatchHasTheLastWord'
  BY <1>3, CacheKept
<1>13. AcknowledgedIsCached'
  BY <1>3, AcknowledgedKept
<1>14. AcksAreTrue'
  BY <1>9, AcksDropped
<1>15. viewUser' = current'
  BY <1>3 DEF Inv
<1> QED
  BY <1>2, <1>8, <1>10, <1>11, <1>12, <1>13, <1>14, <1>15 DEF Inv

\* The app writes: the write goes behind all others of the account, and what is
\* written later for the same article goes behind it.
LEMMA WriteLocallyStep == ASSUME Inv, NEW w \in Writes, WriteLocally(w) PROVE Inv'
<1>1. Queue!Issue(w)
  BY DEF WriteLocally
<1>2. QueueProofs!Inv' /\ Queue!TypeOK'
  BY <1>1, QueueStep DEF Queue!Next, Inv
<1>3. /\ completion[w] = "unissued"
      /\ queue' = [queue EXCEPT ![current] = Append(@, w)]
      /\ completion' = [completion EXCEPT ![w] = "waiting"]
      /\ UNCHANGED <<current, cursor, committed, refused>>
      /\ w.kind = "merge" => completion[Set(w.article)] # "unissued"
      /\ author' = [author EXCEPT ![w] = current]
      /\ UNCHANGED <<cache, viewUser, lastRemote, history, acks, acked, seen, forgotten>>
  BY DEF WriteLocally, Queue!Issue, server
<1>4. /\ current \in Users /\ queue \in [Users -> Seq(Writes)] /\ acked \in SUBSET Writes
      /\ completion \in [Writes -> Queue!CompletionState]
      /\ author \in [Writes -> Users \cup {None}]
      /\ DOMAIN acks = 1 .. cursor /\ cursor \in Nat /\ cursor <= Len(queue[current])
  BY Typed DEF Inv
<1>5. /\ completion'[w] = "waiting" /\ author'[w] = current
      /\ \A x \in Writes \ {w} : completion'[x] = completion[x] /\ author'[x] = author[x]
  BY <1>3, <1>4
<1>6. \A v \in Users \ {current} : queue'[v] = queue[v]
  BY <1>3, <1>4
<1>7. /\ queue'[current] = Append(queue[current], w) /\ Len(queue[current]) \in Nat
      /\ DOMAIN queue[current] = 1 .. Len(queue[current])
      /\ DOMAIN queue'[current] = 1 .. Len(queue[current]) + 1
      /\ \A i \in DOMAIN queue[current] : queue'[current][i] = queue[current][i]
      /\ queue'[current][Len(queue[current]) + 1] = w
  <2>1. queue'[current] = Append(queue[current], w) /\ queue[current] \in Seq(Writes)
    BY <1>3, <1>4
  <2> QED
    BY <2>1, AppendFacts
<1>8. PICK n : n = Len(queue[current]) + 1
  OBVIOUS
<1>9. /\ n \in Nat /\ n \in DOMAIN queue'[current] /\ n \notin DOMAIN queue[current]
      /\ \A i \in DOMAIN queue'[current] : i = n \/ i \in DOMAIN queue[current]
      /\ \A i \in DOMAIN queue[current] : i \in Nat /\ i < n /\ i \in DOMAIN queue'[current]
      /\ queue'[current][n] = w
  BY <1>7, <1>8
<1>10. \A x : Queue!Pending(x)' <=> Queue!Pending(x) \/ x = w
  <2>1. ASSUME NEW x, Queue!Pending(x)'
        PROVE  Queue!Pending(x) \/ x = w
    BY <1>4, <1>6, <1>7, <1>9, <2>1, ZenonT(30) DEF Queue!Pending
  <2>2. ASSUME NEW x, Queue!Pending(x)
        PROVE  Queue!Pending(x)'
    BY <1>4, <1>6, <1>7, <1>9, <2>2 DEF Queue!Pending
  <2>3. Queue!Pending(w)'
    BY <1>4, <1>9 DEF Queue!Pending
  <2> QED
    BY <2>1, <2>2, <2>3
<1>11. /\ \A x \in Writes : author[x] = None <=> completion[x] = "unissued"
       /\ \A u \in Users : \A i \in DOMAIN queue[u] : author[queue[u][i]] = u
       /\ \A x \in acked : completion[x] # "unissued" /\ ~Queue!Pending(x)
       /\ \A x \in Writes : x \in acked \/ x \in refused \/ completion[x] = "unissued" \/ Queue!Pending(x)
  BY DEF Inv, QueuesAreOwn
<1>12. w \notin acked
  BY <1>3, <1>11
<1>13. \A u \in Users : \A i \in DOMAIN queue[u] : queue[u][i] \in Writes /\ queue[u][i] # w
  <2>1. ~Queue!Pending(w)
    BY <1>3, QueueFacts DEF Inv
  <2>2. \A u \in Users : \A i \in DOMAIN queue[u] : queue[u][i] \in Writes
    BY <1>4
  <2> QED
    BY <2>1, <2>2 DEF Queue!Pending
<1>14. QueuesAreOwn'
  <2>1. current # None
    BY <1>4, LocalViewAssumption
  <2>2. \A x \in Writes : author'[x] = None <=> completion'[x] = "unissued"
    BY <1>5, <1>11, <2>1
  <2>3. ASSUME NEW u \in Users, NEW i \in DOMAIN queue'[u]
        PROVE  author'[queue'[u][i]] = u
    <3>1. CASE u = current /\ i = n
      BY <1>5, <1>9, <3>1
    <3>2. CASE u # current \/ i # n
      <4>1. i \in DOMAIN queue[u] /\ queue'[u][i] = queue[u][i]
        BY <1>6, <1>7, <1>9, <2>3, <3>2
      <4> QED
        BY <1>5, <1>11, <1>13, <4>1
    <3> QED
      BY <3>1, <3>2
  <2>4. \A x \in acked' : completion'[x] # "unissued" /\ ~Queue!Pending(x)'
    BY <1>3, <1>4, <1>5, <1>10, <1>11, <1>12
  <2>5. \A x \in Writes : x \in acked' \/ x \in refused' \/ completion'[x] = "unissued" \/ Queue!Pending(x)'
    BY <1>3, <1>5, <1>10, <1>11
  <2> QED
    BY <2>2, <2>3, <2>4, <2>5 DEF QueuesAreOwn
<1>15. ASSUME NEW a \in Articles
       PROVE  /\ completion'[Merge(a)] # "unissued" => completion'[Set(a)] # "unissued"
              /\ \A u \in Users : \A i, j \in DOMAIN queue'[u] :
                   queue'[u][i] = Set(a) /\ queue'[u][j] = Merge(a) => i < j
              /\ Queue!Pending(Set(a))' /\ author'[Set(a)] = author'[Merge(a)] => Merge(a) \notin acked'
  <2>1. /\ Set(a) \in Writes /\ Merge(a) \in Writes /\ Set(a) # Merge(a)
        /\ Merge(a).kind = "merge" /\ Merge(a).article = a
    BY WriteFacts
  <2>2. /\ completion[Merge(a)] # "unissued" => completion[Set(a)] # "unissued"
        /\ \A u \in Users : \A i, j \in DOMAIN queue[u] :
             queue[u][i] = Set(a) /\ queue[u][j] = Merge(a) => i < j
        /\ Queue!Pending(Set(a)) /\ author[Set(a)] = author[Merge(a)] => Merge(a) \notin acked
    BY DEF Inv, TextGoesFirst
  <2>3. completion'[Merge(a)] # "unissued" => completion'[Set(a)] # "unissued"
    BY <1>3, <1>5, <2>1, <2>2
  <2>4. w = Set(a) => completion[Merge(a)] = "unissued" /\ ~Queue!Pending(Merge(a)) /\ Merge(a) \notin acked
    BY <1>3, <1>11, <2>1, <2>2, QueueFacts DEF Inv
  <2>5. ASSUME NEW u \in Users, NEW i \in DOMAIN queue'[u], NEW j \in DOMAIN queue'[u],
               queue'[u][i] = Set(a), queue'[u][j] = Merge(a)
        PROVE  i < j
    <3>1. CASE u # current
      BY <1>6, <2>2, <2>5, <3>1
    <3>2. CASE u = current /\ w = Set(a)
      <4>1. j # n
        BY <1>9, <2>1, <2>5, <3>2
      <4>2. j \in DOMAIN queue[current] /\ queue[current][j] = Merge(a)
        BY <1>7, <1>9, <2>5, <3>2, <4>1
      <4> QED
        BY <1>4, <2>4, <3>2, <4>2 DEF Queue!Pending
    <3>3. CASE u = current /\ w # Set(a)
      <4>1. i \in DOMAIN queue[current] /\ queue[current][i] = Set(a)
        BY <1>7, <1>9, <2>5, <3>3
      <4>2. CASE j = n
        BY <1>9, <4>1, <4>2
      <4>3. CASE j # n
        <5>1. j \in DOMAIN queue[current] /\ queue[current][j] = Merge(a)
          BY <1>7, <1>9, <2>5, <3>3, <4>3
        <5> QED
          BY <1>4, <2>2, <4>1, <5>1
      <4> QED
        BY <4>2, <4>3
    <3> QED
      BY <3>1, <3>2, <3>3
  <2>6. Queue!Pending(Set(a))' /\ author'[Set(a)] = author'[Merge(a)] => Merge(a) \notin acked'
    BY <1>3, <1>5, <1>10, <1>12, <2>1, <2>2, <2>4
  <2> QED
    BY <2>3, <2>5, <2>6
<1>16. TextGoesFirst'
  BY <1>15 DEF TextGoesFirst
<1>17. AcknowledgedIsCached'
  <2>1. ASSUME NEW a \in Articles, Set(a) \in acked, Merge(a) \in acked
        PROVE  OneAuthor(a)' <=> OneAuthor(a)
    <3>1. Set(a) # w /\ Merge(a) # w
      BY <1>12, <2>1
    <3> QED
      BY <1>5, <3>1, WriteFacts DEF OneAuthor
  <2>2. Now' = Now
    BY <1>3 DEF Now
  <2>3. \A a \in Articles : HasSince(a, "picture", cache[a].version)' <=> HasSince(a, "picture", cache[a].version)
    BY <1>3, <2>2 DEF HasSince
  <2> QED
    BY <1>3, <2>1, <2>3 DEF AcknowledgedIsCached, Inv
<1>18. AcksAreTrue'
  <2>1. \A i \in DOMAIN acks : i \in DOMAIN queue[current]
    BY <1>4, <1>7
  <2> QED
    BY <1>3, <1>7, <2>1, AcksKept
<1>19. TypeOK'
  <2>1. author' \in [Writes -> Users \cup {None}]
    BY <1>3, <1>4
  <2> QED
    BY <1>2, <1>3, <2>1 DEF Inv, TypeOK, Now
<1>20. HistoryIsOrderly' /\ HistoryIsEarned'
  BY <1>3, HistoryKept
<1>21. CacheIsSound' /\ CacheIsEarned' /\ CacheIsUpToDate' /\ WatchHasTheLastWord'
  BY <1>3, CacheKept
<1>22. viewUser' = current'
  BY <1>3 DEF Inv
<1> QED
  BY <1>2, <1>14, <1>16, <1>17, <1>18, <1>19, <1>20, <1>21, <1>22 DEF Inv

-----------------------------------------------------------------------------
\* A field once there stays, and so does the version it came with.
LEMMA SinceFacts ==
  ASSUME TypeOK, NEW a \in Articles, HistoryOf(history, Now, a),
         NEW f, NEW v \in Versions, NEW w \in Versions, v <= w
  PROVE  /\ HasSince(a, f, v) => f \in history[w][a].fields /\ HasSince(a, f, w)
         /\ history[v][a].version <= history[w][a].version
         /\ history[v][a].version <= v
         /\ history[v][a].version = 0 <=> history[v][a].fields = {}
         /\ "text" \in history[v][a].fields => HasSince(a, "text", v)
<1>1. /\ Now \in Nat /\ v \in Nat /\ w \in Nat /\ v <= Now /\ w <= Now /\ v \in 1 .. Now
      /\ w \in v .. Now /\ \A x \in w .. Now : x \in v .. Now
  BY Typed DEF Versions
<1>2. HasSince(a, f, v) => f \in history[w][a].fields /\ HasSince(a, f, w)
  BY <1>1 DEF HasSince
<1>3. /\ history[v][a].version <= v
      /\ history[v][a].version = 0 <=> history[v][a].fields = {}
      /\ \A x \in v .. Now :
           /\ history[v][a].version <= history[x][a].version
           /\ "text" \in history[v][a].fields => "text" \in history[x][a].fields
  BY <1>1 DEF HistoryOf
<1> QED
  BY <1>1, <1>2, <1>3 DEF HasSince

\* The row that a commit of write w adds to the history; version is the one in the
\* acknowledgement.
Recorded(w, version) ==
  /\ Now' = Now + 1
  /\ \A v \in Versions : history'[v] = history[v]
  /\ \A a \in Articles : a # w.article => history'[Now + 1][a] = history[Now][a]
  /\ \/ /\ version = Now + 1
        /\ history'[Now + 1][w.article] = Doc(Now + 1, Applied(history[Now][w.article].fields, w))
     \/ /\ version = history[Now][w.article].version
        /\ history'[Now + 1][w.article] = history[Now][w.article]
        /\ Applied(history[Now][w.article].fields, w) = history[Now][w.article].fields

\* What the server's commit does.
LEMMA CommitFacts ==
  ASSUME Inv, ServerCommits
  PROVE  /\ cursor + 1 \in DOMAIN queue[current] /\ queue[current][cursor + 1] \in Writes
         /\ Now < MaxVersion
         /\ UNCHANGED <<current, queue, refused, completion, cache, viewUser, lastRemote,
                        author, acked, seen, forgotten>>
         /\ cursor' = cursor + 1
         /\ committed' = committed \cup {queue[current][cursor + 1]}
         /\ history' \in Seq([Articles -> [version : 0 .. MaxVersion, fields : SUBSET Fields]])
         /\ \E version \in 1 .. MaxVersion :
              Recorded(queue[current][cursor + 1], version) /\ acks' = Append(acks, version)
<1>1. PICK w : w = queue[current][cursor + 1]
  OBVIOUS
<1>2. /\ cursor < Len(queue[current]) /\ Now < MaxVersion
      /\ UNCHANGED <<current, queue, refused, completion, cache, viewUser, lastRemote,
                     author, acked, seen, forgotten>>
      /\ cursor' = cursor + 1 /\ committed' = committed \cup {w}
  BY <1>1 DEF ServerCommits, Queue!Commit, past
<1>3. /\ current \in Users /\ queue \in [Users -> Seq(Writes)]
      /\ cursor \in Nat /\ MaxVersion \in Nat /\ Now \in Nat /\ Now \in Versions
      /\ DOMAIN history = Versions
      /\ history \in Seq([Articles -> [version : 0 .. MaxVersion, fields : SUBSET Fields]])
  BY Typed DEF Inv
<1>4. cursor + 1 \in DOMAIN queue[current] /\ w \in Writes
  <2>1. queue[current] \in Seq(Writes)
    BY <1>3
  <2>2. cursor + 1 \in DOMAIN queue[current]
    BY <1>2, <1>3, <2>1
  <2> QED
    BY <1>1, <2>1, <2>2
<1>5. w.article \in Articles
  BY <1>4, WriteFacts
<1>6. PICK version \in {Now + 1} \cup
          (IF Applied(history[Now][w.article].fields, w) = history[Now][w.article].fields
           THEN {history[Now][w.article].version} ELSE {}) :
        /\ history' = Append(history,
                        [history[Now] EXCEPT ![w.article] =
                           Doc(version, Applied(history[Now][w.article].fields, w))])
        /\ acks' = Append(acks, version)
  BY <1>1 DEF ServerCommits
<1>7. PICK old : old = history[Now][w.article]
  OBVIOUS
<1>8. PICK new : new = Applied(old.fields, w)
  OBVIOUS
<1>9. /\ old.version \in Nat /\ old.version <= MaxVersion /\ old.fields \in SUBSET Fields
      /\ old = Doc(old.version, old.fields)
      /\ history[Now] \in [Articles -> [version : 0 .. MaxVersion, fields : SUBSET Fields]]
      /\ old.version = 0 <=> old.fields = {}
  <2>1. HistoryOf(history, Now, w.article)
    BY <1>5 DEF Inv, HistoryIsOrderly
  <2>2. old.version = 0 <=> old.fields = {}
    BY <1>3, <1>7, <2>1 DEF HistoryOf, Versions
  <2> QED
    BY <1>3, <1>5, <1>7, <2>2, HistoryTyped DEF Inv
<1>10. new \in SUBSET Fields /\ new # {}
  BY <1>4, <1>5, <1>8, <1>9, AppliedFacts
<1>11. \/ version = Now + 1
       \/ version = old.version /\ new = old.fields
  BY <1>6, <1>7, <1>8
<1>12. version \in 1 .. MaxVersion
  <2>1. CASE version = Now + 1
    BY <1>2, <1>3, <2>1
  <2>2. CASE version = old.version /\ new = old.fields
    <3>1. old.version # 0
      BY <1>9, <1>10, <2>2
    <3> QED
      BY <1>3, <1>9, <2>2, <3>1
  <2> QED
    BY <1>11, <2>1, <2>2
<1>13. PICK row : row = [history[Now] EXCEPT ![w.article] = Doc(version, new)]
  OBVIOUS
<1>14. /\ row \in [Articles -> [version : 0 .. MaxVersion, fields : SUBSET Fields]]
       /\ row[w.article] = Doc(version, new)
       /\ \A a \in Articles : a # w.article => row[a] = history[Now][a]
  <2>1. version \in 0 .. MaxVersion
    BY <1>12
  <2>2. Doc(version, new) \in [version : 0 .. MaxVersion, fields : SUBSET Fields]
    BY <1>10, <2>1 DEF Doc
  <2> QED
    BY <1>5, <1>9, <1>13, <2>2
<1>15. history' = Append(history, row)
  BY <1>6, <1>7, <1>8, <1>13
<1>16. /\ history' \in Seq([Articles -> [version : 0 .. MaxVersion, fields : SUBSET Fields]])
       /\ Len(history') = Now + 1
       /\ \A v \in Versions : history'[v] = history[v]
       /\ history'[Now + 1] = row
  BY <1>3, <1>14, <1>15, AppendFacts DEF Now
<1>17. Recorded(w, version)
  <2>1. Now' = Now + 1
    BY <1>16 DEF Now
  <2>2. \A a \in Articles : a # w.article => history'[Now + 1][a] = history[Now][a]
    BY <1>14, <1>16
  <2>3. \/ version = Now + 1 /\ history'[Now + 1][w.article] = Doc(Now + 1, new)
        \/ /\ version = old.version /\ history'[Now + 1][w.article] = old /\ new = old.fields
    BY <1>9, <1>11, <1>14, <1>16
  <2> QED
    BY <1>7, <1>8, <1>16, <2>1, <2>2, <2>3 DEF Recorded
<1>18. acks' = Append(acks, version)
  BY <1>6
<1> QED
  BY <1>1, <1>2, <1>4, <1>12, <1>16, <1>17, <1>18

\* How the documents of the server change with a commit: only the one it is about, its
\* version grows with it, the text stays, and what was written stays unless the write
\* is a text.
LEMMA RecordedFacts ==
  ASSUME Inv, NEW w \in Writes, NEW version, Recorded(w, version), NEW a \in Articles
  PROVE  /\ Now + 1 \in Nat /\ Now + 1 = Now' /\ Now \in Versions
         /\ \A v \in Versions : v \in Nat /\ v <= Now /\ v \in Versions' /\ history'[v] = history[v]
         /\ Versions' = Versions \cup {Now + 1}
         /\ history'[Now + 1][a].version \in Nat
         /\ history[Now][a].version <= history'[Now + 1][a].version
         /\ \/ history'[Now + 1][a] = history[Now][a]
            \/ /\ w.article = a /\ version = Now + 1
               /\ history'[Now + 1][a] = Doc(Now + 1, Applied(history[Now][a].fields, w))
         /\ "text" \in history[Now][a].fields => "text" \in history'[Now + 1][a].fields
         /\ "picture" \in history[Now][a].fields /\ w # Set(a) =>
              "picture" \in history'[Now + 1][a].fields
<1>1. /\ Now \in Nat /\ Now >= 1 /\ Now \in Versions /\ Versions = 1 .. Now
  BY Typed DEF Inv, Versions
<1>2. /\ Now' = Now + 1 /\ Versions' = 1 .. Now + 1
      /\ \A v \in Versions : history'[v] = history[v]
  BY DEF Recorded, Versions
<1>3. Versions' = Versions \cup {Now + 1} /\ \A v \in Versions : v \in Nat /\ v <= Now
  BY <1>1, <1>2
<1>4. \/ history'[Now + 1][a] = history[Now][a]
      \/ /\ w.article = a /\ version = Now + 1
         /\ history'[Now + 1][a] = Doc(Now + 1, Applied(history[Now][a].fields, w))
  BY DEF Recorded
<1>5. PICK old : old = history[Now][a]
  OBVIOUS
<1>6. PICK new : new = history'[Now + 1][a]
  OBVIOUS
<1>7. HistoryOf(history, Now, a)
  BY DEF Inv, HistoryIsOrderly
<1>8. old.version \in Nat /\ old.version <= Now
  <2>1. old.version \in Nat
    BY <1>1, <1>5, HistoryTyped DEF Inv
  <2>2. old.version <= Now
    BY <1>1, <1>5, <1>7 DEF HistoryOf
  <2> QED
    BY <2>1, <2>2
<1>9. CASE new = old
  BY <1>1, <1>2, <1>3, <1>4, <1>5, <1>6, <1>8, <1>9
<1>10. CASE /\ w.article = a /\ version = Now + 1
            /\ new = Doc(Now + 1, Applied(old.fields, w))
  <2>1. new.version = Now + 1 /\ new.fields = Applied(old.fields, w)
    BY <1>10 DEF Doc
  <2>2. "text" \in old.fields => "text" \in Applied(old.fields, w)
    BY AppliedFacts
  <2>3. w # Set(a) => Applied(old.fields, w) = old.fields \cup {"picture"}
    <3>1. w.kind = "set" => w = Set(w.article)
      BY WriteFacts
    <3> QED
      BY <1>10, <3>1, AppliedFacts
  <2>4. new.version \in Nat /\ old.version <= new.version
    BY <1>1, <1>8, <2>1
  <2> QED
    BY <1>1, <1>2, <1>3, <1>4, <1>5, <1>6, <2>1, <2>2, <2>3, <2>4
<1> QED
  BY <1>4, <1>5, <1>6, <1>9, <1>10

\* A commit keeps what the server has been having since some version, but for the
\* picture that a text overwrites.
LEMMA SinceKept ==
  ASSUME Inv, NEW w \in Writes, NEW version, Recorded(w, version), NEW a \in Articles,
         NEW v \in Versions
  PROVE  /\ HasSince(a, "text", v) => HasSince(a, "text", v)'
         /\ HasSince(a, "picture", v) /\ w # Set(a) => HasSince(a, "picture", v)'
<1>1. /\ Now' = Now + 1 /\ Now \in Nat /\ v \in Nat /\ v >= 1 /\ v <= Now /\ Now \in v .. Now
      /\ Versions = 1 .. Now
      /\ \A x \in Versions : history'[x] = history[x]
      /\ "text" \in history[Now][a].fields => "text" \in history'[Now + 1][a].fields
      /\ "picture" \in history[Now][a].fields /\ w # Set(a) =>
              "picture" \in history'[Now + 1][a].fields
  <2>1. Now \in Nat /\ Versions = 1 .. Now
    BY Typed DEF Inv, Versions
  <2>2. v \in Nat /\ v >= 1 /\ v <= Now /\ Now \in v .. Now
    BY <2>1
  <2>3. /\ Now' = Now + 1
        /\ \A x \in Versions : history'[x] = history[x]
        /\ "text" \in history[Now][a].fields => "text" \in history'[Now + 1][a].fields
        /\ "picture" \in history[Now][a].fields /\ w # Set(a) =>
              "picture" \in history'[Now + 1][a].fields
    BY RecordedFacts
  <2> QED
    BY <2>1, <2>2, <2>3
<1>2. ASSUME NEW x \in v .. Now + 1
      PROVE  x = Now + 1 \/ (x \in v .. Now /\ x \in Versions)
  BY <1>1
<1> QED
  BY <1>1, <1>2 DEF HasSince

\* The history remains orderly with the row of a commit.
LEMMA OrderlyWithRow ==
  ASSUME Inv, NEW w \in Writes, NEW version, Recorded(w, version), NEW a \in Articles
  PROVE  HistoryOf(history, Now, a)'
<1>1. /\ Now \in Nat /\ Now >= 1 /\ Versions = 1 .. Now
  BY Typed DEF Inv, Versions
<1>2. /\ Now' = Now + 1 /\ Now \in Versions
      /\ \A v \in Versions : history'[v] = history[v]
      /\ history'[Now + 1][a].version \in Nat
      /\ history[Now][a].version <= history'[Now + 1][a].version
      /\ \/ history'[Now + 1][a] = history[Now][a]
         \/ /\ w.article = a /\ version = Now + 1
            /\ history'[Now + 1][a] = Doc(Now + 1, Applied(history[Now][a].fields, w))
      /\ "text" \in history[Now][a].fields => "text" \in history'[Now + 1][a].fields
  BY RecordedFacts
<1>3. HistoryOf(history, Now, a)
  BY DEF Inv, HistoryIsOrderly
<1>4. PICK n \in Nat : n = Now
  BY <1>1
<1>5. PICK h : h = history
  OBVIOUS
<1>6. PICK g : g = history'
  OBVIOUS
<1>7. /\ n >= 1
      /\ \A v \in 1 .. n : g[v] = h[v]
      /\ g[n + 1][a].version \in Nat
      /\ h[n][a].version <= g[n + 1][a].version
      /\ \/ g[n + 1][a] = h[n][a]
         \/ /\ w.article = a
            /\ g[n + 1][a] = Doc(n + 1, Applied(h[n][a].fields, w))
      /\ "text" \in h[n][a].fields => "text" \in g[n + 1][a].fields
      /\ HistoryOf(h, n, a)
      /\ \A v \in 1 .. n : h[v][a].version \in Nat
  <2>1. \A v \in 1 .. n : h[v][a].version \in Nat
    BY <1>1, <1>4, <1>5, HistoryTyped DEF Inv
  <2> QED
    BY <1>1, <1>2, <1>3, <1>4, <1>5, <1>6, <2>1
<1>8. ASSUME NEW v \in 1 .. n
      PROVE  /\ g[v][a].version <= v
             /\ g[v][a].version = 0 <=> g[v][a].fields = {}
             /\ g[v][a].version # 0 => g[g[v][a].version][a] = g[v][a]
             /\ \A x \in v .. n + 1 :
                  /\ g[v][a].version <= g[x][a].version
                  /\ "text" \in g[v][a].fields => "text" \in g[x][a].fields
  <2>1. /\ h[v][a].version <= v
        /\ h[v][a].version = 0 <=> h[v][a].fields = {}
        /\ h[v][a].version # 0 => h[h[v][a].version][a] = h[v][a]
        /\ \A x \in v .. n :
             /\ h[v][a].version <= h[x][a].version
             /\ "text" \in h[v][a].fields => "text" \in h[x][a].fields
    BY <1>7, <1>8 DEF HistoryOf
  <2>2. g[v] = h[v] /\ h[v][a].version \in Nat
    BY <1>7, <1>8
  <2>3. h[v][a].version # 0 => h[v][a].version \in 1 .. n
    BY <2>1, <2>2
  <2>4. h[v][a].version # 0 => g[h[v][a].version][a] = h[v][a]
    BY <1>7, <2>1, <2>3
  <2>5. ASSUME NEW x \in v .. n + 1
        PROVE  /\ h[v][a].version <= g[x][a].version
               /\ "text" \in h[v][a].fields => "text" \in g[x][a].fields
    <3>1. CASE x \in v .. n
      <4>1. g[x] = h[x]
        BY <1>7, <3>1
      <4> QED
        BY <2>1, <3>1, <4>1
    <3>2. CASE x \notin v .. n
      <4>1. x = n + 1
        BY <3>2
      <4>2. /\ h[v][a].version <= h[n][a].version
            /\ "text" \in h[v][a].fields => "text" \in h[n][a].fields
        <5>1. n \in v .. n
          OBVIOUS
        <5> QED
          BY <2>1, <5>1
      <4>3. h[n][a].version \in Nat
        BY <1>7
      <4> QED
        BY <1>7, <2>2, <4>1, <4>2, <4>3
    <3> QED
      BY <3>1, <3>2
  <2> QED
    BY <2>1, <2>2, <2>4, <2>5
<1>9. /\ g[n + 1][a].version <= n + 1
      /\ g[n + 1][a].version = 0 <=> g[n + 1][a].fields = {}
      /\ g[n + 1][a].version # 0 => g[g[n + 1][a].version][a] = g[n + 1][a]
  <2>1. n \in 1 .. n
    BY <1>7
  <2>2. /\ h[n][a].version <= n
        /\ h[n][a].version = 0 <=> h[n][a].fields = {}
        /\ h[n][a].version # 0 => h[h[n][a].version][a] = h[n][a]
        /\ h[n][a].version \in Nat
    BY <1>7, <2>1 DEF HistoryOf
  <2>3. CASE g[n + 1][a] = h[n][a]
    <3>1. h[n][a].version # 0 => g[h[n][a].version] = h[h[n][a].version]
      <4>1. h[n][a].version # 0 => h[n][a].version \in 1 .. n
        BY <2>2
      <4> QED
        BY <1>7, <4>1
    <3> QED
      BY <2>2, <2>3, <3>1
  <2>4. CASE /\ w.article = a
             /\ g[n + 1][a] = Doc(n + 1, Applied(h[n][a].fields, w))
    <3>1. Applied(h[n][a].fields, w) # {}
      BY AppliedFacts
    <3>2. g[n + 1][a].version = n + 1 /\ g[n + 1][a].fields # {}
      BY <2>4, <3>1 DEF Doc
    <3> QED
      BY <3>2
  <2> QED
    BY <1>7, <2>3, <2>4
<1>10. HistoryOf(g, n + 1, a)
  <2>1. ASSUME NEW v \in 1 .. n + 1
        PROVE  /\ g[v][a].version <= v
               /\ g[v][a].version = 0 <=> g[v][a].fields = {}
               /\ g[v][a].version # 0 => g[g[v][a].version][a] = g[v][a]
               /\ \A x \in v .. n + 1 :
                    /\ g[v][a].version <= g[x][a].version
                    /\ "text" \in g[v][a].fields => "text" \in g[x][a].fields
    <3>1. CASE v \in 1 .. n
      BY <1>8, <3>1
    <3>2. CASE v \notin 1 .. n
      <4>1. v = n + 1
        BY <3>2
      <4>2. \A x \in v .. n + 1 : x = v
        BY <4>1
      <4>3. g[v][a].version <= g[v][a].version
        BY <1>7, <4>1
      <4> QED
        BY <1>9, <4>1, <4>2, <4>3
    <3> QED
      BY <3>1, <3>2
  <2> QED
    BY <2>1 DEF HistoryOf
<1> QED
  BY <1>2, <1>4, <1>6, <1>10 DEF HistoryOf

\* The acknowledgements under way remain true, and the new one is.
LEMMA AcksAfterCommit ==
  ASSUME Inv, ServerCommits
  PROVE  AcksAreTrue'
<1>1. PICK version \in 1 .. MaxVersion :
        Recorded(queue[current][cursor + 1], version) /\ acks' = Append(acks, version)
  BY CommitFacts
<1>2. PICK w : w = queue[current][cursor + 1]
  OBVIOUS
<1>3. /\ w \in Writes /\ cursor + 1 \in DOMAIN queue[current]
      /\ current' = current /\ queue' = queue /\ Recorded(w, version)
  BY <1>1, <1>2, CommitFacts
<1>4. /\ acks \in Seq(1 .. MaxVersion) /\ DOMAIN acks = 1 .. cursor /\ cursor \in Nat
      /\ Len(acks) = cursor /\ current \in Users /\ queue \in [Users -> Seq(Writes)]
      /\ Now \in Nat /\ Now >= 1 /\ Versions = 1 .. Now /\ Now \in Versions
  BY Typed DEF Inv, Versions
<1>5. /\ DOMAIN acks' = 1 .. cursor + 1
      /\ \A i \in DOMAIN acks : acks'[i] = acks[i]
      /\ acks'[cursor + 1] = version
  BY <1>1, <1>4, AppendFacts
<1>6. /\ Now' = Now + 1 /\ Versions' = Versions \cup {Now + 1}
      /\ \A v \in Versions : v \in Nat /\ v <= Now /\ v \in Versions' /\ history'[v] = history[v]
  <2>1. w.article \in Articles
    BY <1>3, WriteFacts
  <2> QED
    BY <1>3, <2>1, RecordedFacts
<1>7. ASSUME NEW i \in DOMAIN acks
      PROVE  AckIsTrue(queue[current][i], acks[i])'
  <2>1. PICK x : x = queue[current][i]
    OBVIOUS
  <2>2. PICK v : v = acks[i]
    OBVIOUS
  <2>3. AckIsTrue(x, v)
    BY <1>7, <2>1, <2>2 DEF Inv, AcksAreTrue
  <2>4. i \in DOMAIN queue[current] /\ i < cursor + 1 /\ x \in Writes
    <3>1. queue[current] \in Seq(Writes)
      BY <1>4
    <3>2. cursor + 1 <= Len(queue[current]) /\ i \in 1 .. cursor
      BY <1>3, <1>4, <3>1
    <3> QED
      BY <1>4, <2>1, <3>1, <3>2
  <2>5. x.article \in Articles /\ v \in Versions
    BY <2>3, <2>4, WriteFacts DEF AckIsTrue
  <2>6. x.kind # "set" => w # Set(x.article)
    <3>1. SUFFICES ASSUME x.kind # "set", w = Set(x.article) PROVE FALSE
      OBVIOUS
    <3>2. x = Merge(x.article)
      BY <2>4, <3>1, WriteFacts
    <3>3. cursor + 1 < i
      BY <1>2, <1>3, <1>4, <2>1, <2>4, <2>5, <3>1, <3>2 DEF Inv, TextGoesFirst
    <3> QED
      BY <1>4, <2>4, <3>3
  <2>7. HasSince(x.article, FieldOf(x), v) => HasSince(x.article, FieldOf(x), v)'
    <3>1. CASE x.kind = "set"
      <4>1. FieldOf(x) = "text"
        BY <2>4, <3>1, WriteFacts
      <4>2. HasSince(x.article, "text", v) => HasSince(x.article, "text", v)'
        BY <1>3, <2>5, SinceKept
      <4> QED
        BY <4>1, <4>2
    <3>2. CASE x.kind # "set"
      <4>1. FieldOf(x) = "picture"
        BY <2>4, <3>2, WriteFacts
      <4>2. HasSince(x.article, "picture", v) => HasSince(x.article, "picture", v)'
        BY <1>3, <2>5, <2>6, <3>2, SinceKept
      <4> QED
        BY <4>1, <4>2
    <3> QED
      BY <3>1, <3>2
  <2>8. AckIsTrue(x, v)'
    <3>1. HasSince(x.article, FieldOf(x), v)'
      BY <2>3, <2>7 DEF AckIsTrue
    <3>2. v \in Versions' /\ history'[v] = history[v]
      BY <1>6, <2>5
    <3> QED
      BY <2>3, <3>1, <3>2 DEF AckIsTrue
  <2> QED
    BY <1>3, <1>5, <1>7, <2>1, <2>2, <2>8 DEF AckIsTrue
<1>8. AckIsTrue(w, version)'
  <2>1. PICK a : a = w.article
    OBVIOUS
  <2>2. a \in Articles /\ Now + 1 \in Versions'
    BY <1>3, <1>6, <2>1, WriteFacts
  <2>3. FieldOf(w) \in Applied(history[Now][a].fields, w)
        /\ (w.kind = "set" => Applied(history[Now][a].fields, w) = {"text"})
        /\ Applied(history[Now][a].fields, w) # {}
    BY <1>3, <2>2, AppliedFacts
  <2>4. CASE /\ version = Now + 1
             /\ history'[Now + 1][a] = Doc(Now + 1, Applied(history[Now][a].fields, w))
    <3>1. /\ history'[version][a].version = version
          /\ history'[version][a].fields = Applied(history[Now][a].fields, w)
      BY <2>4 DEF Doc
    <3>2. \A x \in version .. Now' : x = version
      BY <1>4, <1>6, <2>4
    <3>3. HasSince(a, FieldOf(w), version)'
      BY <2>3, <3>1, <3>2 DEF HasSince
    <3> QED
      BY <2>1, <2>2, <2>3, <2>4, <3>1, <3>3 DEF AckIsTrue
  <2>5. CASE /\ version = history[Now][a].version
             /\ history'[Now + 1][a] = history[Now][a]
             /\ Applied(history[Now][a].fields, w) = history[Now][a].fields
    <3>1. HistoryOf(history, Now, a)
      BY <2>2 DEF Inv, HistoryIsOrderly
    <3>2. PICK old : old = history[Now][a]
      OBVIOUS
    <3>3. /\ old.version = version /\ version \in Nat /\ version <= Now /\ version # 0
          /\ history[version][a] = old
      BY <1>1, <1>4, <2>5, <3>1, <3>2 DEF HistoryOf
    <3>4. version \in Versions /\ history'[version] = history[version]
      BY <1>4, <1>6, <3>3
    <3>5. ASSUME NEW x \in version .. Now'
          PROVE  history'[x][a] = old
      <4>1. CASE x = Now + 1
        BY <2>5, <3>2, <4>1
      <4>2. CASE x # Now + 1
        <5>1. x \in Nat /\ version <= x /\ x <= Now /\ x \in Versions
          BY <1>4, <1>6, <3>3, <4>2
        <5>2. PICK d : d = history[x][a]
          OBVIOUS
        <5>3. d.version \in Nat
          BY <2>2, <5>1, <5>2, HistoryTyped DEF Inv
        <5>4. x \in version .. Now /\ Now \in x .. Now /\ version \in 1 .. Now /\ x \in 1 .. Now
          BY <1>4, <3>3, <5>1
        <5>5. version <= d.version /\ d.version <= version
          <6>1. history[version][a].version <= history[x][a].version
            BY <3>1, <5>4 DEF HistoryOf
          <6>2. history[x][a].version <= history[Now][a].version
            BY <3>1, <5>4 DEF HistoryOf
          <6> QED
            BY <3>2, <3>3, <5>2, <6>1, <6>2
        <5>6. d.version = version
          BY <3>3, <5>3, <5>5
        <5>7. history[d.version][a] = d
          BY <3>1, <3>3, <5>2, <5>4, <5>6 DEF HistoryOf
        <5> QED
          BY <1>6, <3>3, <5>1, <5>2, <5>6, <5>7
      <4> QED
        BY <4>1, <4>2
    <3>6. FieldOf(w) \in old.fields /\ (w.kind = "set" => old.fields = {"text"})
      BY <2>3, <2>5, <3>2
    <3>7. HasSince(a, FieldOf(w), version)'
      BY <3>5, <3>6 DEF HasSince
    <3>8. history'[version][a] = old
      BY <3>3, <3>4
    <3>9. version \in Versions'
      BY <1>6, <3>4
    <3> QED
      BY <2>1, <3>3, <3>6, <3>7, <3>8, <3>9 DEF AckIsTrue
  <2> QED
    BY <1>3, <2>1, <2>4, <2>5 DEF Recorded
<1>9. ASSUME NEW i \in DOMAIN acks'
      PROVE  AckIsTrue(queue[current][i], acks[i])'
  <2>1. CASE i \in DOMAIN acks
    BY <1>7, <2>1
  <2>2. CASE i \notin DOMAIN acks
    <3>1. i = cursor + 1
      BY <1>4, <1>5, <2>2
    <3>2. acks'[i] = version /\ queue'[current'][i] = w
      BY <1>2, <1>3, <1>5, <3>1
    <3> QED
      BY <1>8, <3>2 DEF AckIsTrue
  <2> QED
    BY <2>1, <2>2
<1> QED
  BY <1>9 DEF AcksAreTrue

\* The server commits.
LEMMA ServerCommitsStep == ASSUME Inv, ServerCommits PROVE Inv'
<1>1. Queue!Commit
  BY DEF ServerCommits
<1>2. QueueProofs!Inv' /\ Queue!TypeOK'
  BY <1>1, QueueStep DEF Queue!Next, Inv
<1>3. PICK w : w = queue[current][cursor + 1]
  OBVIOUS
<1>4. /\ cursor + 1 \in DOMAIN queue[current] /\ w \in Writes
      /\ Now < MaxVersion
      /\ UNCHANGED <<current, queue, refused, completion, cache, viewUser, lastRemote,
                     author, acked, seen, forgotten>>
      /\ cursor' = cursor + 1
      /\ committed' = committed \cup {w}
      /\ history' \in Seq([Articles -> [version : 0 .. MaxVersion, fields : SUBSET Fields]])
  BY <1>3, CommitFacts
<1>5. PICK version \in 1 .. MaxVersion : Recorded(w, version) /\ acks' = Append(acks, version)
  BY <1>3, CommitFacts
<1>6. /\ acks \in Seq(1 .. MaxVersion) /\ Len(acks) = cursor /\ cursor \in Nat
      /\ Now \in Nat /\ Now >= 1 /\ Versions = 1 .. Now /\ MaxVersion \in Nat
      /\ current \in Users
  BY Typed DEF Inv, Versions
<1>7. w.article \in Articles
  BY <1>4, WriteFacts
<1>8. /\ Now' = Now + 1 /\ Versions' = Versions \cup {Now + 1}
      /\ \A v \in Versions : v \in Nat /\ v <= Now /\ v \in Versions' /\ history'[v] = history[v]
  BY <1>4, <1>5, <1>7, RecordedFacts
<1>9. TypeOK'
  <2>1. acks' \in Seq(1 .. MaxVersion) /\ Len(acks') = cursor'
    BY <1>4, <1>5, <1>6
  <2>2. Now' \in 1 .. MaxVersion
    BY <1>4, <1>6, <1>8
  <2> QED
    BY <1>2, <1>4, <2>1, <2>2 DEF Inv, TypeOK
<1>10. HistoryIsOrderly'
  BY <1>4, <1>5, OrderlyWithRow DEF HistoryIsOrderly
<1>11. HistoryIsEarned'
  <2>1. ASSUME NEW a \in Articles, NEW v \in Versions'
        PROVE  /\ "text" \in history'[v][a].fields => Set(a) \in committed'
               /\ "picture" \in history'[v][a].fields => Merge(a) \in committed'
    <3>1. CASE v \in Versions
      BY <1>4, <1>8, <3>1 DEF Inv, HistoryIsEarned
    <3>2. CASE v = Now + 1
      <4>1. /\ "text" \in history[Now][a].fields => Set(a) \in committed
            /\ "picture" \in history[Now][a].fields => Merge(a) \in committed
        <5>1. Now \in Versions
          BY <1>6
        <5> QED
          BY <5>1 DEF Inv, HistoryIsEarned
      <4>2. CASE history'[Now + 1][a] = history[Now][a]
        BY <1>4, <3>2, <4>1, <4>2
      <4>3. CASE /\ w.article = a
                 /\ history'[Now + 1][a] = Doc(Now + 1, Applied(history[Now][a].fields, w))
        <5>1. history'[v][a].fields = Applied(history[Now][a].fields, w)
          BY <3>2, <4>3 DEF Doc
        <5>2. CASE w.kind = "set"
          <6>1. w = Set(a) /\ Applied(history[Now][a].fields, w) = {"text"}
            BY <1>4, <4>3, <5>2, WriteFacts, AppliedFacts
          <6> QED
            BY <1>4, <5>1, <6>1
        <5>3. CASE w.kind # "set"
          <6>1. w = Merge(a) /\ Applied(history[Now][a].fields, w) = history[Now][a].fields \cup {"picture"}
            BY <1>4, <4>3, <5>3, WriteFacts, AppliedFacts
          <6> QED
            BY <1>4, <4>1, <5>1, <6>1
        <5> QED
          BY <5>2, <5>3
      <4> QED
        BY <1>4, <1>5, <4>2, <4>3, RecordedFacts
    <3> QED
      BY <1>8, <2>1, <3>1, <3>2
  <2> QED
    BY <2>1 DEF HistoryIsEarned
<1>12. AcksAreTrue'
  BY AcksAfterCommit
<1>13. CacheIsSound'
  <2>1. ASSUME NEW a \in Articles
        PROVE  EntryIsSound(a, cache[a])'
    <3>1. PICK c : c = cache[a]
      OBVIOUS
    <3>2. EntryIsSound(a, c)
      BY <3>1 DEF Inv, CacheIsSound
    <3>3. CASE c.state = "absent"
      <4>1. c = Absent
        BY <3>2, <3>3 DEF EntryIsSound
      <4> QED
        BY <1>4, <3>1, <4>1, AbsentFacts DEF EntryIsSound
    <3>4. CASE c.state # "absent"
      <4>1. c.version \in Versions
        BY <3>2, <3>4 DEF EntryIsSound
      <4>2. HasSince(a, "text", c.version) => HasSince(a, "text", c.version)'
        BY <1>4, <1>5, <4>1, SinceKept
      <4>3. c.version \in Versions' /\ history'[c.version] = history[c.version]
        BY <1>8, <4>1
      <4>4. EntryIsSound(a, c)'
        BY <1>4, <3>2, <3>4, <4>2, <4>3 DEF EntryIsSound
      <4> QED
        BY <1>4, <3>1, <4>4 DEF EntryIsSound
    <3> QED
      BY <3>3, <3>4
  <2> QED
    BY <2>1 DEF CacheIsSound
<1>14. CacheIsEarned'
  BY <1>4 DEF Inv, CacheIsEarned
<1>15. CacheIsUpToDate'
  BY <1>4, <1>8 DEF Inv, CacheIsUpToDate, Told
<1>16. WatchHasTheLastWord'
  <2>1. ASSUME NEW a \in Articles, cache[a].state = "synced"
        PROVE  history'[cache[a].version] = history[cache[a].version]
    <3>1. cache[a].version \in Versions
      BY <2>1 DEF Inv, CacheIsSound, EntryIsSound
    <3> QED
      BY <1>8, <3>1
  <2> QED
    BY <1>4, <2>1 DEF Inv, WatchHasTheLastWord
<1>17. QueuesAreOwn' /\ TextGoesFirst'
  BY <1>4, QueuesKept
<1>18. AcknowledgedIsCached'
  <2>1. ASSUME NEW a \in Articles, {Set(a), Merge(a)} \subseteq acked, OneAuthor(a),
               a \notin forgotten
        PROVE  HasSince(a, "picture", cache[a].version)'
    <3>1. w # Set(a)
      <4>1. queue[current][cursor + 1] = w /\ Queue!Pending(w)
        BY <1>3, <1>4, <1>6 DEF Queue!Pending
      <4> QED
        BY <2>1, <4>1 DEF Inv, QueuesAreOwn
    <3>2. cache[a].fields = Fields /\ HasSince(a, "picture", cache[a].version)
      BY <2>1 DEF Inv, AcknowledgedIsCached
    <3>3. cache[a].state # "absent"
      BY <3>2, AbsentFacts DEF Inv, CacheIsSound, EntryIsSound, Fields
    <3>4. cache[a].version \in Versions
      BY <3>3 DEF Inv, CacheIsSound, EntryIsSound
    <3>5. PICK v : v = cache[a].version
      OBVIOUS
    <3>6. HasSince(a, "picture", v)'
      BY <1>4, <1>5, <3>1, <3>2, <3>4, <3>5, SinceKept
    <3> QED
      BY <1>4, <3>5, <3>6 DEF HasSince
  <2> QED
    BY <1>4, <2>1 DEF Inv, AcknowledgedIsCached, OneAuthor
<1>19. viewUser' = current'
  BY <1>4 DEF Inv
<1> QED
  BY <1>2, <1>9, <1>10, <1>11, <1>12, <1>13, <1>14, <1>15, <1>16, <1>17, <1>18, <1>19 DEF Inv

-----------------------------------------------------------------------------
\* What a snapshot told of an article was there at the version it carried, and what
\* came in with a later version is later than the snapshot.
LEMMA ToldFacts ==
  ASSUME Inv, NEW a \in Articles, NEW v \in Versions
  PROVE  /\ Told(a, v).version \in Versions /\ Told(a, v).version <= v
         /\ Told(a, v).fields = history[v][a].fields
         /\ history[Told(a, v).version][a].fields = Told(a, v).fields
         /\ \A e \in Versions : history[e][a].version = e /\ Told(a, v).version < e => v < e
<1>1. HistoryOf(history, Now, a)
  BY DEF Inv, HistoryIsOrderly
<1>2. /\ Now \in Nat /\ Versions = 1 .. Now /\ v \in Nat /\ v \in 1 .. Now
  BY Typed DEF Inv, Versions
<1>3. PICK d : d = history[v][a]
  OBVIOUS
<1>4. d.version \in Nat /\ d.version <= v /\ (d.version = 0 <=> d.fields = {})
      /\ (d.version # 0 => history[d.version][a] = d)
  <2>1. d.version \in Nat
    BY <1>3, HistoryTyped DEF Inv
  <2> QED
    BY <1>1, <1>2, <1>3, <2>1 DEF HistoryOf
<1>5. PICK t : t = Told(a, v)
  OBVIOUS
<1>6. /\ d.fields = {} => t.version = v /\ t.fields = d.fields
      /\ d.fields # {} => t = d
  BY <1>3, <1>5 DEF Told, Doc
<1>7. /\ t.version \in Versions /\ t.version <= v /\ t.fields = d.fields
      /\ history[t.version][a].fields = t.fields
  <2>1. CASE d.fields = {}
    <3>1. t.version = v /\ t.fields = d.fields /\ v <= v
      BY <1>2, <1>6, <2>1
    <3> QED
      BY <1>3, <3>1
  <2>2. CASE d.fields # {}
    <3>1. d.version # 0 /\ t = d /\ d.version \in Nat /\ d.version <= v
      BY <1>4, <1>6, <2>2
    <3>2. d.version \in Versions
      BY <1>2, <3>1
    <3> QED
      BY <1>4, <3>1, <3>2
  <2> QED
    BY <2>1, <2>2
<1>8. ASSUME NEW e \in Versions, history[e][a].version = e, t.version < e
      PROVE  v < e
  <2>1. e \in Nat /\ e >= 1 /\ e <= Now
    BY <1>2
  <2>2. SUFFICES ASSUME e <= v PROVE FALSE
    BY <1>2, <2>1
  <2>3. v \in e .. Now /\ e \in 1 .. Now
    BY <1>2, <2>1, <2>2
  <2>4. e <= d.version
    BY <1>1, <1>3, <1>8, <2>3 DEF HistoryOf
  <2>5. d.fields # {} /\ t = d
    BY <1>4, <1>6, <2>1, <2>4
  <2> QED
    BY <1>4, <1>8, <2>1, <2>4, <2>5
<1> QED
  BY <1>3, <1>5, <1>7, <1>8

\* What the acknowledgement of the oldest write does.
LEMMA AcknowledgeFacts ==
  ASSUME Inv, AcknowledgeBatch, NEW w, w = Head(queue[current]), NEW e, e = Head(acks)
  PROVE  /\ queue[current] # <<>> /\ w \in Writes /\ w.article \in Articles
         /\ 1 \in DOMAIN queue[current] /\ w = queue[current][1]
         /\ acks # <<>> /\ e \in Versions /\ AckIsTrue(w, e)
         /\ w \in committed
         /\ cursor \in Nat /\ cursor > 0 /\ cursor' = cursor - 1
         /\ queue' = [queue EXCEPT ![current] = Tail(@)]
         /\ acks' = Tail(acks) /\ acked' = acked \cup {w}
         /\ cache' = [cache EXCEPT ![w.article] = ResultApplied(w.article, w, e)]
         /\ UNCHANGED <<current, committed, refused, viewUser, lastRemote, history, author,
                        seen, forgotten>>
         /\ \A x \in Writes : completion'[x] = "unissued" <=> completion[x] = "unissued"
<1>1. /\ cursor > 0 /\ cursor' = cursor - 1
      /\ completion' = Queue!Notify(w, "ok")
      /\ queue' = [queue EXCEPT ![current] = Tail(@)]
      /\ acks' = Tail(acks) /\ acked' = acked \cup {w}
      /\ cache' = [cache EXCEPT ![w.article] = ResultApplied(w.article, w, e)]
      /\ UNCHANGED <<current, committed, refused, viewUser, lastRemote, history, author,
                     seen, forgotten>>
  BY DEF AcknowledgeBatch, Queue!Acknowledge
<1>2. /\ cursor \in Nat /\ cursor <= Len(queue[current]) /\ current \in Users
      /\ queue \in [Users -> Seq(Writes)] /\ DOMAIN acks = 1 .. cursor /\ Len(acks) = cursor
      /\ acks \in Seq(1 .. MaxVersion)
      /\ completion \in [Writes -> Queue!CompletionState]
  BY Typed DEF Inv
<1>3. queue[current] \in Seq(Writes) /\ queue[current] # <<>> /\ acks # <<>>
  BY <1>1, <1>2
<1>4. /\ w \in Writes /\ 1 \in DOMAIN queue[current] /\ w = queue[current][1]
      /\ 1 \in DOMAIN acks /\ e = acks[1]
  BY <1>2, <1>3, TailFacts
<1>5. AckIsTrue(w, e)
  BY <1>4 DEF Inv, AcksAreTrue
<1>6. e \in Versions
  BY <1>5 DEF AckIsTrue
<1>7. w \in committed
  <2>1. 1 \in 1 .. cursor
    BY <1>1, <1>2
  <2> QED
    BY <1>4, <2>1, QueueFacts DEF Inv
<1>8. completion[w] # "unissued"
  BY <1>4, <1>7, QueueFacts DEF Inv
<1>9. \A x \in Writes : completion'[x] = "unissued" <=> completion[x] = "unissued"
  BY <1>1, <1>2, <1>4, <1>8 DEF Queue!Notify
<1> QED
  BY <1>1, <1>2, <1>3, <1>4, <1>5, <1>6, <1>7, <1>9, WriteFacts

\* The acknowledgements behind it move up with their writes.
LEMMA AcksAfterAcknowledge == ASSUME Inv, AcknowledgeBatch PROVE AcksAreTrue'
<1>1. /\ queue[current] # <<>> /\ acks # <<>>
      /\ queue' = [queue EXCEPT ![current] = Tail(@)]
      /\ acks' = Tail(acks) /\ UNCHANGED <<current, history>>
      /\ cursor \in Nat /\ cursor > 0
  BY AcknowledgeFacts
<1>2. /\ current \in Users /\ queue \in [Users -> Seq(Writes)] /\ cursor <= Len(queue[current])
      /\ acks \in Seq(1 .. MaxVersion) /\ Len(acks) = cursor
  BY Typed DEF Inv
<1>3. queue[current] \in Seq(Writes) /\ queue'[current] = Tail(queue[current])
  BY <1>1, <1>2
<1>4. PICK s : s = queue[current]
  OBVIOUS
<1>5. /\ DOMAIN Tail(s) = 1 .. Len(s) - 1 /\ Len(s) \in Nat
      /\ \A i \in DOMAIN Tail(s) : Tail(s)[i] = s[i + 1]
  BY <1>1, <1>3, <1>4, TailFacts
<1>6. /\ DOMAIN acks' = 1 .. cursor - 1
      /\ \A i \in DOMAIN acks' : acks'[i] = acks[i + 1] /\ i + 1 \in DOMAIN acks
  BY <1>1, <1>2, TailFacts
<1>7. Now' = Now /\ Versions' = Versions
  BY <1>1 DEF Now, Versions
<1>8. ASSUME NEW i \in DOMAIN acks'
      PROVE  AckIsTrue(queue[current][i], acks[i])'
  <2>1. i \in DOMAIN Tail(s)
    BY <1>1, <1>2, <1>4, <1>5, <1>6
  <2>2. queue'[current][i] = queue[current][i + 1] /\ acks'[i] = acks[i + 1] /\ i + 1 \in DOMAIN acks
    BY <1>3, <1>4, <1>5, <1>6, <2>1
  <2>3. AckIsTrue(queue[current][i + 1], acks[i + 1])
    BY <2>2 DEF Inv, AcksAreTrue
  <2> QED
    BY <1>1, <1>7, <2>2, <2>3 DEF AckIsTrue, HasSince
<1> QED
  BY <1>8 DEF AcksAreTrue

\* What the cache has of the article of an acknowledged write.
LEMMA AcknowledgedEntry ==
  ASSUME Inv, AcknowledgeBatch, NEW w, w = Head(queue[current]), NEW e, e = Head(acks),
         NEW a, a = w.article
  PROVE  /\ a \in Articles /\ w \in Writes /\ e \in Versions /\ AckIsTrue(w, e)
         /\ e \in Nat /\ e >= 1 /\ cache[a].version \in Nat
         /\ \/ /\ cache[a].version < e
               /\ cache'[a].version = e /\ cache'[a].state = "guessed"
               /\ cache'[a].fields = Applied(cache[a].fields, w)
            \/ /\ e <= cache[a].version /\ cache'[a] = cache[a] /\ cache[a].state # "absent"
         /\ \A b \in Articles : b # a => cache'[b] = cache[b]
<1>1. /\ w \in Writes /\ a \in Articles /\ e \in Versions /\ AckIsTrue(w, e)
      /\ cache' = [cache EXCEPT ![a] = ResultApplied(a, w, e)]
  BY AcknowledgeFacts
<1>2. cache \in [Articles -> [version : 0 .. MaxVersion, fields : SUBSET Fields, state : States]]
  BY Typed DEF Inv
<1>3. cache'[a] = ResultApplied(a, w, e) /\ \A b \in Articles : b # a => cache'[b] = cache[b]
  BY <1>1, <1>2
<1>4. cache[a].version \in Nat
  BY <1>1, EntryTyped DEF Inv
<1>5. e \in Nat /\ e >= 1
  BY <1>1, Typed DEF Inv, Versions
<1>6. CASE cache[a].version < e
  <2>1. cache'[a] = Entry(e, Applied(cache[a].fields, w), "guessed")
    BY <1>3, <1>6 DEF ResultApplied
  <2> QED
    BY <1>1, <1>3, <1>4, <1>5, <1>6, <2>1 DEF Entry
<1>7. CASE ~(cache[a].version < e)
  <2>1. cache'[a] = cache[a] /\ e <= cache[a].version
    BY <1>3, <1>4, <1>5, <1>7 DEF ResultApplied
  <2>2. cache[a].state # "absent"
    <3>1. SUFFICES ASSUME cache[a].state = "absent" PROVE FALSE
      OBVIOUS
    <3>2. cache[a] = Absent
      BY <1>1, <3>1 DEF Inv, CacheIsSound, EntryIsSound
    <3> QED
      BY <1>4, <1>5, <2>1, <3>2, AbsentFacts
  <2> QED
    BY <1>1, <1>3, <1>4, <1>5, <2>1, <2>2
<1> QED
  BY <1>6, <1>7

\* The cache is sound after an acknowledgement: a guess is at a version of the document
\* that the write has made, and one without the picture is right.
LEMMA SoundAfterAcknowledge == ASSUME Inv, AcknowledgeBatch PROVE CacheIsSound'
<1>1. PICK w : w = Head(queue[current])
  OBVIOUS
<1>2. PICK e : e = Head(acks)
  OBVIOUS
<1>3. PICK x : x = w.article
  OBVIOUS
<1>4. /\ x \in Articles /\ w \in Writes /\ e \in Versions /\ AckIsTrue(w, e)
      /\ e \in Nat /\ e >= 1 /\ cache[x].version \in Nat
      /\ \/ /\ cache[x].version < e
            /\ cache'[x].version = e /\ cache'[x].state = "guessed"
            /\ cache'[x].fields = Applied(cache[x].fields, w)
         \/ /\ e <= cache[x].version /\ cache'[x] = cache[x] /\ cache[x].state # "absent"
      /\ \A b \in Articles : b # x => cache'[b] = cache[b]
  BY <1>1, <1>2, <1>3, AcknowledgedEntry
<1>5. acked' = acked \cup {w} /\ history' = history
  BY <1>1, <1>2, AcknowledgeFacts
<1>6. Now' = Now /\ Versions' = Versions
  BY <1>5 DEF Now, Versions
<1>7. ASSUME NEW a \in Articles, NEW c, EntryIsSound(a, c)
      PROVE  EntryIsSound(a, c)'
  BY <1>5, <1>6, <1>7 DEF EntryIsSound, HasSince
<1>8. ASSUME NEW a \in Articles
      PROVE  EntryIsSound(a, cache[a])'
  <2>1. EntryIsSound(a, cache[a])
    BY DEF Inv, CacheIsSound
  <2>2. PICK c : c = cache'[a]
    OBVIOUS
  <2>3. CASE c = cache[a]
    <3>1. EntryIsSound(a, c)
      BY <2>1, <2>3
    <3>2. EntryIsSound(a, c)'
      BY <1>7, <3>1
    <3> QED
      BY <2>2, <3>2 DEF EntryIsSound
  <2>4. CASE /\ a = x /\ cache[a].version < e
             /\ c.version = e /\ c.state = "guessed" /\ c.fields = Applied(cache[a].fields, w)
    <3>1. /\ history[e][a].version = e /\ HasSince(a, FieldOf(w), e)
          /\ w.kind = "set" => history[e][a].fields = {"text"}
      BY <1>3, <1>4, <2>4 DEF AckIsTrue
    <3>2. w.kind = "set" => FieldOf(w) = "text" /\ c.fields = {"text"}
      BY <1>4, <2>4, WriteFacts, AppliedFacts
    <3>3. w.kind # "set" => /\ w = Merge(a) /\ FieldOf(w) = "picture"
                            /\ c.fields = cache[a].fields \cup {"picture"}
      BY <1>3, <1>4, <2>4, WriteFacts, AppliedFacts
    <3>4. "text" \in c.fields => HasSince(a, "text", e)
      <4>1. CASE w.kind = "set"
        BY <3>1, <3>2, <4>1
      <4>2. CASE w.kind # "set" /\ "text" \in c.fields
        <5>1. "text" \in cache[a].fields
          BY <3>3, <4>2
        <5>2. HasSince(a, "text", cache[a].version)
          BY <2>1, <5>1 DEF EntryIsSound
        <5>3. cache[a].state # "absent"
          BY <2>1, <5>1, AbsentFacts DEF EntryIsSound
        <5>4. cache[a].version \in Versions
          BY <2>1, <5>3 DEF EntryIsSound
        <5>5. HistoryOf(history, Now, a) /\ cache[a].version <= e
          BY <1>4, <2>4 DEF Inv, HistoryIsOrderly
        <5>6. TypeOK
          BY DEF Inv
        <5>7. PICK v \in Versions : v = cache[a].version
          BY <5>4
        <5>8. HasSince(a, "text", v) => HasSince(a, "text", e)
          BY <1>4, <5>5, <5>6, <5>7, SinceFacts
        <5> QED
          BY <5>2, <5>7, <5>8
      <4> QED
        BY <4>1, <4>2
    <3>5. Merge(a) \notin acked' => c.fields = {"text"} /\ history[e][a].fields = {"text"}
      BY <1>5, <3>1, <3>2, <3>3
    <3>6. EntryIsSound(a, c)'
      BY <1>4, <1>5, <1>6, <2>4, <3>1, <3>4, <3>5 DEF EntryIsSound, HasSince
    <3> QED
      BY <2>2, <3>6 DEF EntryIsSound
  <2> QED
    BY <1>4, <2>2, <2>3, <2>4
<1> QED
  BY <1>8 DEF CacheIsSound

\* A guess is newer than everything watch has told.
LEMMA LastWordAfterAcknowledge ==
  ASSUME Inv, AcknowledgeBatch
  PROVE  CacheIsUpToDate' /\ WatchHasTheLastWord' /\ CacheIsEarned'
<1>1. PICK w : w = Head(queue[current])
  OBVIOUS
<1>2. PICK e : e = Head(acks)
  OBVIOUS
<1>3. PICK x : x = w.article
  OBVIOUS
<1>4. /\ x \in Articles /\ w \in Writes /\ e \in Versions /\ AckIsTrue(w, e)
      /\ e \in Nat /\ e >= 1 /\ cache[x].version \in Nat
      /\ \/ /\ cache[x].version < e
            /\ cache'[x].version = e /\ cache'[x].state = "guessed"
            /\ cache'[x].fields = Applied(cache[x].fields, w)
         \/ /\ e <= cache[x].version /\ cache'[x] = cache[x] /\ cache[x].state # "absent"
      /\ \A b \in Articles : b # x => cache'[b] = cache[b]
  BY <1>1, <1>2, <1>3, AcknowledgedEntry
<1>5. history' = history /\ seen' = seen /\ committed' = committed /\ w \in committed
  BY <1>1, <1>2, AcknowledgeFacts
<1>6. Now' = Now /\ Versions' = Versions
  BY <1>5 DEF Now, Versions
<1>7. seen \in [Articles -> 0 .. MaxVersion]
  BY Typed DEF Inv
<1>8. ASSUME NEW a \in Articles, seen[a] # 0
      PROVE  /\ seen[a] \in Versions /\ Told(a, seen[a]).version <= cache[a].version
             /\ Told(a, seen[a]).version \in Nat
  <2>1. seen[a] \in Versions /\ Told(a, seen[a]).version <= cache[a].version
    BY <1>8 DEF Inv, CacheIsUpToDate
  <2>2. Told(a, seen[a]).version \in Versions
    BY <2>1, ToldFacts
  <2>3. \A v \in Versions : v \in Nat
    BY Typed DEF Inv
  <2> QED
    BY <2>1, <2>2, <2>3
<1>9. CacheIsUpToDate'
  <2>1. ASSUME NEW a \in Articles, seen[a] # 0
        PROVE  seen[a] \in Versions /\ Told(a, seen[a]).version <= cache'[a].version
    <3>1. CASE cache'[a] = cache[a]
      BY <1>8, <2>1, <3>1
    <3>2. CASE a = x /\ cache[x].version < e /\ cache'[x].version = e
      <4>1. Told(a, seen[a]).version <= e
        BY <1>4, <1>8, <2>1, <3>2
      <4> QED
        BY <1>8, <2>1, <3>2, <4>1
    <3> QED
      BY <1>4, <3>1, <3>2
  <2> QED
    BY <1>5, <1>6, <2>1 DEF CacheIsUpToDate, Told
<1>10. WatchHasTheLastWord'
  <2>1. ASSUME NEW a \in Articles
        PROVE  /\ cache'[a].state = "synced" => cache'[a].fields = history[cache'[a].version][a].fields
               /\ cache'[a].state = "guessed" => cache'[a].version > seen[a]
    <3>1. CASE cache'[a] = cache[a]
      BY <3>1 DEF Inv, WatchHasTheLastWord
    <3>2. CASE a = x /\ cache[x].version < e /\ cache'[x].version = e /\ cache'[x].state = "guessed"
      <4>1. history[e][a].version = e
        BY <1>3, <1>4, <3>2 DEF AckIsTrue
      <4>2. CASE seen[a] = 0
        BY <1>4, <3>2, <4>2
      <4>3. CASE seen[a] # 0
        <5>1. seen[a] \in Versions /\ Told(a, seen[a]).version < e
          BY <1>4, <1>8, <3>2, <4>3
        <5>2. seen[a] < e
          BY <1>4, <4>1, <5>1, ToldFacts
        <5>3. seen[a] \in Nat
          BY <5>1, Typed DEF Inv
        <5> QED
          BY <1>4, <3>2, <5>2, <5>3
      <4> QED
        BY <4>2, <4>3
    <3> QED
      BY <1>4, <3>1, <3>2
  <2> QED
    BY <1>5, <2>1 DEF WatchHasTheLastWord
<1>11. CacheIsEarned'
  <2>1. ASSUME NEW a \in Articles
        PROVE  /\ "text" \in cache'[a].fields => Set(a) \in committed
               /\ "picture" \in cache'[a].fields => Merge(a) \in committed
    <3>1. /\ "text" \in cache[a].fields => Set(a) \in committed
          /\ "picture" \in cache[a].fields => Merge(a) \in committed
      BY DEF Inv, CacheIsEarned
    <3>2. CASE cache'[a] = cache[a]
      BY <3>1, <3>2
    <3>3. CASE a = x /\ cache'[x].fields = Applied(cache[x].fields, w)
      <4>1. CASE w.kind = "set"
        <5>1. w = Set(a) /\ Applied(cache[a].fields, w) = {"text"}
          BY <1>3, <1>4, <3>3, <4>1, WriteFacts, AppliedFacts
        <5> QED
          BY <1>5, <3>3, <5>1
      <4>2. CASE w.kind # "set"
        <5>1. w = Merge(a) /\ Applied(cache[a].fields, w) = cache[a].fields \cup {"picture"}
          BY <1>3, <1>4, <3>3, <4>2, WriteFacts, AppliedFacts
        <5> QED
          BY <1>5, <3>1, <3>3, <5>1
      <4> QED
        BY <4>1, <4>2
    <3> QED
      BY <1>4, <3>2, <3>3
  <2> QED
    BY <1>5, <2>1 DEF CacheIsEarned
<1> QED
  BY <1>9, <1>10, <1>11

\* What has just been acknowledged is in the cache, too: through the guess, or because
\* a snapshot has been faster.
LEMMA CachedAfterAcknowledge == ASSUME Inv, AcknowledgeBatch PROVE AcknowledgedIsCached'
<1>1. PICK w : w = Head(queue[current])
  OBVIOUS
<1>2. PICK e : e = Head(acks)
  OBVIOUS
<1>3. PICK x : x = w.article
  OBVIOUS
<1>4. /\ x \in Articles /\ w \in Writes /\ e \in Versions /\ AckIsTrue(w, e)
      /\ e \in Nat /\ e >= 1 /\ cache[x].version \in Nat
      /\ \/ /\ cache[x].version < e
            /\ cache'[x].version = e /\ cache'[x].state = "guessed"
            /\ cache'[x].fields = Applied(cache[x].fields, w)
         \/ /\ e <= cache[x].version /\ cache'[x] = cache[x] /\ cache[x].state # "absent"
      /\ \A b \in Articles : b # x => cache'[b] = cache[b]
  BY <1>1, <1>2, <1>3, AcknowledgedEntry
<1>5. /\ history' = history /\ acked' = acked \cup {w} /\ author' = author
      /\ forgotten' = forgotten
      /\ queue[current] # <<>> /\ queue' = [queue EXCEPT ![current] = Tail(@)]
  BY <1>1, <1>2, AcknowledgeFacts
<1>6. Now' = Now /\ \A a : OneAuthor(a)' <=> OneAuthor(a)
  BY <1>5 DEF Now, OneAuthor
<1>7. Queue!Pending(w)
  BY <1>1, <1>5, PopPending
<1>8. HistoryOf(history, Now, x) /\ TypeOK
  BY <1>4 DEF Inv, HistoryIsOrderly
<1>9. cache[x].state # "absent" => cache[x].version \in Versions
  BY <1>4 DEF Inv, CacheIsSound, EntryIsSound
<1>10. ASSUME NEW a \in Articles \ forgotten, Set(a) \in acked',
              Merge(a) \in acked' => OneAuthor(a)
       PROVE  /\ "text" \in cache'[a].fields
              /\ Merge(a) \in acked' => /\ cache'[a].fields = Fields
                                        /\ HasSince(a, "picture", cache'[a].version)
  <2>1. Set(a) # Merge(a) /\ Set(a).article = a /\ Merge(a).article = a
    BY WriteFacts
  <2>2. /\ Set(a) \in acked /\ (Merge(a) \in acked => OneAuthor(a)) => "text" \in cache[a].fields
        /\ {Set(a), Merge(a)} \subseteq acked /\ OneAuthor(a) =>
             cache[a].fields = Fields /\ HasSince(a, "picture", cache[a].version)
    BY DEF Inv, AcknowledgedIsCached
  <2>3. CASE a # x
    <3>1. w \notin {Set(a), Merge(a)}
      BY <1>3, <2>1, <2>3
    <3> QED
      BY <1>4, <1>5, <1>10, <2>2, <2>3, <3>1
  <2>4. CASE a = x /\ w = Set(a)
    <3>1. Merge(a) \notin acked'
      <4>1. SUFFICES ASSUME Merge(a) \in acked' PROVE FALSE
        OBVIOUS
      <4>2. Merge(a) \in acked /\ author[Set(a)] = author[Merge(a)]
        BY <1>5, <1>10, <2>1, <2>4, <4>1 DEF OneAuthor
      <4> QED
        BY <1>7, <2>4, <4>2 DEF Inv, TextGoesFirst
    <3>2. HasSince(a, "text", e)
      <4>1. FieldOf(w) = "text"
        BY <2>4, WriteFacts
      <4> QED
        BY <1>3, <1>4, <2>4, <4>1 DEF AckIsTrue
    <3>3. CASE cache'[x].fields = Applied(cache[x].fields, w)
      BY <1>4, <2>4, <3>1, <3>3, WriteFacts, AppliedFacts
    <3>4. CASE e <= cache[x].version /\ cache'[x] = cache[x] /\ cache[x].state # "absent"
      <4>1. PICK c : c = cache[x]
        OBVIOUS
      <4>2. c.version \in Versions /\ EntryIsSound(x, c) /\ c.state \in States
        BY <1>4, <1>8, <1>9, <3>4, <4>1, EntryTyped DEF Inv, CacheIsSound
      <4>3. "text" \in history[c.version][x].fields
        BY <1>4, <1>8, <2>4, <3>2, <3>4, <4>1, <4>2, SinceFacts
      <4>4. Merge(x) \notin acked
        BY <1>5, <2>4, <3>1
      <4>5. "text" \in c.fields
        BY <3>4, <4>1, <4>2, <4>3, <4>4 DEF EntryIsSound, States
      <4> QED
        BY <2>4, <3>1, <3>4, <4>1, <4>5
    <3> QED
      BY <1>4, <3>3, <3>4
  <2>5. CASE a = x /\ w = Merge(a)
    <3>1. Set(a) \in acked /\ Merge(a) \notin acked /\ OneAuthor(a) /\ Merge(a) \in acked'
      BY <1>5, <1>7, <1>10, <2>1, <2>5 DEF Inv, QueuesAreOwn
    <3>2. "text" \in cache[a].fields
      BY <2>2, <3>1
    <3>3. HasSince(a, "picture", e)
      <4>1. FieldOf(w) = "picture"
        BY <2>5, WriteFacts
      <4> QED
        BY <1>3, <1>4, <2>5, <4>1 DEF AckIsTrue
    <3>4. cache[a].fields \in SUBSET Fields
      BY <1>8, EntryTyped
    <3>5. CASE cache'[x].fields = Applied(cache[x].fields, w) /\ cache'[x].version = e
      <4>1. cache'[x].fields = cache[x].fields \cup {"picture"}
        BY <1>4, <2>5, <3>5, WriteFacts, AppliedFacts
      <4> QED
        BY <2>5, <3>2, <3>3, <3>4, <3>5, <4>1 DEF Fields
    <3>6. CASE e <= cache[x].version /\ cache'[x] = cache[x] /\ cache[x].state # "absent"
      <4>1. PICK c : c = cache[x]
        OBVIOUS
      <4>2. c.version \in Versions /\ EntryIsSound(x, c) /\ c.state \in States
        BY <1>4, <1>8, <1>9, <3>6, <4>1, EntryTyped DEF Inv, CacheIsSound
      <4>3. "picture" \in history[c.version][x].fields /\ HasSince(x, "picture", c.version)
        BY <1>4, <1>8, <2>5, <3>3, <3>6, <4>1, <4>2, SinceFacts
      <4>4. c.state = "synced" => "picture" \in c.fields
        BY <4>2, <4>3 DEF EntryIsSound
      <4>5. c.state # "guessed"
        <5>1. SUFFICES ASSUME c.state = "guessed" PROVE FALSE
          OBVIOUS
        <5>2. history[c.version][x].fields = {"text"}
          BY <2>5, <3>1, <4>2, <5>1 DEF EntryIsSound
        <5> QED
          BY <4>3, <5>2
      <4>6. "picture" \in c.fields
        BY <3>6, <4>1, <4>2, <4>4, <4>5 DEF States
      <4>7. c.fields = Fields
        BY <2>5, <3>2, <3>4, <4>1, <4>6 DEF Fields
      <4> QED
        BY <2>5, <3>2, <3>6, <4>1, <4>3, <4>7
    <3> QED
      BY <1>4, <3>5, <3>6
  <2> QED
    BY <1>3, <1>4, <2>3, <2>4, <2>5, WriteFacts
<1>11. ASSUME NEW a \in Articles
       PROVE  HasSince(a, "picture", cache'[a].version) => HasSince(a, "picture", cache[a].version)'
  BY <1>5, <1>6 DEF HasSince
<1> QED
  BY <1>5, <1>6, <1>10, <1>11 DEF AcknowledgedIsCached

\* The oldest write is acknowledged.
LEMMA AcknowledgeBatchStep == ASSUME Inv, AcknowledgeBatch PROVE Inv'
<1>1. Queue!Acknowledge
  BY DEF AcknowledgeBatch
<1>2. QueueProofs!Inv' /\ Queue!TypeOK'
  BY <1>1, QueueStep DEF Queue!Next, Inv
<1>3. PICK w : w = Head(queue[current])
  OBVIOUS
<1>4. PICK e : e = Head(acks)
  OBVIOUS
<1>5. /\ queue[current] # <<>> /\ w \in Writes /\ w.article \in Articles /\ e \in Versions
      /\ acks # <<>> /\ cursor \in Nat /\ cursor > 0 /\ cursor' = cursor - 1
      /\ queue' = [queue EXCEPT ![current] = Tail(@)]
      /\ acks' = Tail(acks) /\ acked' = acked \cup {w}
      /\ cache' = [cache EXCEPT ![w.article] = ResultApplied(w.article, w, e)]
      /\ UNCHANGED <<current, committed, refused, viewUser, lastRemote, history, author,
                     seen, forgotten>>
      /\ \A x \in Writes : completion'[x] = "unissued" <=> completion[x] = "unissued"
  BY <1>3, <1>4, AcknowledgeFacts
<1>6. TypeOK'
  <2>1. acks' \in Seq(1 .. MaxVersion) /\ Len(acks') = cursor'
    <3>1. acks \in Seq(1 .. MaxVersion) /\ Len(acks) = cursor
      BY Typed DEF Inv
    <3> QED
      BY <1>5, <3>1
  <2>2. acked' \subseteq Writes
    BY <1>5, Typed DEF Inv
  <2>3. ResultApplied(w.article, w, e)
          \in [version : 0 .. MaxVersion, fields : SUBSET Fields, state : States]
    <3>1. cache[w.article] \in [version : 0 .. MaxVersion, fields : SUBSET Fields, state : States]
      BY <1>5, Typed DEF Inv
    <3>2. e \in 0 .. MaxVersion
      BY <1>5, Typed DEF Inv, Versions
    <3>3. Applied(cache[w.article].fields, w) \in SUBSET Fields
      BY <1>5, <3>1, AppliedFacts
    <3> QED
      BY <3>1, <3>2, <3>3 DEF ResultApplied, Entry, States
  <2>4. cache' \in [Articles -> [version : 0 .. MaxVersion, fields : SUBSET Fields, state : States]]
    <3>1. cache \in [Articles -> [version : 0 .. MaxVersion, fields : SUBSET Fields, state : States]]
      BY Typed DEF Inv
    <3> QED
      BY <1>5, <2>3, <3>1
  <2> QED
    BY <1>2, <1>5, <2>1, <2>2, <2>4 DEF Inv, TypeOK, Now
<1>7. HistoryIsOrderly' /\ HistoryIsEarned'
  BY <1>5, HistoryKept
<1>8. QueuesAreOwn' /\ TextGoesFirst'
  BY <1>3, <1>5, PopQueues
<1>9. viewUser' = current'
  BY <1>5 DEF Inv
<1> QED
  BY <1>2, <1>6, <1>7, <1>8, <1>9, AcksAfterAcknowledge, SoundAfterAcknowledge,
     LastWordAfterAcknowledge, CachedAfterAcknowledge DEF Inv

-----------------------------------------------------------------------------
\* What a watch event does to one entry of the cache.
LEMMA EventEntry ==
  ASSUME Inv, NEW v \in Versions, NEW told \in SUBSET Articles, ApplyRemoteEvent(v, told),
         NEW a \in Articles
  PROVE  \/ /\ a \notin told /\ cache'[a] = cache[a] /\ seen'[a] = seen[a]
         \/ /\ a \in told /\ seen'[a] = v /\ cache'[a] = cache[a]
            /\ cache[a].state # "absent" /\ Told(a, v).version <= cache[a].version
            /\ cache[a].state = "guessed" => Told(a, v).version < cache[a].version
         \/ /\ a \in told /\ seen'[a] = v
            /\ cache'[a] = Entry(Told(a, v).version, Told(a, v).fields, "synced")
            /\ cache[a].state # "absent" => cache[a].version <= Told(a, v).version
<1>1. /\ cache'[a] = IF a \in told /\ IsNews(Told(a, v), cache[a])
                     THEN Entry(Told(a, v).version, Told(a, v).fields, "synced")
                     ELSE cache[a]
      /\ seen'[a] = IF a \in told THEN v ELSE seen[a]
  BY DEF ApplyRemoteEvent
<1>2. PICK t : t = Told(a, v)
  OBVIOUS
<1>3. PICK c : c = cache[a]
  OBVIOUS
<1>4. t.version \in Nat /\ c.version \in Nat
  <2>1. t.version \in Versions
    BY <1>2, ToldFacts
  <2> QED
    BY <1>3, <2>1, Typed, EntryTyped DEF Inv
<1>5. CASE IsNews(t, c)
  <2>1. c.state # "absent" => c.version <= t.version
    BY <1>4, <1>5 DEF IsNews
  <2> QED
    BY <1>1, <1>2, <1>3, <1>5, <2>1
<1>6. CASE ~IsNews(t, c)
  <2>1. /\ c.state # "absent" /\ t.version <= c.version
        /\ c.state = "guessed" => t.version < c.version
    BY <1>4, <1>6 DEF IsNews
  <2> QED
    BY <1>1, <1>2, <1>3, <1>6, <2>1
<1> QED
  BY <1>5, <1>6

\* A watch event brings what the server had, in the order in which it had it.
LEMMA ApplyRemoteEventStep ==
  ASSUME Inv, NEW v \in Versions, NEW told \in SUBSET Articles, ApplyRemoteEvent(v, told)
  PROVE  Inv'
<1>1. /\ UNCHANGED sdk /\ UNCHANGED <<viewUser, history, acks, author, acked, forgotten>>
      /\ lastRemote' = v
      /\ cache' = [a \in Articles |->
                     IF a \in told /\ IsNews(Told(a, v), cache[a])
                     THEN Entry(Told(a, v).version, Told(a, v).fields, "synced")
                     ELSE cache[a]]
      /\ seen' = [a \in Articles |-> IF a \in told THEN v ELSE seen[a]]
  BY DEF ApplyRemoteEvent, server
<1>2. UNCHANGED <<current, queue, cursor, committed, refused, completion>>
  BY <1>1 DEF sdk
<1>3. QueueProofs!Inv' /\ Queue!TypeOK'
  BY <1>1, QueueStep DEF Inv
<1>4. Now' = Now /\ Versions' = Versions
  BY <1>1 DEF Now, Versions
<1>5. /\ Now \in Nat /\ Versions = 1 .. Now /\ Now \in 1 .. MaxVersion /\ MaxVersion \in Nat
      /\ \A x \in Versions : x \in Nat /\ x \in 0 .. MaxVersion
  <2>1. Now \in Nat /\ Now \in 1 .. MaxVersion /\ MaxVersion \in Nat /\ Versions = 1 .. Now
    BY Typed DEF Inv, Versions
  <2> QED
    BY <2>1
<1>6. ASSUME NEW a \in Articles
      PROVE  /\ Told(a, v).version \in Versions /\ Told(a, v).version <= v
             /\ Told(a, v).fields = history[v][a].fields
             /\ history[Told(a, v).version][a].fields = Told(a, v).fields
  BY ToldFacts
<1>7. TypeOK'
  <2>1. ASSUME NEW a \in Articles
        PROVE  Entry(Told(a, v).version, Told(a, v).fields, "synced")
                 \in [version : 0 .. MaxVersion, fields : SUBSET Fields, state : States]
    <3>1. Told(a, v).version \in 0 .. MaxVersion
      BY <1>5, <1>6
    <3>2. Told(a, v).fields \in SUBSET Fields
      BY <1>6, HistoryTyped DEF Inv
    <3> QED
      BY <3>1, <3>2 DEF Entry, States
  <2>2. cache' \in [Articles -> [version : 0 .. MaxVersion, fields : SUBSET Fields, state : States]]
    <3>1. cache \in [Articles -> [version : 0 .. MaxVersion, fields : SUBSET Fields, state : States]]
      BY Typed DEF Inv
    <3> QED
      BY <1>1, <2>1, <3>1
  <2>3. seen' \in [Articles -> 0 .. MaxVersion]
    <3>1. seen \in [Articles -> 0 .. MaxVersion]
      BY Typed DEF Inv
    <3> QED
      BY <1>1, <1>5, <3>1
  <2>4. lastRemote' \in 0 .. MaxVersion
    BY <1>1, <1>5
  <2> QED
    BY <1>1, <1>2, <1>3, <2>2, <2>3, <2>4 DEF Inv, TypeOK, Now
<1>8. HistoryIsOrderly' /\ HistoryIsEarned'
  BY <1>1, <1>2, HistoryKept
<1>9. QueuesAreOwn' /\ TextGoesFirst'
  BY <1>1, <1>2, QueuesKept
<1>10. AcksAreTrue'
  BY <1>1, <1>2, AcksKept
<1>11. ASSUME NEW a \in Articles, NEW c, EntryIsSound(a, c)
       PROVE  EntryIsSound(a, c)'
  BY <1>1, <1>4, <1>11 DEF EntryIsSound, HasSince
<1>12. CacheIsSound'
  <2>1. ASSUME NEW a \in Articles
        PROVE  EntryIsSound(a, cache[a])'
    <3>1. PICK c : c = cache'[a]
      OBVIOUS
    <3>2. EntryIsSound(a, c)
      <4>1. CASE c = cache[a]
        BY <4>1 DEF Inv, CacheIsSound
      <4>2. CASE c = Entry(Told(a, v).version, Told(a, v).fields, "synced")
        <5>1. c.version = Told(a, v).version /\ c.fields = Told(a, v).fields /\ c.state = "synced"
          BY <4>2 DEF Entry
        <5>2. c.version \in Versions /\ c.fields = history[c.version][a].fields
          BY <1>6, <5>1
        <5>3. TypeOK /\ HistoryOf(history, Now, a)
          BY DEF Inv, HistoryIsOrderly
        <5>4. c.version <= c.version
          BY <1>5, <5>2
        <5>5. "text" \in c.fields => HasSince(a, "text", c.version)
          BY <5>2, <5>3, <5>4, SinceFacts
        <5> QED
          BY <5>1, <5>2, <5>5 DEF EntryIsSound
      <4> QED
        BY <3>1, <4>1, <4>2, EventEntry
    <3>3. EntryIsSound(a, c)'
      BY <1>11, <3>2
    <3> QED
      BY <3>1, <3>3 DEF EntryIsSound
  <2> QED
    BY <2>1 DEF CacheIsSound
<1>13. CacheIsEarned'
  <2>1. ASSUME NEW a \in Articles
        PROVE  /\ "text" \in cache'[a].fields => Set(a) \in committed
               /\ "picture" \in cache'[a].fields => Merge(a) \in committed
    <3>1. CASE cache'[a] = cache[a]
      BY <3>1 DEF Inv, CacheIsEarned
    <3>2. CASE cache'[a] = Entry(Told(a, v).version, Told(a, v).fields, "synced")
      <4>1. cache'[a].fields = history[v][a].fields
        BY <1>6, <3>2 DEF Entry
      <4> QED
        BY <4>1 DEF Inv, HistoryIsEarned
    <3> QED
      BY <3>1, <3>2, EventEntry
  <2> QED
    BY <1>2, <2>1 DEF CacheIsEarned
<1>14. CacheIsUpToDate'
  <2>1. ASSUME NEW a \in Articles, seen'[a] # 0
        PROVE  seen'[a] \in Versions /\ Told(a, seen'[a]).version <= cache'[a].version
    <3>1. CASE cache'[a] = cache[a] /\ seen'[a] = seen[a]
      BY <2>1, <3>1 DEF Inv, CacheIsUpToDate
    <3>2. CASE seen'[a] = v /\ cache'[a] = cache[a] /\ Told(a, v).version <= cache[a].version
      BY <3>2
    <3>3. CASE /\ seen'[a] = v
               /\ cache'[a] = Entry(Told(a, v).version, Told(a, v).fields, "synced")
      <4>1. cache'[a].version = Told(a, v).version
        BY <3>3 DEF Entry
      <4>2. Told(a, v).version <= Told(a, v).version
        BY <1>5, <1>6
      <4> QED
        BY <3>3, <4>1, <4>2
    <3> QED
      BY <3>1, <3>2, <3>3, EventEntry
  <2>2. ASSUME NEW a \in Articles, NEW x
        PROVE  Told(a, x)' = Told(a, x)
    BY <1>1 DEF Told
  <2>3. ASSUME NEW a \in Articles
        PROVE  Told(a, seen[a])' = Told(a, seen'[a])
    BY <1>1 DEF Told
  <2> QED
    BY <1>4, <2>1, <2>3 DEF CacheIsUpToDate
<1>15. WatchHasTheLastWord'
  <2>1. ASSUME NEW a \in Articles
        PROVE  /\ cache'[a].state = "synced" => cache'[a].fields = history[cache'[a].version][a].fields
               /\ cache'[a].state = "guessed" => cache'[a].version > seen'[a]
    <3>1. CASE cache'[a] = cache[a] /\ seen'[a] = seen[a]
      BY <3>1 DEF Inv, WatchHasTheLastWord
    <3>2. CASE /\ seen'[a] = v /\ cache'[a] = cache[a] /\ cache[a].state # "absent"
               /\ cache[a].state = "guessed" => Told(a, v).version < cache[a].version
      <4>1. EntryIsSound(a, cache[a])
        BY DEF Inv, CacheIsSound
      <4>2. cache[a].state = "guessed" => v < cache[a].version
        <5>1. cache[a].version \in Versions
          BY <3>2, <4>1 DEF EntryIsSound
        <5>2. cache[a].state = "guessed" => history[cache[a].version][a].version = cache[a].version
          BY <4>1 DEF EntryIsSound
        <5> QED
          BY <3>2, <5>1, <5>2, ToldFacts
      <4>3. cache[a].version \in Nat /\ v \in Nat
        BY <1>5, EntryTyped DEF Inv
      <4> QED
        BY <3>2, <4>1, <4>2, <4>3 DEF EntryIsSound
    <3>3. CASE cache'[a] = Entry(Told(a, v).version, Told(a, v).fields, "synced")
      BY <1>6, <3>3 DEF Entry
    <3> QED
      BY <3>1, <3>2, <3>3, EventEntry
  <2> QED
    BY <1>1, <2>1 DEF WatchHasTheLastWord
<1>16. AcknowledgedIsCached'
  <2>1. ASSUME NEW a \in Articles, NEW f, f \in cache[a].fields, HasSince(a, f, cache[a].version)
        PROVE  f \in cache'[a].fields /\ HasSince(a, f, cache'[a].version)
    <3>1. CASE cache'[a] = cache[a]
      BY <2>1, <3>1
    <3>2. CASE /\ cache'[a] = Entry(Told(a, v).version, Told(a, v).fields, "synced")
               /\ cache[a].state # "absent" => cache[a].version <= Told(a, v).version
      <4>1. cache[a].state # "absent"
        BY <2>1, AbsentFacts DEF Inv, CacheIsSound, EntryIsSound
      <4>2. cache[a].version \in Versions
        BY <4>1 DEF Inv, CacheIsSound, EntryIsSound
      <4>3. PICK t \in Versions : t = Told(a, v).version /\ history[t][a].fields = Told(a, v).fields
        BY <1>6
      <4>4. TypeOK /\ HistoryOf(history, Now, a)
        BY DEF Inv, HistoryIsOrderly
      <4>5. PICK x \in Versions : x = cache[a].version
        BY <4>2
      <4>6. x <= t /\ HasSince(a, f, x)
        BY <2>1, <3>2, <4>1, <4>3, <4>5
      <4>7. f \in history[t][a].fields /\ HasSince(a, f, t)
        BY <4>4, <4>6, SinceFacts
      <4>8. cache'[a].version = t /\ cache'[a].fields = history[t][a].fields
        BY <3>2, <4>3 DEF Entry
      <4> QED
        BY <4>7, <4>8
    <3> QED
      BY <3>1, <3>2, EventEntry
  <2>2. ASSUME NEW a \in Articles, "text" \in cache[a].fields
        PROVE  HasSince(a, "text", cache[a].version)
    BY <2>2 DEF Inv, CacheIsSound, EntryIsSound
  <2>3. ASSUME NEW a \in Articles
        PROVE  HasSince(a, "picture", cache'[a].version) => HasSince(a, "picture", cache[a].version)'
    BY <1>1, <1>4 DEF HasSince
  <2>4. ASSUME NEW a \in Articles, cache[a].fields = Fields, HasSince(a, "picture", cache[a].version)
        PROVE  cache'[a].fields = Fields /\ HasSince(a, "picture", cache[a].version)'
    <3>1. "text" \in cache'[a].fields /\ "picture" \in cache'[a].fields
      BY <2>1, <2>2, <2>4 DEF Fields
    <3>2. cache'[a].fields \in SUBSET Fields
      <4>1. cache' \in [Articles -> [version : 0 .. MaxVersion, fields : SUBSET Fields, state : States]]
        BY <1>7 DEF TypeOK
      <4> QED
        BY <4>1
    <3>3. HasSince(a, "picture", cache'[a].version)
      BY <2>1, <2>4 DEF Fields
    <3> QED
      BY <2>3, <3>1, <3>2, <3>3 DEF Fields
  <2>5. ASSUME NEW a \in Articles, "text" \in cache[a].fields
        PROVE  "text" \in cache'[a].fields
    BY <2>1, <2>2, <2>5
  <2>6. \A a \in Articles : OneAuthor(a)' <=> OneAuthor(a)
    BY <1>1 DEF OneAuthor
  <2> QED
    BY <1>1, <2>4, <2>5, <2>6 DEF Inv, AcknowledgedIsCached
<1>17. viewUser' = current'
  BY <1>1, <1>2 DEF Inv
<1> QED
  BY <1>3, <1>7, <1>8, <1>9, <1>10, <1>12, <1>13, <1>14, <1>15, <1>16, <1>17 DEF Inv

\* The cache has to forget an article: what was promised about it no longer is.
LEMMA ForgetStep == ASSUME Inv, NEW a \in Articles, Forget(a) PROVE Inv'
<1>1. /\ UNCHANGED sdk /\ UNCHANGED <<viewUser, lastRemote, history, acks, author, acked>>
      /\ cache' = [cache EXCEPT ![a] = Absent] /\ seen' = [seen EXCEPT ![a] = 0]
      /\ forgotten' = forgotten \cup {a}
  BY DEF Forget, server
<1>2. UNCHANGED <<current, queue, cursor, committed, refused, completion>>
  BY <1>1 DEF sdk
<1>3. QueueProofs!Inv' /\ Queue!TypeOK'
  BY <1>1, QueueStep DEF Inv
<1>4. Now' = Now /\ Versions' = Versions
  BY <1>1 DEF Now, Versions
<1>5. /\ cache \in [Articles -> [version : 0 .. MaxVersion, fields : SUBSET Fields, state : States]]
      /\ seen \in [Articles -> 0 .. MaxVersion] /\ MaxVersion \in Nat
  BY Typed DEF Inv
<1>6. /\ cache'[a] = Absent /\ seen'[a] = 0
      /\ \A b \in Articles : b # a => cache'[b] = cache[b] /\ seen'[b] = seen[b]
  BY <1>1, <1>5
<1>7. TypeOK'
  <2>1. 0 \in 0 .. MaxVersion
    BY <1>5
  <2>2. Absent \in [version : 0 .. MaxVersion, fields : SUBSET Fields, state : States]
    BY <2>1 DEF Absent, Entry, States
  <2>3. cache' \in [Articles -> [version : 0 .. MaxVersion, fields : SUBSET Fields, state : States]]
    BY <1>1, <1>5, <2>2
  <2>4. seen' \in [Articles -> 0 .. MaxVersion]
    BY <1>1, <1>5, <2>1
  <2>5. forgotten' \subseteq Articles
    BY <1>1, Typed DEF Inv
  <2> QED
    BY <1>1, <1>2, <1>3, <2>3, <2>4, <2>5 DEF Inv, TypeOK, Now
<1>8. HistoryIsOrderly' /\ HistoryIsEarned'
  BY <1>1, <1>2, HistoryKept
<1>9. QueuesAreOwn' /\ TextGoesFirst'
  BY <1>1, <1>2, QueuesKept
<1>10. AcksAreTrue'
  BY <1>1, <1>2, AcksKept
<1>11. CacheIsSound'
  <2>1. ASSUME NEW b \in Articles
        PROVE  EntryIsSound(b, cache[b])'
    <3>1. CASE b = a
      BY <1>6, <3>1, AbsentFacts DEF EntryIsSound
    <3>2. CASE b # a
      <4>1. EntryIsSound(b, cache[b])
        BY DEF Inv, CacheIsSound
      <4> QED
        BY <1>1, <1>4, <1>6, <3>2, <4>1 DEF EntryIsSound, HasSince
    <3> QED
      BY <3>1, <3>2
  <2> QED
    BY <2>1 DEF CacheIsSound
<1>12. CacheIsEarned'
  BY <1>2, <1>6, AbsentFacts DEF Inv, CacheIsEarned
<1>13. CacheIsUpToDate'
  <2>1. ASSUME NEW b \in Articles, seen'[b] # 0
        PROVE  seen'[b] \in Versions' /\ Told(b, seen[b])' = Told(b, seen[b]) /\ b # a
    <3>1. b # a /\ seen'[b] = seen[b]
      BY <1>6, <2>1
    <3> QED
      BY <1>1, <1>4, <2>1, <3>1 DEF Told, Inv, CacheIsUpToDate
  <2> QED
    BY <1>6, <2>1 DEF Inv, CacheIsUpToDate
<1>14. WatchHasTheLastWord'
  BY <1>1, <1>6, AbsentFacts DEF Inv, WatchHasTheLastWord
<1>15. AcknowledgedIsCached'
  <2>1. ASSUME NEW b \in Articles \ forgotten'
        PROVE  b # a /\ b \in Articles \ forgotten
    BY <1>1
  <2>2. ASSUME NEW b \in Articles, b # a
        PROVE  /\ cache'[b] = cache[b] /\ (OneAuthor(b)' <=> OneAuthor(b))
               /\ HasSince(b, "picture", cache[b].version) => HasSince(b, "picture", cache[b].version)'
    BY <1>1, <1>4, <1>6, <2>2 DEF OneAuthor, HasSince
  <2> QED
    BY <1>1, <2>1, <2>2 DEF Inv, AcknowledgedIsCached
<1>16. viewUser' = current'
  BY <1>1, <1>2 DEF Inv
<1> QED
  BY <1>3, <1>7, <1>8, <1>9, <1>10, <1>11, <1>12, <1>13, <1>14, <1>15, <1>16 DEF Inv

\* Nothing happens.
LEMMA StutterStep == ASSUME Inv, UNCHANGED vars PROVE Inv'
<1>1. UNCHANGED <<current, queue, cursor, committed, refused, completion, cache,
                  viewUser, lastRemote, history, acks, author, acked, seen, forgotten>>
  BY DEF vars
<1>2. QueueProofs!Inv' /\ Queue!TypeOK'
  BY <1>1, QueueStep DEF Inv, sdk
<1>3. TypeOK'
  BY <1>1, <1>2 DEF Inv, TypeOK, Now
<1>4. HistoryIsOrderly' /\ HistoryIsEarned'
  BY <1>1, HistoryKept
<1>5. CacheIsSound' /\ CacheIsEarned' /\ CacheIsUpToDate' /\ WatchHasTheLastWord'
  BY <1>1, CacheKept
<1>6. AcknowledgedIsCached'
  BY <1>1, AcknowledgedKept
<1>7. QueuesAreOwn' /\ TextGoesFirst'
  BY <1>1, QueuesKept
<1>8. AcksAreTrue'
  BY <1>1, AcksKept
<1>9. viewUser' = current'
  BY <1>1 DEF Inv
<1> QED
  BY <1>2, <1>3, <1>4, <1>5, <1>6, <1>7, <1>8, <1>9 DEF Inv

\* Every step keeps the invariant.
LEMMA NextInv == Inv /\ [Next]_vars => Inv'
<1> SUFFICES ASSUME Inv, [Next]_vars PROVE Inv'
  OBVIOUS
<1>1. CASE \E w \in Writes : WriteLocally(w)
  BY <1>1, WriteLocallyStep
<1>2. CASE ServerCommits
  BY <1>2, ServerCommitsStep
<1>3. CASE AcknowledgeBatch
  BY <1>3, AcknowledgeBatchStep
<1>4. CASE RejectBatch
  BY <1>4, RejectBatchStep
<1>5. CASE ConnectionBreaks
  BY <1>5, ConnectionBreaksStep
<1>6. CASE \E u \in Users : HandleUserChange(u) \/ Restart(u)
  BY <1>6, HandleUserChangeStep, RestartStep
<1>7. CASE \E v \in 1 .. Now, told \in SUBSET Articles : ApplyRemoteEvent(v, told)
  BY <1>7, ApplyRemoteEventStep DEF Versions
<1>8. CASE \E a \in Articles : LoseAccess(a) \/ CollectGarbage(a)
  BY <1>8, ForgetStep DEF LoseAccess, CollectGarbage
<1>9. CASE UNCHANGED vars
  BY <1>9, StutterStep
<1> QED
  BY <1>1, <1>2, <1>3, <1>4, <1>5, <1>6, <1>7, <1>8, <1>9 DEF Next

-----------------------------------------------------------------------------
\* The invariant holds of every behaviour of cache, queues, server and watch stream.
THEOREM Invariance == Spec => []Inv
BY InitInv, NextInv, PTL DEF Spec

\* Type correctness: in particular one version is on its way for every commit that
\* has not been acknowledged.
THEOREM TypeCorrect == Spec => []TypeOK
BY Invariance, PTL DEF Inv

\* Watch events and acknowledgements may come in any order: what the cache calls synced
\* is what the server had at that version, and no wrong guess survives the truth.
THEOREM WatchAlwaysHasTheLastWord == Spec => []WatchHasTheLastWord
BY Invariance, PTL DEF Inv

\* ApplyBatchResult and the remote events that follow never hide an article whose two
\* writes have been acknowledged.
THEOREM PublishedStaysVisible == Spec => []PublishedIsVisible
<1>1. Inv => PublishedIsVisible
  BY DEF Inv, AcknowledgedIsCached, PublishedIsVisible, OneAuthor
<1> QED
  BY <1>1, Invariance, PTL

\* What GetDocument shows of an article is a queued write of the account that is signed
\* in, or committed; and every queued write of that account is shown.
LEMMA InvEarned == Inv => ViewIsEarned
<1> SUFFICES ASSUME Inv PROVE ViewIsEarned
  OBVIOUS
<1>1. /\ current \in Users /\ queue \in [Users -> Seq(Writes)] /\ viewUser = current
  BY Typed DEF Inv
<1>2. PICK q \in Seq(Writes) : q = queue[current]
  BY <1>1
<1>3. \A w : PendingOfCurrent(w) <=> \E i \in DOMAIN q : q[i] = w
  BY <1>2 DEF PendingOfCurrent, ToSet
<1>4. ASSUME NEW a \in Articles
      PROVE  GetDocument(a) = Shown(a, q, cache[a].fields, DOMAIN q)
  BY <1>1, <1>2, DocumentIsShown
<1>5. ASSUME NEW w \in Writes
      PROVE  /\ PendingOfCurrent(w) => FieldOf(w) \in GetDocument(w.article)
             /\ FieldOf(w) \in GetDocument(w.article) => PendingOfCurrent(w) \/ w \in committed
  <2>1. PICK a \in Articles : a = w.article
    BY WriteFacts
  <2>2. /\ "text" \in cache[a].fields => Set(a) \in committed
        /\ "picture" \in cache[a].fields => Merge(a) \in committed
    BY DEF Inv, CacheIsEarned
  <2>3. \A i, j \in DOMAIN q : q[i] = Set(a) /\ q[j] = Merge(a) => i < j
    BY <1>1, <1>2 DEF Inv, TextGoesFirst
  <2>4. PICK base : base = cache[a].fields
    OBVIOUS
  <2>5. PICK D : D = Shown(a, q, base, DOMAIN q)
    OBVIOUS
  <2>6. CASE w.kind = "set"
    <3>1. w = Set(a) /\ FieldOf(w) = "text"
      BY <2>1, <2>6, WriteFacts
    <3>2. (\E i \in DOMAIN q : q[i] = Set(a)) => "text" \in D
      BY <2>5 DEF Shown
    <3>3. "text" \in D => (\E i \in DOMAIN q : q[i] = Set(a)) \/ "text" \in base
      BY <2>5 DEF Shown
    <3> QED
      BY <1>3, <1>4, <2>1, <2>2, <2>4, <2>5, <3>1, <3>2, <3>3
  <2>7. CASE w.kind # "set"
    <3>1. w = Merge(a) /\ FieldOf(w) = "picture"
      BY <2>1, <2>7, WriteFacts
    <3>2. (\E j \in DOMAIN q : q[j] = Merge(a)) => "picture" \in D
      BY <2>3, <2>5 DEF Shown
    <3>3. "picture" \in D => (\E j \in DOMAIN q : q[j] = Merge(a)) \/ "picture" \in base
      BY <2>5 DEF Shown
    <3> QED
      BY <1>3, <1>4, <2>1, <2>2, <2>4, <2>5, <3>1, <3>2, <3>3
  <2> QED
    BY <2>6, <2>7
<1> QED
  BY <1>5 DEF ViewIsEarned

\* The view earns what it shows.
THEOREM ViewAlwaysEarned == Spec => []ViewIsEarned
BY InvEarned, Invariance, PTL

\* What the author of an article sees of it: exactly the fields written so far, be they
\* queued, acknowledged, or superseded by what watch has told since.
OwnView ==
  \A a \in Articles \ forgotten :
    Own(a) /\ {Set(a), Merge(a)} \cap refused = {} =>
      /\ GetDocument(a) \subseteq Fields
      /\ "text" \in GetDocument(a) <=> completion[Set(a)] # "unissued"
      /\ "picture" \in GetDocument(a) <=> completion[Merge(a)] # "unissued"

\* The author sees exactly what has been written.
LEMMA InvOwnView == Inv => OwnView
<1> SUFFICES ASSUME Inv, NEW a \in Articles \ forgotten, Own(a),
                    {Set(a), Merge(a)} \cap refused = {}
             PROVE  /\ GetDocument(a) \subseteq Fields
                    /\ "text" \in GetDocument(a) <=> completion[Set(a)] # "unissued"
                    /\ "picture" \in GetDocument(a) <=> completion[Merge(a)] # "unissued"
  BY DEF OwnView
<1>1. /\ current \in Users /\ queue \in [Users -> Seq(Writes)] /\ viewUser = current
      /\ queue[current] \in Seq(Writes)
  BY Typed DEF Inv
<1>2. /\ Set(a) \in Writes /\ FieldOf(Set(a)) = "text" /\ Set(a).article = a
      /\ Merge(a) \in Writes /\ FieldOf(Merge(a)) = "picture" /\ Merge(a).article = a
  BY WriteFacts
<1>3. cache[a].fields \in SUBSET Fields
  BY EntryTyped DEF Inv
<1>4. PICK q : q = queue[current]
  OBVIOUS
<1>5. GetDocument(a) = Shown(a, q, cache[a].fields, DOMAIN q)
  BY <1>1, <1>4, DocumentIsShown
<1>6. GetDocument(a) \subseteq Fields
  BY <1>3, <1>5 DEF Shown, Fields
<1>7. /\ PendingOfCurrent(Set(a)) => "text" \in GetDocument(a)
      /\ "text" \in GetDocument(a) => PendingOfCurrent(Set(a)) \/ Set(a) \in committed
      /\ PendingOfCurrent(Merge(a)) => "picture" \in GetDocument(a)
      /\ "picture" \in GetDocument(a) => PendingOfCurrent(Merge(a)) \/ Merge(a) \in committed
  BY <1>2, InvEarned DEF ViewIsEarned
<1>8. \A w : PendingOfCurrent(w) => Queue!Pending(w)
  BY <1>1 DEF PendingOfCurrent, ToSet, Queue!Pending
<1>9. ASSUME NEW w \in {Set(a), Merge(a)}
      PROVE  /\ completion[w] = "unissued" => w \notin committed /\ ~PendingOfCurrent(w)
             /\ completion[w] # "unissued" => PendingOfCurrent(w) \/ w \in acked
             /\ completion[w] # "unissued" => author[w] = current
  <2>1. completion[w] = "unissued" => w \notin committed /\ ~PendingOfCurrent(w)
    BY <1>2, <1>8, QueueFacts DEF Inv
  <2>2. completion[w] # "unissued" => author[w] = current
    BY <1>2 DEF Inv, QueuesAreOwn, Own
  <2>3. ASSUME completion[w] # "unissued", w \notin acked
        PROVE  PendingOfCurrent(w)
    <3>1. Queue!Pending(w)
      BY <1>2, <2>3 DEF Inv, QueuesAreOwn
    <3>2. PICK u \in Users : \E i \in DOMAIN queue[u] : queue[u][i] = w
      BY <3>1 DEF Queue!Pending
    <3>3. PICK i \in DOMAIN queue[u] : queue[u][i] = w
      BY <3>2
    <3>4. author[w] = u
      BY <3>3 DEF Inv, QueuesAreOwn
    <3> QED
      BY <2>2, <2>3, <3>3, <3>4 DEF PendingOfCurrent, ToSet
  <2> QED
    BY <2>1, <2>2, <2>3
<1>10. /\ Set(a) \in acked /\ (Merge(a) \in acked => OneAuthor(a)) => "text" \in cache[a].fields
       /\ {Set(a), Merge(a)} \subseteq acked /\ OneAuthor(a) => cache[a].fields = Fields
  BY DEF Inv, AcknowledgedIsCached
<1>11. Merge(a) \in acked => completion[Merge(a)] # "unissued"
  BY DEF Inv, QueuesAreOwn
<1>12. completion[Merge(a)] # "unissued" => completion[Set(a)] # "unissued"
  BY DEF Inv, TextGoesFirst
<1>13. completion[Set(a)] # "unissued" /\ completion[Merge(a)] # "unissued" => OneAuthor(a)
  BY <1>9 DEF OneAuthor
<1>14. ASSUME NEW f \in cache[a].fields, f = "text" \/ ~PendingOfCurrent(Set(a))
       PROVE  f \in GetDocument(a)
  <2>1. (\E i \in DOMAIN q : q[i] = Set(a)) <=> PendingOfCurrent(Set(a))
    BY <1>4 DEF PendingOfCurrent, ToSet
  <2> QED
    BY <1>5, <1>14, <2>1 DEF Shown
<1>15. completion[Set(a)] # "unissued" => "text" \in GetDocument(a)
  BY <1>7, <1>9, <1>10, <1>11, <1>12, <1>13, <1>14
<1>16. completion[Merge(a)] # "unissued" => "picture" \in GetDocument(a)
  <2>1. SUFFICES ASSUME completion[Merge(a)] # "unissued", ~PendingOfCurrent(Merge(a))
                 PROVE  "picture" \in GetDocument(a)
    BY <1>7
  <2>2. Merge(a) \in acked /\ OneAuthor(a) /\ completion[Set(a)] # "unissued"
    BY <1>9, <1>12, <1>13, <2>1
  <2>3. ~Queue!Pending(Set(a))
    BY <2>2 DEF Inv, TextGoesFirst, OneAuthor
  <2>4. Set(a) \in acked
    BY <1>8, <1>9, <2>2, <2>3
  <2>5. "picture" \in cache[a].fields
    BY <1>10, <2>2, <2>4 DEF Fields
  <2> QED
    BY <1>8, <1>14, <2>3, <2>5
<1> QED
  BY <1>6, <1>7, <1>9, <1>15, <1>16

\* What has been written, refused or forgotten, and by whom, in a step.
LEMMA PastGrows ==
  ASSUME Inv, [Next]_vars, NEW a \in Articles
  PROVE  /\ forgotten \subseteq forgotten' /\ refused \subseteq refused'
         /\ \A w \in Writes : completion[w] # "unissued" => completion'[w] # "unissued"
         /\ Own(a) /\ current' = current => Own(a)'
<1>1. completion \in [Writes -> Queue!CompletionState] /\ author \in [Writes -> Users \cup {None}]
  BY Typed DEF Inv
<1>2. Set(a) \in Writes /\ Merge(a) \in Writes
  BY WriteFacts
<1>3. CASE \E w \in Writes : WriteLocally(w)
  <2>1. PICK w \in Writes : WriteLocally(w)
    BY <1>3
  <2>2. /\ forgotten' = forgotten /\ refused' = refused
        /\ completion' = [completion EXCEPT ![w] = "waiting"]
        /\ author' = [author EXCEPT ![w] = current]
    BY <2>1 DEF WriteLocally, Queue!Issue
  <2>3. \A x \in Writes : completion'[x] = completion[x] \/ completion'[x] = "waiting"
    BY <1>1, <2>2
  <2>4. \A x \in Writes : author'[x] = author[x] \/ author'[x] = current
    BY <1>1, <2>2
  <2> QED
    BY <1>2, <2>2, <2>3, <2>4 DEF Own
<1>4. CASE ServerCommits
  <2>1. UNCHANGED <<forgotten, refused, completion, author>>
    BY <1>4, CommitFacts
  <2> QED
    BY <2>1 DEF Own
<1>5. CASE AcknowledgeBatch
  <2>1. /\ UNCHANGED <<forgotten, refused, author>>
        /\ \A x \in Writes : completion'[x] = "unissued" <=> completion[x] = "unissued"
    BY <1>5, AcknowledgeFacts
  <2> QED
    BY <2>1 DEF Own
<1>6. CASE RejectBatch
  <2>1. /\ UNCHANGED <<forgotten, author>> /\ refused \subseteq refused'
        /\ completion' = Queue!Notify(Head(queue[current]), "error")
    BY <1>6 DEF RejectBatch, Queue!Reject, past
  <2>2. \A x \in Writes : completion'[x] = completion[x] \/ completion'[x] = "error"
    BY <1>1, <2>1 DEF Queue!Notify
  <2> QED
    BY <2>1, <2>2 DEF Own
<1>7. CASE ConnectionBreaks
  <2>1. UNCHANGED <<forgotten, refused, completion, author>>
    BY <1>7 DEF ConnectionBreaks, Queue!Disconnect, past
  <2> QED
    BY <2>1 DEF Own
<1>8. CASE \E u \in Users : HandleUserChange(u) \/ Restart(u)
  <2>1. UNCHANGED <<forgotten, refused, author>>
    BY <1>8 DEF HandleUserChange, Restart, Queue!SwitchUser, Queue!Restart, past
  <2>2. \A x \in Writes : completion'[x] = completion[x] \/ completion'[x] = "lost"
    BY <1>8 DEF HandleUserChange, Restart, Queue!SwitchUser, Queue!Restart
  <2> QED
    BY <2>1, <2>2 DEF Own
<1>9. CASE \E v \in 1 .. Now, told \in SUBSET Articles : ApplyRemoteEvent(v, told)
  <2>1. UNCHANGED <<forgotten, refused, completion, author>>
    BY <1>9 DEF ApplyRemoteEvent, sdk
  <2> QED
    BY <2>1 DEF Own
<1>10. CASE \E b \in Articles : LoseAccess(b) \/ CollectGarbage(b)
  <2>1. UNCHANGED <<refused, completion, author>> /\ forgotten \subseteq forgotten'
    BY <1>10 DEF LoseAccess, CollectGarbage, Forget, sdk
  <2> QED
    BY <2>1 DEF Own
<1>11. CASE UNCHANGED vars
  BY <1>11 DEF vars, Own
<1> QED
  BY <1>3, <1>4, <1>5, <1>6, <1>7, <1>8, <1>9, <1>10, <1>11 DEF Next

\* AcknowledgeBatch takes a write from the queue and puts it into the cache, a watch
\* event replaces what is there, a break sends writes again: nothing that an author
\* sees of the article disappears in such a step.
THEOREM NeverFlickers == Spec => NothingFlickers
<1>1. ASSUME Inv, [Next]_vars, OwnView, OwnView'
      PROVE  \A a \in Articles \ forgotten' :
               /\ Own(a)
               /\ current' = current
               /\ {Set(a), Merge(a)} \cap refused' = {}
               => GetDocument(a) \subseteq GetDocument(a)'
  <2>1. SUFFICES ASSUME NEW a \in Articles \ forgotten', Own(a), current' = current,
                        {Set(a), Merge(a)} \cap refused' = {}
                 PROVE  GetDocument(a) \subseteq GetDocument(a)'
    OBVIOUS
  <2>2. /\ forgotten \subseteq forgotten' /\ refused \subseteq refused' /\ Own(a)'
        /\ \A w \in Writes : completion[w] # "unissued" => completion'[w] # "unissued"
    BY <1>1, <2>1, PastGrows
  <2>3. Set(a) \in Writes /\ Merge(a) \in Writes
    BY WriteFacts
  <2>4. /\ GetDocument(a) \subseteq Fields
        /\ "text" \in GetDocument(a) <=> completion[Set(a)] # "unissued"
        /\ "picture" \in GetDocument(a) <=> completion[Merge(a)] # "unissued"
    BY <1>1, <2>1, <2>2 DEF OwnView
  <2>5. /\ "text" \in GetDocument(a)' <=> completion'[Set(a)] # "unissued"
        /\ "picture" \in GetDocument(a)' <=> completion'[Merge(a)] # "unissued"
    BY <1>1, <2>1, <2>2 DEF OwnView
  <2> QED
    BY <2>2, <2>3, <2>4, <2>5 DEF Fields
<1>2. Inv /\ [Next]_vars /\ OwnView /\ OwnView' =>
        [\A a \in Articles \ forgotten' :
               /\ Own(a)
               /\ current' = current
               /\ {Set(a), Merge(a)} \cap refused' = {}
               => GetDocument(a) \subseteq GetDocument(a)']_vars
  BY <1>1
<1> QED
  BY <1>2, InvOwnView, Invariance, PTL DEF Spec, NothingFlickers

=============================================================================
