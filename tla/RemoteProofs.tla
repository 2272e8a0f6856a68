---------------------------- MODULE RemoteProofs ----------------------------
(***************************************************************************)
(* Theorems of what aninode does with other machines: the caches of remote  *)
(* observations (RssObservations, MetadataCache, FeedReads), each by       *)
(* itself, and the moves of a downloader's tasks (Migration).               *)
(*                                                                         *)
(* A migration attempt knows of every task it paused, or has an excuse      *)
(* (PauseKnown), and what it accepted after a move cannot change any more,  *)
(* because the downloader is done with it (MovedKept).                     *)
(***************************************************************************)
EXTENDS MetadataCache, FeedReads, RssObservations, Migration, CommonProofs

RssSpec == RssInit /\ [][RssNext]_rssVars
MetadataSpec == MetadataInit /\ [][MetadataNext]_metaVars
FeedSpec == FeedInit /\ [][FeedNext]_feedVars

-----------------------------------------------------------------------------
(* Snapshots.  Releases are the time they were read at; 0 is no time.       *)

Snapshot == [feeds : Feeds, groups : Nat \cup {None}, updated : Nat, attempted : Nat,
             stale : BOOLEAN, status : {"ready", "partial", "error"}]

(* A snapshot of feeds c, not from after t. *)
Honest(o, c, t) ==
  /\ o \in Snapshot /\ o.feeds = c
  /\ o.updated <= o.attempted /\ o.attempted <= t
  /\ o.groups # None => o.updated = o.groups
  /\ o.stale <=> o.updated # 0 /\ o.updated < o.attempted

(* Reads under way are of enabled sources, and those that ended did so     *)
(* after the operation began.                                              *)
Reads ==
  /\ clock \in Nat /\ since \in Nat /\ since <= clock
  /\ work \in {"idle", "refresh", "cycle"}
  /\ conf \in [Src -> Feeds \cup {None}]
  /\ pending \subseteq {s \in Src : conf[s] # None}
  /\ result \in [Src -> Nat \cup {None}]
  /\ \A s \in Src : result[s] # None => since < result[s] /\ result[s] <= clock
  /\ work = "idle" => pending = {} /\ \A s \in Src : result[s] = None

Snapshots ==
  /\ DOMAIN obs = Src
  /\ \A s \in Src : obs[s] # None => Honest(obs[s], conf[s], clock)

RssIInv == Reads /\ Snapshots

LEMMA ReadsInit == RssInit => RssIInv
BY DEF RssInit, RssIInv, Reads, Snapshots

(* A reload keeps the snapshots whose feeds it leaves alone. *)
LEMMA ReloadedKeeps ==
  ASSUME RssIInv, Reloaded, clock' = clock
  PROVE  conf' \in [Src -> Feeds \cup {None}] /\ Snapshots'
<1>1. PICK c \in [Src -> Feeds \cup {None}] : conf' = c /\ obs' = Discard(c, obs)
  BY DEF Reloaded
<1>2. ASSUME NEW s \in Src, obs'[s] # None
      PROVE  obs'[s] = obs[s] /\ obs[s].feeds = conf'[s]
  BY <1>1, <1>2 DEF Discard
<1>3. ASSUME NEW s \in Src, obs'[s] # None
      PROVE  Honest(obs'[s], conf'[s], clock')
  BY <1>2, <1>3 DEF RssIInv, Snapshots, Honest
<1> QED BY <1>1, <1>3 DEF Snapshots, Discard

(* The outcome of a read makes an honest snapshot, whatever was there. *)
LEMMA RecordHonest ==
  ASSUME RssIInv, NEW s \in Src, conf[s] \in Feeds, clock' = clock + 1,
         NEW err \in BOOLEAN, NEW values \in {clock', None},
         values = None => err, Record(s, values, err)
  PROVE  DOMAIN obs' = Src /\ (\A x \in Src \ {s} : obs'[x] = obs[x])
         /\ Honest(obs'[s], conf[s], clock')
<1> DEFINE previous == IF obs[s] # None /\ obs[s].feeds = conf[s] THEN obs[s]
                       ELSE [groups |-> None, updated |-> 0]
<1>1. /\ previous.groups \in Nat \cup {None} /\ previous.updated \in Nat
      /\ previous.updated <= clock
      /\ previous.groups # None => previous.updated = previous.groups
  BY DEF RssIInv, Reads, Snapshots, Honest, Snapshot
<1>2. DOMAIN obs = Src
  BY DEF RssIInv, Snapshots
<1>3. CASE values = None
  <2> DEFINE o == [feeds |-> conf[s], groups |-> previous.groups, updated |-> previous.updated,
                   attempted |-> clock', stale |-> previous.updated # 0, status |-> "error"]
  <2>1. obs' = [obs EXCEPT ![s] = o]
    BY <1>3 DEF Record
  <2>2. Honest(o, conf[s], clock')
    <3>1. clock \in Nat
      BY DEF RssIInv, Reads
    <3> DEFINE g == previous.groups
               u == previous.updated
    <3>2. g \in Nat \cup {None} /\ u \in Nat /\ u <= clock /\ (g # None => u = g)
      BY <1>1
    <3> HIDE DEF g, u
    <3>3. o \in Snapshot
      BY <3>1, <3>2 DEF Snapshot, g, u
    <3>4. o.stale <=> u # 0
      BY DEF u
    <3> QED BY <3>1, <3>2, <3>3, <3>4 DEF Honest, g, u
  <2> QED BY <1>2, <2>1, <2>2
<1>4. CASE values # None
  <2> DEFINE o == [feeds |-> conf[s], groups |-> clock', updated |-> clock', attempted |-> clock',
                   stale |-> FALSE, status |-> IF err THEN "partial" ELSE "ready"]
  <2>1. obs' = [obs EXCEPT ![s] = o]
    BY <1>4 DEF Record
  <2>2. Honest(o, conf[s], clock')
    BY DEF Honest, Snapshot, RssIInv, Reads
  <2> QED BY <1>2, <2>1, <2>2
<1> QED BY <1>3, <1>4

LEMMA ReadsStep == RssIInv /\ [RssNext]_rssVars => RssIInv'
<1> SUFFICES ASSUME RssIInv, [RssNext]_rssVars PROVE RssIInv'
  OBVIOUS
<1> USE DEF RssIInv
<1>1. CASE Reconfigure
  BY <1>1, ReloadedKeeps DEF Reconfigure, Reads
<1>2. ASSUME NEW kind \in {"refresh", "cycle"}, Ingest(kind) PROVE RssIInv'
  BY <1>2, ReloadedKeeps DEF Ingest, Reads
<1>3. CASE Joined
  BY <1>3 DEF Joined, Reads, Snapshots
<1>4. ASSUME NEW s \in Src, Current(s) PROVE RssIInv'
  <2>1. conf[s] \in Feeds /\ clock' = clock + 1
    BY <1>4 DEF Current, Reads
  <2>2. PICK err \in BOOLEAN, some \in BOOLEAN :
          LET values == IF some \/ ~err THEN clock' ELSE None IN
          /\ Record(s, values, err)
          /\ result' = [result EXCEPT ![s] = values]
    BY <1>4, Zenon DEF Current
  <2> DEFINE values == IF some \/ ~err THEN clock' ELSE None
  <2>3. values \in {clock', None} /\ (values = None => err)
    BY <2>1, ObservationAssumption DEF Reads
  <2>4. Record(s, values, err) /\ result' = [result EXCEPT ![s] = values]
    BY <2>2
  <2> HIDE DEF values
  <2>5. Snapshots'
    <3>1. ASSUME NEW x \in Src \ {s}, obs[x] # None PROVE Honest(obs[x], conf[x], clock')
      BY <2>1, <3>1 DEF Snapshots, Reads, Honest, Snapshot
    <3> QED BY <1>4, <2>1, <2>3, <2>4, <3>1, RecordHonest DEF Current, Snapshots
  <2>6. Reads'
    BY <1>4, <2>1, <2>3, <2>4, ObservationAssumption DEF Current, Reads
  <2> QED BY <2>5, <2>6
<1>5. CASE UNCHANGED rssVars
  BY <1>5 DEF rssVars, Reads, Snapshots
<1> QED BY <1>1, <1>2, <1>3, <1>4, <1>5 DEF RssNext

(* A snapshot of any number of sources and reads is of the feeds its source *)
(* has, and dates and marks the releases it shows by the read they are of.  *)
THEOREM SnapshotsHonest == RssSpec => []HonestSnapshots
<1>1. RssIInv => HonestSnapshots
  BY DEF RssIInv, Snapshots, Honest, HonestSnapshots
<1> QED BY <1>1, ReadsInit, ReadsStep, PTL DEF RssSpec

(* What a cycle plans from was read between its beginning and its end.      *)
THEOREM CyclesPlanFromOwnReads == RssSpec => PlansFromOwnReads
<1>1. RssIInv /\ [RssNext]_rssVars
      => [work = "cycle" /\ work' = "idle" =>
            planned' = {t \in planned' : since < t /\ t <= clock}]_rssVars
  <2> SUFFICES ASSUME RssIInv, RssNext, work = "cycle", work' = "idle"
               PROVE  \A t \in planned' : since < t /\ t <= clock
    OBVIOUS
  <2>1. Joined
    BY DEF RssNext, Reconfigure, Ingest, Current
  <2> QED BY <2>1 DEF Joined, RssIInv, Reads
<1> QED BY <1>1, ReadsInit, ReadsStep, PTL DEF RssSpec, PlansFromOwnReads

-----------------------------------------------------------------------------
(* Flights.                                                                 *)

ReaderOK ==
  /\ flights \subseteq Url
  /\ reader \in [Reader -> [at : {"idle", "reading", "waiting"}, url : Url \cup {Nothing}]]
  /\ \A r \in Reader : reader[r].at # "idle" => reader[r].url \in Url

FlightInv == ReaderOK /\ OneFlight

LEMMA FlightInit == MetadataInit => FlightInv
BY DEF MetadataInit, FlightInv, ReaderOK, OneFlight, Idle

LEMMA FetchFlight ==
  ASSUME FlightInv, NEW r \in Reader, NEW u \in Url, Fetch(r, u)
  PROVE  FlightInv'
<1> DEFINE place == IF u \in flights THEN "waiting" ELSE "reading"
<1>1. /\ flights' = flights \cup {u} /\ reader[r].at = "idle"
      /\ reader' = [reader EXCEPT ![r] = [at |-> place, url |-> u]]
  BY DEF Fetch
<1>2. ReaderOK'
  BY <1>1 DEF FlightInv, ReaderOK
<1>3. /\ reader'[r] = [at |-> place, url |-> u]
      /\ \A x \in Reader \ {r} : reader'[x] = reader[x]
  BY <1>1 DEF FlightInv, ReaderOK
<1>4. OneFlight'
  <2>1. CASE u \in flights
    BY <1>1, <1>3, <2>1 DEF FlightInv, OneFlight
  <2>2. CASE u \notin flights
    BY <1>1, <1>3, <2>2 DEF FlightInv, OneFlight
  <2> QED BY <2>1, <2>2
<1> QED BY <1>2, <1>4 DEF FlightInv

(* The owner leaves with everybody who waits for it. *)
LEMMA LandFlight ==
  ASSUME FlightInv, NEW r \in Reader, Land(r)
  PROVE  FlightInv'
<1> DEFINE u == reader[r].url
           sharing == {x \in Reader : x = r \/ (reader[x].at = "waiting" /\ reader[x].url = u)}
<1>1. /\ reader[r].at = "reading" /\ flights' = flights \ {u}
      /\ reader' = [x \in Reader |-> IF x \in sharing THEN Idle ELSE reader[x]]
  BY DEF Land
<1>2. ReaderOK'
  BY <1>1 DEF FlightInv, ReaderOK, Idle
<1>3. \A x \in Reader : reader'[x].at # "idle" => x \notin sharing /\ reader'[x] = reader[x]
  BY <1>1 DEF Idle
<1>4. \A x \in Reader : x \notin sharing => reader'[x] = reader[x]
  BY <1>1
<1>5. OneFlight'
  BY <1>1, <1>3, <1>4 DEF FlightInv, OneFlight
<1> QED BY <1>2, <1>5 DEF FlightInv

LEMMA FlightStep == FlightInv /\ [MetadataNext]_metaVars => FlightInv'
<1> SUFFICES ASSUME FlightInv, [MetadataNext]_metaVars PROVE FlightInv'
  OBVIOUS
<1>1. ASSUME NEW r \in Reader, NEW u \in Url, Fetch(r, u) PROVE FlightInv'
  BY <1>1, FetchFlight
<1>2. ASSUME NEW r \in Reader, Land(r) PROVE FlightInv'
  BY <1>2, LandFlight
<1>3. ASSUME NEW r \in Reader, Return(r) PROVE FlightInv'
  BY <1>3 DEF Return, Idle, FlightInv, ReaderOK, OneFlight
<1>4. ASSUME UNCHANGED <<flights, reader>> PROVE FlightInv'
  BY <1>4 DEF FlightInv, ReaderOK, OneFlight
<1> QED
  BY <1>1, <1>2, <1>3, <1>4 DEF MetadataNext, Cancel, ByHash, Tick, metaVars

(* However many readers ask, each URL has at most one request under way, and *)
(* nobody waits for a request that does not exist.                         *)
THEOREM OneRequestPerURL == MetadataSpec => []OneFlight
<1>1. FlightInv => OneFlight
  BY DEF FlightInv
<1> QED BY <1>1, FlightInit, FlightStep, PTL DEF MetadataSpec

(* Readers of one URL.  A read that is under way stays so until it lands.   *)

Busy(r, u) == reader[r].at # "idle" /\ reader[r].url = u
(* A read of this URL that goes on lands in the end: the HTTP client gives  *)
(* up after its timeout.                                                   *)
Lands(u) == \E x \in Reader : reader[x].url = u /\ Land(x)
ReadEnds(u) == []<>(u \notin flights) \/ []<><<Lands(u)>>_metaVars

LEMMA BusyStays ==
  ASSUME NEW r \in Reader, NEW u \in Url, FlightInv, Busy(r, u), [MetadataNext]_metaVars
  PROVE  /\ u \in flights
         /\ Busy(r, u)' \/ reader'[r].at = "idle"
<1> USE DEF FlightInv, ReaderOK, OneFlight, Busy
<1>1. u \in flights
  OBVIOUS
<1>2. ASSUME NEW x \in Reader, NEW v \in Url, Fetch(x, v) PROVE reader'[r] = reader[r]
  <2>1. x # r /\ reader' = [reader EXCEPT ![x] = [at |-> IF v \in flights THEN "waiting" ELSE "reading", url |-> v]]
    BY <1>2 DEF Fetch
  <2> QED BY <2>1
<1>3. ASSUME NEW x \in Reader, Land(x) PROVE reader'[r] \in {reader[r], Idle}
  BY <1>3 DEF Land
<1>4. ASSUME NEW x \in Reader, Return(x) PROVE reader'[r] \in {reader[r], Idle}
  BY <1>4 DEF Return
<1>5. reader'[r] \in {reader[r], Idle}
  BY <1>2, <1>3, <1>4 DEF MetadataNext, Cancel, ByHash, Tick, metaVars
<1> QED BY <1>1, <1>5 DEF Idle

LEMMA LandsAll ==
  ASSUME NEW r \in Reader, NEW u \in Url, FlightInv, Busy(r, u), Lands(u)
  PROVE  reader'[r].at = "idle"
<1> USE DEF FlightInv, ReaderOK, OneFlight, Busy
<1>1. PICK x \in Reader : reader[x].url = u /\ Land(x)
  BY DEF Lands
<1>2. reader[x].at = "reading"
  BY <1>1 DEF Land
<1>3. r = x \/ reader[r].at = "waiting"
  BY <1>1, <1>2
<1>4. reader'[r] = Idle
  BY <1>1, <1>3 DEF Land
<1> QED BY <1>4 DEF Idle

Back(r) == reader[r].at = "idle"

(* Whoever asks for a URL returns if reads of that URL end, whoever started *)
(* the read, and although nothing is assumed to wake the others: the one    *)
(* who owns the request leaves with all who wait for it.                   *)
THEOREM ReadersOfReturn ==
  ASSUME NEW r \in Reader, NEW u \in Url
  PROVE  MetadataSpec /\ ReadEnds(u) => (Busy(r, u) ~> Back(r))
<1>1. FlightInv /\ Busy(r, u) /\ [MetadataNext]_metaVars => u \in flights /\ (Busy(r, u)' \/ Back(r)')
  BY BusyStays DEF Back
<1>2. FlightInv /\ Busy(r, u) /\ <<Lands(u)>>_metaVars => Back(r)'
  BY LandsAll DEF Back
<1>3. MetadataSpec => []FlightInv
  BY FlightInit, FlightStep, PTL DEF MetadataSpec
<1>4. FlightInv /\ Busy(r, u) => ~(u \notin flights)
  BY DEF FlightInv, ReaderOK, OneFlight, Busy
<1> QED
  BY <1>1, <1>2, <1>3, <1>4, PTL DEF MetadataSpec, ReadEnds

-----------------------------------------------------------------------------
(* The bounds of the torrent cache.  The bytes it counts are the sum of the *)
(* sizes it holds, by whatever way it came to hold them.                   *)

LEMMA WeightIs ==
  ASSUME NEW E, NEW K, IsFiniteSet(K), \A u \in K : E[u].size \in Int,
         NEW w, SumsTo([u \in K |-> E[u].size], K, w), NEW L \in SUBSET K
  PROVE  Weight(E, L) = w[L]
<1> DEFINE f == [u \in K |-> E[u].size]
           Iter(g) == g = [T \in SUBSET L |->
                        IF T = {} THEN 0 ELSE E[CHOOSE x \in T : TRUE].size + g[T \ {CHOOSE x \in T : TRUE}]]
<1>1. f \in [K -> Int]
  OBVIOUS
<1>2. Iter([T \in SUBSET L |-> w[T]])
  <2> DEFINE r == [T \in SUBSET L |-> w[T]]
  <2>1. ASSUME NEW T \in SUBSET L, T # {}
        PROVE r[T] = E[CHOOSE x \in T : TRUE].size + r[T \ {CHOOSE x \in T : TRUE}]
    <3> DEFINE c == CHOOSE x \in T : TRUE
    <3>1. c \in T
      BY <2>1
    <3>2. w[T] = f[c] + w[T \ {c}]
      BY <2>1 DEF SumsTo, Adds, Picked
    <3>3. f[c] = E[c].size
      BY <3>1
    <3>4. r[T] = w[T] /\ r[T \ {c}] = w[T \ {c}]
      BY <3>1
    <3> QED BY <3>2, <3>3, <3>4
  <2>2. r[{}] = 0
    BY DEF SumsTo, Adds
  <2> QED BY <2>1, <2>2
<1>3. Iter(CHOOSE g : Iter(g))
  BY <1>2
<1>4. Weight(E, L) = (CHOOSE g : Iter(g))[L]
  BY DEF Weight, MapThenSumSet, MapThenFoldSet
<1>5. PICK v : Iter(v) /\ Weight(E, L) = v[L]
  BY <1>3, <1>4
<1>6. Adds(f, L, v)
  <2> SUFFICES ASSUME NEW T \in SUBSET L, T # {} PROVE v[T] = f[Picked(T)] + v[T \ {Picked(T)}]
    BY <1>5 DEF Adds
  <2>1. f[Picked(T)] = E[Picked(T)].size
    BY PickedIn
  <2>2. v[T] = E[Picked(T)].size + v[T \ {Picked(T)}]
    BY <1>5 DEF Picked
  <2> QED BY <2>1, <2>2
<1>7. SumsTo(f, K, w) /\ IsFiniteSet(K) /\ L \in SUBSET K
  OBVIOUS
<1> HIDE DEF f, Iter
<1>8. \A T \in SUBSET L : v[T] = w[T]
  BY <1>1, <1>6, <1>7, SumUnique
<1> QED BY <1>5, <1>8

(* The weight of some entries is a sum. *)
LEMMA WeightEmpty == \A E : Weight(E, {}) = 0
<1> SUFFICES ASSUME NEW E PROVE Weight(E, {}) = 0
  OBVIOUS
<1>1. IsFiniteSet({}) /\ [u \in {} |-> E[u].size] \in [{} -> Int]
  BY FS_EmptySet
<1>2. PICK w : SumsTo([u \in {} |-> E[u].size], {}, w)
  BY <1>1, SumExists
<1>3. Weight(E, {}) = w[{}]
  BY <1>1, <1>2, WeightIs
<1> QED BY <1>2, <1>3 DEF SumsTo, Adds

LEMMA WeightSplit ==
  ASSUME NEW E, NEW K, IsFiniteSet(K), \A u \in K : E[u].size \in Nat, NEW L \in SUBSET K
  PROVE  /\ Weight(E, K) \in Nat /\ Weight(E, L) \in Nat
         /\ Weight(E, K) = Weight(E, L) + Weight(E, K \ L)
<1> DEFINE f == [u \in K |-> E[u].size]
<1>1. f \in [K -> Int] /\ f \in [K -> Nat]
  OBVIOUS
<1>2. PICK w : SumsTo(f, K, w)
  BY <1>1, SumExists
<1>3. \A T \in SUBSET K : Weight(E, T) = w[T]
  BY <1>2, WeightIs
<1>4. K \in SUBSET K /\ K \ L \in SUBSET K
  OBVIOUS
<1> HIDE DEF f
<1>5. w[K] = w[L] + w[K \ L]
  BY <1>1, <1>2, <1>4, SumSplit
<1>6. w[K] \in Nat /\ w[L] \in Nat
  BY <1>1, <1>2, <1>4, SumNat
<1> QED BY <1>3, <1>4, <1>5, <1>6

LEMMA WeightOne ==
  ASSUME NEW E, NEW u, E[u].size \in Nat
  PROVE  Weight(E, {u}) = E[u].size
<1> DEFINE K == {u}
           f == [x \in K |-> E[x].size]
<1>1. IsFiniteSet(K) /\ (\A x \in K : E[x].size \in Int) /\ f \in [K -> Int]
      /\ K \in SUBSET K /\ u \in K
  <2>1. IsFiniteSet(K)
    BY FS_Singleton
  <2>2. \A x \in K : E[x].size \in Int
    OBVIOUS
  <2> QED BY <2>1, <2>2
<1>2. f[u] = E[u].size /\ K \ {u} = {}
  OBVIOUS
<1> HIDE DEF K
<1>3. PICK w : SumsTo(f, K, w)
  BY <1>1, SumExists
<1>4. Weight(E, K) = w[K]
  BY <1>1, <1>3, WeightIs
<1> HIDE DEF f
<1>5. w[K] = f[u] + w[{}]
  <2>1. w[K] = f[u] + w[K \ {u}]
    BY <1>1, <1>3, SumsAny
  <2> QED BY <1>2, <2>1
<1>6. w[{}] = 0
  BY <1>3 DEF SumsTo, Adds
<1> QED BY <1>2, <1>4, <1>5, <1>6 DEF K

LEMMA WeightAdd ==
  ASSUME NEW E, NEW K, IsFiniteSet(K), \A x \in K : E[x].size \in Nat,
         NEW u, u \notin K, E[u].size \in Nat
  PROVE  Weight(E, K \cup {u}) = Weight(E, K) + E[u].size
<1> DEFINE A == K \cup {u}
<1>1. IsFiniteSet(A) /\ (\A x \in A : E[x].size \in Nat) /\ K \in SUBSET A
  BY FS_AddElement
<1>2. A \ K = {u}
  OBVIOUS
<1> HIDE DEF A
<1>3. Weight(E, A) = Weight(E, K) + Weight(E, A \ K)
  BY <1>1, WeightSplit
<1>4. Weight(E, {u}) = E[u].size
  BY WeightOne
<1> QED BY <1>2, <1>3, <1>4 DEF A

LEMMA WeightSame ==
  ASSUME NEW E, NEW D, NEW K, IsFiniteSet(K),
         \A u \in K : E[u].size \in Nat /\ E[u] = D[u]
  PROVE  Weight(E, K) = Weight(D, K)
<1> DEFINE f == [u \in K |-> E[u].size]
           h == [u \in K |-> D[u].size]
<1>1. f = h /\ f \in [K -> Int]
  OBVIOUS
<1>2. PICK w : SumsTo(f, K, w)
  BY <1>1, SumExists
<1>3. SumsTo(h, K, w)
  BY <1>1, <1>2
<1>4. Weight(E, K) = w[K] /\ Weight(D, K) = w[K]
  <2>1. Weight(E, K) = w[K]
    BY <1>2, WeightIs
  <2>2. Weight(D, K) = w[K]
    BY <1>3, WeightIs
  <2> QED BY <2>1, <2>2
<1> QED BY <1>4

(* What is cached of a torrent. *)
Entry == [hash : Hash \cup {Nothing}, size : Nat, expires : 0 .. MaxNow + TTL]

(* A cache of entries E with hash index I that counts b bytes is sound. *)
Sound(E, I, b) ==
  /\ E \in [Url -> {Nothing} \cup Entry] /\ I \in [Hash -> Url \cup {Nothing}]
  /\ IsFiniteSet(Cached(E)) /\ Cardinality(Cached(E)) <= MaxEntries
  /\ b = Weight(E, Cached(E)) /\ b <= MaxBytes
  /\ \A h \in Hash : I[h] # Nothing => E[I[h]] # Nothing /\ E[I[h]].hash = h

CacheInv == now \in 0 .. MaxNow /\ Sound(entries, byHash, bytes)

LEMMA EntryKnown == ASSUME NEW E, NEW I, NEW b, Sound(E, I, b), NEW u \in Cached(E)
                    PROVE  u \in Url /\ E[u] \in Entry /\ E[u].size \in Nat /\ E[u].expires \in Nat
<1>1. u \in Url /\ E[u] \in Entry
  BY DEF Sound, Cached
<1> QED BY <1>1, MetadataAssumption DEF Entry

(* What is removed leaves a sound cache. *)
LEMMA WithoutSound ==
  ASSUME NEW E, NEW I, NEW b, Sound(E, I, b), NEW K \in SUBSET Url
  PROVE  /\ Sound(Without(E, K), IndexWithout(I, E, K), b - Weight(E, K \cap Cached(E)))
         /\ Cached(Without(E, K)) = Cached(E) \ K
<1> DEFINE D == Without(E, K)
           J == IndexWithout(I, E, K)
           C == Cached(E)
           L == K \cap C
<1>1. Cached(D) = C \ K /\ C \ K = C \ L
  BY DEF Cached, Without
<1>2. IsFiniteSet(C) /\ Cardinality(C) <= MaxEntries /\ (\A u \in C : E[u].size \in Nat)
  BY EntryKnown DEF Sound
<1>3. IsFiniteSet(C \ L) /\ Cardinality(C \ L) <= MaxEntries
  <2>1. C \ L \in SUBSET C
    OBVIOUS
  <2>2. IsFiniteSet(C \ L) /\ Cardinality(C \ L) <= Cardinality(C)
    BY <1>2, <2>1, FS_Subset
  <2>3. Cardinality(C \ L) \in Nat /\ Cardinality(C) \in Nat /\ MaxEntries \in Nat
    BY <1>2, <2>2, FS_CardinalityType, MetadataAssumption
  <2> QED BY <1>2, <2>2, <2>3
<1>4. Weight(E, C) = Weight(E, L) + Weight(E, C \ L) /\ Weight(E, L) \in Nat /\ Weight(E, C \ L) \in Nat
  <2>1. L \in SUBSET C /\ C \ L \in SUBSET C
    OBVIOUS
  <2> HIDE DEF L, C
  <2>2. Weight(E, C) = Weight(E, L) + Weight(E, C \ L)
    BY <1>2, <2>1, WeightSplit
  <2>3. Weight(E, L) \in Nat
    BY <1>2, <2>1, WeightSplit
  <2>4. Weight(E, C \ L) \in Nat
    BY <1>2, <2>1, WeightSplit
  <2> QED BY <2>2, <2>3, <2>4
<1>5. Weight(D, C \ L) = Weight(E, C \ L)
  <2>1. \A u \in C \ L : E[u].size \in Nat /\ E[u] = D[u]
    BY <1>2 DEF Without, Cached
  <2> HIDE DEF L, C, D
  <2> QED BY <1>3, <2>1, WeightSame
<1>6. D \in [Url -> {Nothing} \cup Entry] /\ J \in [Hash -> Url \cup {Nothing}]
  BY DEF Sound, Without, IndexWithout
<1>7. ASSUME NEW h \in Hash, J[h] # Nothing PROVE D[J[h]] # Nothing /\ D[J[h]].hash = h
  <2>1. J[h] = I[h] /\ ~\E u \in K : E[u] # Nothing /\ E[u].hash = h /\ I[h] = u
    BY <1>7 DEF IndexWithout
  <2>2. I[h] \in Url /\ E[I[h]] # Nothing /\ E[I[h]].hash = h
    BY <1>7, <2>1 DEF Sound
  <2>3. D[I[h]] = E[I[h]]
    BY <2>1, <2>2 DEF Without
  <2> QED BY <2>1, <2>2, <2>3
<1>8. b - Weight(E, L) = Weight(D, Cached(D)) /\ b - Weight(E, L) <= MaxBytes
  <2>1. b = Weight(E, C) /\ b <= MaxBytes /\ MaxBytes \in Nat
    BY MetadataAssumption DEF Sound
  <2>2. Weight(D, Cached(D)) = Weight(E, C \ L)
    BY <1>1, <1>5
  <2>3. C \ K = C \ L
    OBVIOUS
  <2> DEFINE x == Weight(E, C)
             y == Weight(E, L)
             z == Weight(E, C \ L)
  <2>4. x = y + z /\ y \in Nat /\ z \in Nat /\ b = x /\ Weight(D, Cached(D)) = z
    BY <1>4, <2>1, <2>2
  <2> HIDE DEF x, y, z
  <2>5. b - y = Weight(D, Cached(D)) /\ b - y <= MaxBytes
    BY <2>1, <2>4
  <2> QED BY <2>5 DEF y
<1> HIDE DEF D, J, C
<1>9. Sound(D, J, b - Weight(E, L))
  <2>1. IsFiniteSet(Cached(D)) /\ Cardinality(Cached(D)) <= MaxEntries
    BY <1>1, <1>3
  <2> QED BY <1>6, <1>7, <1>8, <2>1 DEF Sound
<1> QED BY <1>1, <1>9 DEF D, J, C

(* The entries that must go can always be chosen: all of them make room, and *)
(* of the sets of the oldest entries that do, a least one is what is chosen. *)
LEMMA EvictedFits ==
  ASSUME NEW E, NEW I, NEW b, Sound(E, I, b), NEW size \in Nat, size <= MaxBytes
  PROVE  Evicted(E, b, size) \in SUBSET Cached(E) /\ Fits(E, b, Evicted(E, b, size), size)
<1> DEFINE C == Cached(E)
           Oldest(K) == \A u \in K, v \in C : Older(E, v, u) => v \in K
           F == {K \in SUBSET C : Fits(E, b, K, size) /\ Oldest(K)}
<1>1. C \in F
  <2>1. Cardinality(C \ C) < MaxEntries
    <3>1. C \ C = {} /\ Cardinality({}) = 0
      BY FS_EmptySet
    <3> QED BY <3>1, MetadataAssumption
  <2>2. b - Weight(E, C) + size <= MaxBytes
    <3>1. b = Weight(E, C) /\ Weight(E, C) \in Nat
      <4>1. IsFiniteSet(C) /\ (\A u \in C : E[u].size \in Nat) /\ C \in SUBSET C /\ b = Weight(E, C)
        BY EntryKnown DEF Sound
      <4> HIDE DEF C
      <4> QED BY <4>1, WeightSplit
    <3> QED BY <3>1
  <2> QED BY <2>1, <2>2 DEF Fits
<1>2. PICK K \in F : \A U \in F : U \subseteq K => U = K
  <2>1. F \in SUBSET SUBSET C /\ F # {} /\ IsFiniteSet(C)
    BY <1>1 DEF Sound
  <2> HIDE DEF F, C
  <2> QED BY <2>1, SmallestSet
<1>3. ASSUME NEW u \in K PROVE ~Fits(E, b, {v \in K : Older(E, v, u)}, size)
  <2> DEFINE U == {v \in K : Older(E, v, u)}
  <2>1. \A v \in C : v \in Nat /\ E[v].expires \in Nat
    BY EntryKnown, MetadataAssumption
  <2>2. u \notin U
    BY <2>1 DEF Older
  <2>3. Oldest(U)
    <3> SUFFICES ASSUME NEW v \in U, NEW x \in C, Older(E, x, v) PROVE x \in U
      OBVIOUS
    <3>1. x \in K
      BY <1>2
    <3>2. Older(E, x, u)
      BY <2>1 DEF Older
    <3> QED BY <3>1, <3>2
  <2> QED BY <1>2, <2>2, <2>3
<1>4. \E X \in SUBSET C : /\ Fits(E, b, X, size)
                          /\ \A u \in X, v \in Cached(E) : Older(E, v, u) => v \in X
                          /\ \A u \in X : ~Fits(E, b, {v \in X : Older(E, v, u)}, size)
  BY <1>2, <1>3
<1> QED BY <1>4 DEF Evicted

LEMMA StoreSound ==
  ASSUME CacheInv, NEW u \in Url, NEW m \in Served[u], Store(u, m)
  PROVE  Sound(entries', byHash', bytes')
<1>1. CASE m.size > MaxBytes
  BY <1>1 DEF Store, CacheInv
<1>2. CASE ~(m.size > MaxBytes)
  <2> DEFINE cleared == Without(entries, {u})
             index == IndexWithout(byHash, entries, {u})
             b == bytes - Weight(entries, {u} \cap Cached(entries))
             out == Evicted(cleared, b, m.size)
             rest == Without(cleared, out)
             kept == IndexWithout(index, cleared, out)
             e == [hash |-> m.hash, size |-> m.size, expires |-> now + TTL]
             D == [rest EXCEPT ![u] = e]
  <2>1. /\ entries' = D /\ bytes' = b - Weight(cleared, out) + m.size
        /\ byHash' = IF m.hash = Nothing THEN kept ELSE [kept EXCEPT ![m.hash] = u]
    BY <1>2 DEF Store
  <2>2. m.size \in Nat /\ m.size <= MaxBytes /\ m.hash \in Hash \cup {Nothing} /\ e \in Entry
        /\ e # Nothing /\ e.size = m.size /\ e.hash = m.hash
    BY <1>2, MetadataAssumption DEF CacheInv, Entry
  <2>3. Sound(cleared, index, b) /\ Cached(cleared) = Cached(entries) \ {u}
    BY WithoutSound DEF CacheInv
  <2> HIDE DEF cleared, index, b, e
  <2>4. out \in SUBSET Cached(cleared) /\ Fits(cleared, b, out, m.size)
    BY <2>2, <2>3, EvictedFits
  <2> HIDE DEF out
  <2>5. /\ Sound(rest, kept, b - Weight(cleared, out))
        /\ Cached(rest) = Cached(cleared) \ out
    <3>1. out \in SUBSET Url /\ out \cap Cached(cleared) = out
      BY <2>4 DEF Cached
    <3>2. /\ Sound(Without(cleared, out), IndexWithout(index, cleared, out),
                   b - Weight(cleared, out \cap Cached(cleared)))
          /\ Cached(Without(cleared, out)) = Cached(cleared) \ out
      <4> HIDE DEF rest, kept, D
      <4> QED BY <2>3, <3>1, WithoutSound
    <3> QED BY <3>1, <3>2
  <2> HIDE DEF rest, kept
  <2>6. D \in [Url -> {Nothing} \cup Entry] /\ D[u] = e /\ \A x \in Url \ {u} : D[x] = rest[x]
    BY <2>2, <2>5 DEF Sound
  <2>7. u \notin Cached(rest) /\ Cached(D) = Cached(rest) \cup {u}
    BY <2>2, <2>3, <2>5, <2>6 DEF Cached
  <2> HIDE DEF D
  <2>8. IsFiniteSet(Cached(D)) /\ Cardinality(Cached(D)) <= MaxEntries
    <3>1. IsFiniteSet(Cached(rest)) /\ Cardinality(Cached(rest)) < MaxEntries
      BY <2>4, <2>5 DEF Sound, Fits
    <3>2. IsFiniteSet(Cached(D)) /\ Cardinality(Cached(D)) = Cardinality(Cached(rest)) + 1
      BY <2>7, <3>1, FS_AddElement
    <3>3. Cardinality(Cached(rest)) \in Nat /\ MaxEntries \in Nat
      BY <3>1, FS_CardinalityType, MetadataAssumption
    <3> QED BY <3>1, <3>2, <3>3
  <2>9. Weight(D, Cached(D)) = Weight(rest, Cached(rest)) + m.size
    <3>1. \A x \in Cached(D) : D[x].size \in Nat
      BY <2>2, <2>5, <2>6, <2>7, EntryKnown
    <3>2. IsFiniteSet(Cached(rest)) /\ u \notin Cached(rest) /\ \A x \in Cached(rest) : D[x].size \in Nat
      BY <2>5, <2>7, <3>1 DEF Sound
    <3>3. D[u].size = m.size /\ m.size \in Nat
      BY <2>2, <2>6
    <3>4. Weight(D, Cached(rest) \cup {u}) = Weight(D, Cached(rest)) + m.size
      BY <3>2, <3>3, WeightAdd
    <3>5. Weight(D, Cached(rest)) = Weight(rest, Cached(rest))
      <4>1. \A x \in Cached(rest) : D[x].size \in Nat /\ D[x] = rest[x]
        BY <2>5, <2>6, <2>7, <3>1 DEF Cached
      <4> QED BY <2>5, <4>1, WeightSame DEF Sound
    <3> QED BY <2>7, <3>4, <3>5
  <2>10. bytes' = Weight(D, Cached(D)) /\ bytes' <= MaxBytes
    BY <2>1, <2>4, <2>5, <2>9 DEF Sound, Fits
  <2>11. byHash' \in [Hash -> Url \cup {Nothing}]
    BY <2>1, <2>5 DEF Sound
  <2>12. ASSUME NEW h \in Hash, byHash'[h] # Nothing
         PROVE  D[byHash'[h]] # Nothing /\ D[byHash'[h]].hash = h
    <3>1. CASE h = m.hash
      <4>1. byHash'[h] = u
        BY <2>1, <2>5, <3>1, MetadataAssumption DEF Sound
      <4> QED BY <2>2, <2>6, <3>1, <4>1
    <3>2. CASE h # m.hash
      <4>1. byHash'[h] = kept[h]
        BY <2>1, <2>5, <3>2 DEF Sound
      <4>2. kept[h] \in Url /\ rest[kept[h]] # Nothing /\ rest[kept[h]].hash = h
        BY <2>5, <2>12, <4>1 DEF Sound
      <4>3. kept[h] # u
        BY <2>7, <4>2 DEF Cached
      <4> QED BY <2>6, <4>1, <4>2, <4>3
    <3> QED BY <3>1, <3>2
  <2> QED BY <2>1, <2>6, <2>8, <2>10, <2>11, <2>12 DEF Sound
<1> QED BY <1>1, <1>2

LEMMA ForgetSound ==
  ASSUME CacheInv, NEW u \in Url, Forget({u})
  PROVE  Sound(entries', byHash', bytes')
BY WithoutSound DEF CacheInv, Forget

LEMMA CacheInit == MetadataInit => CacheInv
<1> SUFFICES ASSUME MetadataInit PROVE CacheInv
  OBVIOUS
<1>1. Cached(entries) = {}
  BY DEF MetadataInit, Cached
<1>2. Cardinality({}) = 0 /\ IsFiniteSet({}) /\ Weight(entries, {}) = 0
  BY FS_EmptySet, WeightEmpty
<1>3. /\ IsFiniteSet(Cached(entries)) /\ Cardinality(Cached(entries)) <= MaxEntries
      /\ 0 = Weight(entries, Cached(entries)) /\ 0 <= MaxBytes
  BY <1>1, <1>2, MetadataAssumption
<1>4. /\ entries \in [Url -> {Nothing} \cup Entry] /\ byHash \in [Hash -> Url \cup {Nothing}]
      /\ bytes = 0 /\ now \in 0 .. MaxNow /\ \A h \in Hash : byHash[h] = Nothing
  BY MetadataAssumption DEF MetadataInit
<1> QED BY <1>3, <1>4 DEF CacheInv, Sound

LEMMA CacheStep == CacheInv /\ ReaderOK /\ [MetadataNext]_metaVars => CacheInv'
<1> SUFFICES ASSUME CacheInv, ReaderOK, [MetadataNext]_metaVars PROVE CacheInv'
  OBVIOUS
<1>1. ASSUME NEW r \in Reader, NEW u \in Url, Fetch(r, u) PROVE CacheInv'
  <2>1. Forget({u}) \/ UNCHANGED <<entries, byHash, bytes>>
    BY <1>1 DEF Fetch
  <2>2. Sound(entries', byHash', bytes')
    BY <2>1, ForgetSound DEF CacheInv
  <2> QED BY <1>1, <2>2 DEF Fetch, CacheInv
<1>2. ASSUME NEW r \in Reader, Land(r) PROVE CacheInv'
  <2>1. reader[r].url \in Url /\ now' = now
    BY <1>2 DEF Land, ReaderOK
  <2>2. (\E m \in Served[reader[r].url] : Store(reader[r].url, m)) \/ UNCHANGED <<entries, byHash, bytes>>
    BY <1>2 DEF Land
  <2>3. Sound(entries', byHash', bytes')
    BY <2>1, <2>2, StoreSound DEF CacheInv
  <2> QED BY <2>1, <2>3 DEF CacheInv
<1>3. ASSUME NEW h \in Hash, ByHash(h) PROVE CacheInv'
  <2>1. byHash[h] \in Url /\ Forget({byHash[h]}) /\ now' = now
    BY <1>3 DEF ByHash, CacheInv, Sound
  <2>2. Sound(entries', byHash', bytes')
    BY <2>1, ForgetSound
  <2> QED BY <2>1, <2>2 DEF CacheInv
<1>4. ASSUME UNCHANGED <<entries, byHash, bytes>>, now' \in 0 .. MaxNow PROVE CacheInv'
  BY <1>4 DEF CacheInv
<1> QED
  BY <1>1, <1>2, <1>3, <1>4, MetadataAssumption
  DEF MetadataNext, Return, Cancel, Tick, metaVars, CacheInv

(* The cache stays within its bounds for any number of torrents and readers *)
THEOREM CacheBounded == MetadataSpec => []CacheSound
<1>1. CacheInv => CacheSound
  BY DEF CacheInv, CacheSound, Sound
<1> QED BY <1>1, CacheInit, CacheStep, FlightInit, FlightStep, PTL DEF MetadataSpec, FlightInv

-----------------------------------------------------------------------------
(* Cooldowns.                                                               *)

CooldownOK ==
  /\ time \in Nat /\ until \in [Hosts -> Nat]
  /\ DOMAIN read = Client
  /\ \A c \in Client : read[c].at = "limited" => read[c].feed \in Feed /\ read[c].answer \in Delays
  /\ \A c \in Client : read[c].at \in {"asking", "retrying"} => read[c].feed \in Feed

LEMMA CooldownInit == FeedInit => CooldownOK
BY DEF FeedInit, CooldownOK, Free

(* Another host's cooldown survives, or made room; a host's own is not      *)
(* shortened.                                                              *)
LEMMA LimitedKeeps ==
  ASSUME CooldownOK, NEW c \in Client, Limited(c), NEW h \in Hosts, Cooling(h)
  PROVE  \/ until'[h] >= until[h]
         \/ /\ Cardinality({x \in Hosts : Cooling(x)}) >= MaxHosts
            /\ read[c].at = "limited" /\ read'[c].at = "free"
            /\ ~Cooling(HostOf[read[c].feed])
<1> DEFINE host == HostOf[read[c].feed]
           active == {x \in Hosts : Cooling(x)}
           oldest == CHOOSE x \in active : \A y \in active :
                       until[x] < until[y] \/ (until[x] = until[y] /\ x <= y)
           full == host \notin active /\ Cardinality(active) >= MaxHosts
           kept == IF full THEN active \ {oldest} ELSE active
           end == time + read[c].answer
<1>1. host \in Hosts /\ end \in Nat /\ until[h] \in Nat /\ h \in active
  <2>1. read[c].at = "limited"
    BY Zenon DEF Limited
  <2>2. read[c].feed \in Feed /\ read[c].answer \in Nat
    BY <2>1, FeedAssumption DEF CooldownOK
  <2>3. host \in Hosts
    BY <2>2 DEF Hosts
  <2>4. time \in Nat /\ until[h] \in Nat
    BY DEF CooldownOK
  <2>5. h \in active
    OBVIOUS
  <2> QED BY <2>2, <2>3, <2>4, <2>5
<1>2. /\ read[c].at = "limited" /\ read'[c].at = "free"
      /\ until' = [x \in Hosts |->
           IF x = host /\ end > (IF x \in kept THEN until[x] ELSE 0) THEN end
           ELSE IF x \in kept THEN until[x] ELSE 0]
  <2>1. read[c].at = "limited" /\ read'[c].at = "free"
    BY DEF Limited, Done, Free, CooldownOK
  <2> QED BY <2>1, Zenon DEF Limited
<1>3. CASE full
  <2>1. host \notin active /\ Cardinality(active) >= MaxHosts
    BY <1>3
  <2>2. ~Cooling(host)
    BY <1>1, <2>1
  <2> QED BY <1>2, <2>1, <2>2
<1>4. CASE ~full
  <2>1. kept = active
    BY <1>4
  <2> HIDE DEF kept, active, end, host
  <2> QED BY <1>1, <1>2, <2>1
<1> QED BY <1>3, <1>4

LEMMA CooldownStep == CooldownOK /\ [FeedNext]_feedVars => CooldownOK'
<1> SUFFICES ASSUME CooldownOK, [FeedNext]_feedVars PROVE CooldownOK'
  OBVIOUS
<1> USE DEF CooldownOK
<1>1. ASSUME NEW c \in Client, NEW f \in Feed, Ask(c, f) PROVE CooldownOK'
  BY <1>1 DEF Ask
<1>2. ASSUME NEW c \in Client, Answer(c) PROVE CooldownOK'
  <2> DEFINE Now(place, v) == read' = [read EXCEPT ![c].at = place, ![c].answer = v]
  <2>1. UNCHANGED <<until, time>> /\ read[c].feed \in Feed
    BY <1>2 DEF Answer
  <2>2. CASE \E v : Now("answered", v)
    BY <2>1, <2>2
  <2>3. CASE \E d \in Delays : Now("limited", d)
    BY <2>1, <2>3
  <2>4. CASE Now("retrying", Missing)
    BY <2>1, <2>4
  <2>5. CASE Done(c)
    BY <2>1, <2>5 DEF Done, Free
  <2> HIDE DEF Now
  <2>6. \/ \E v : Now("answered", v)
        \/ \E d \in Delays : Now("limited", d)
        \/ Now("retrying", Missing) \/ Done(c)
    BY <1>2, Zenon DEF Answer, To, Now
  <2> QED BY <2>2, <2>3, <2>4, <2>5, <2>6
<1>3. ASSUME NEW c \in Client, Limited(c) PROVE CooldownOK'
  <2>3. read[c].at = "limited"
    BY <1>3, Zenon DEF Limited
  <2>1. time + read[c].answer \in Nat
    <3>1. read[c].answer \in Nat
      BY <2>3, FeedAssumption
    <3> QED BY <3>1
  <2>2. until' \in [Hosts -> Nat]
    BY <1>3, <2>1 DEF Limited
  <2> QED BY <1>3, <2>2 DEF Limited, Done, Free
<1>4. ASSUME NEW c \in Client, Receive(c) PROVE CooldownOK'
  BY <1>4 DEF Receive, Done, Free
<1>5. ASSUME NEW f \in Feed, Edit(f) PROVE CooldownOK'
  BY <1>5 DEF Edit
<1>6. CASE Pass
  BY <1>6 DEF Pass
<1>7. CASE UNCHANGED feedVars
  BY <1>7 DEF feedVars
<1> QED BY <1>1, <1>2, <1>3, <1>4, <1>5, <1>6, <1>7 DEF FeedNext

(* A cooldown under way is never shortened, and dropped only for another    *)
(* host's when as many are under way as are remembered.                    *)
THEOREM CooldownsKept == FeedSpec => CooldownKept
<1>1. CooldownOK /\ [FeedNext]_feedVars
      => [\A h \in Hosts : Cooling(h) =>
            \/ until'[h] >= until[h]
            \/ /\ Cardinality({x \in Hosts : Cooling(x)}) >= MaxHosts
               /\ \E c \in Client : /\ read[c].at = "limited" /\ read'[c].at = "free"
                                  /\ ~Cooling(HostOf[read[c].feed])]_feedVars
  <2> SUFFICES ASSUME CooldownOK, FeedNext, NEW h \in Hosts, Cooling(h)
               PROVE  \/ until'[h] >= until[h]
                      \/ /\ Cardinality({x \in Hosts : Cooling(x)}) >= MaxHosts
                         /\ \E c \in Client : /\ read[c].at = "limited" /\ read'[c].at = "free"
                                              /\ ~Cooling(HostOf[read[c].feed])
    BY DEF feedVars
  <2>1. CASE UNCHANGED until
    BY <2>1 DEF CooldownOK
  <2>2. ASSUME NEW c \in Client, Limited(c)
        PROVE  \/ until'[h] >= until[h]
               \/ /\ Cardinality({x \in Hosts : Cooling(x)}) >= MaxHosts
                  /\ \E x \in Client : /\ read[x].at = "limited" /\ read'[x].at = "free"
                                       /\ ~Cooling(HostOf[read[x].feed])
    BY <2>2, LimitedKeeps
  <2> QED BY <2>1, <2>2 DEF FeedNext, Ask, Answer, Receive, Edit, Pass
<1> QED BY <1>1, CooldownInit, CooldownStep, PTL DEF FeedSpec, CooldownKept

-----------------------------------------------------------------------------
(* Migration.                                                              *)

(* The flags are kept apart from the other variables, and from the count of *)
(* events, because the provers differ in what they are good at.            *)

FlagsOK ==
  /\ stopping \in BOOLEAN /\ paused \in BOOLEAN /\ moved \in BOOLEAN
  /\ ours \in BOOLEAN /\ excused \in BOOLEAN /\ meddled \in BOOLEAN

DataOK ==
  /\ media \in Media
  /\ at \in [File -> Place]
  /\ object \in [File -> Object]
  /\ done \subseteq File
  /\ state \in {"running", "paused"}
  /\ goal \in Place /\ saved \in Place
  /\ link \in [File -> Object \cup {"none"}]
  /\ declared \in {"none", "entry", "projected"}
  /\ pc \in PCs
  /\ decision \in {"adopt", "relocate"}
  /\ before \subseteq File \X Object
  /\ found \subseteq File
  /\ outcome \in {"none", "ok", "failed"}

LEMMA Types == TypeOK <=> DataOK /\ FlagsOK /\ events \in 0..MaxEvents
BY Zenon DEF TypeOK, DataOK, FlagsOK

LEMMA InitInv == Init => IInv
<1> SUFFICES ASSUME Init PROVE IInv
  OBVIOUS
<1>1. DataOK
  BY DEF Init, DataOK, PCs, Place, Object
<1>2. FlagsOK
  BY Zenon DEF Init, FlagsOK
<1>3. events \in 0..MaxEvents
  BY MigrationAssumption DEF Init
<1>4. ~ ours /\ ~ paused /\ pc = "idle" /\ saved = "old"
  BY Zenon DEF Init
<1>5. PauseKnown /\ MovedWhenTold /\ MovedOnceSeen /\ MovedKept
  BY <1>4 DEF PauseKnown, MovedWhenTold, MovedOnceSeen, MovedKept
<1> QED
  BY <1>1, <1>2, <1>3, <1>5, Types DEF IInv

-----------------------------------------------------------------------------
(* Types.                                                                  *)

LEMMA Counting ==
  ASSUME NEW n \in 0..MaxEvents, n < MaxEvents PROVE n + 1 \in 0..MaxEvents
BY MigrationAssumption

LEMMA MishapCounts == events \in 0..MaxEvents /\ Mishap => events' \in 0..MaxEvents
BY Counting DEF Mishap

LEMMA EventsStep ==
  events \in 0..MaxEvents /\ [Next]_vars => events' \in 0..MaxEvents
<1> SUFFICES ASSUME [Next]_vars PROVE UNCHANGED events \/ Mishap
  BY MishapCounts
<1>1. CASE Apply
  BY <1>1, Zenon DEF Apply, Start, Pause, WaitPaused, Relocate, Recheck, WaitMoved, Reobserve,
       Organize, Declare, Project, Restart, Resume, FailsUnless
<1>2. CASE Plan \/ Crash \/ Meddle
  BY <1>2, Zenon DEF Plan, Crash, Meddle
<1>3. CASE Downloader \/ (\E f \in File : Complete(f))
  BY <1>3, Zenon DEF Downloader, ShowPaused, ShowMoved, Move, Complete
<1>4. CASE UNCHANGED vars
  BY <1>4, Zenon DEF vars
<1> QED
  BY <1>1, <1>2, <1>3, <1>4 DEF Next

LEMMA FlagsStep == FlagsOK /\ [Next]_vars => FlagsOK'
<1> SUFFICES ASSUME FlagsOK, [Next]_vars PROVE FlagsOK'
  OBVIOUS
<1> USE DEF FlagsOK, worldVars, planVars, histVars
<1>1. CASE Plan
  BY <1>1, Zenon DEF Plan
<1>2. CASE Start
  BY <1>2, Zenon DEF Start, FailsUnless
<1>3. CASE Pause
  BY <1>3, Zenon DEF Pause, Accept
<1>4. CASE WaitPaused
  BY <1>4, Zenon DEF WaitPaused
<1>5. CASE Relocate
  BY <1>5, Zenon DEF Relocate
<1>6. CASE Recheck
  BY <1>6, Zenon DEF Recheck, FailsUnless
<1>7. CASE WaitMoved
  BY <1>7, Zenon DEF WaitMoved
<1>8. CASE Reobserve
  BY <1>8, Zenon DEF Reobserve, FailsUnless
<1>9. CASE Organize
  BY <1>9, Zenon DEF Organize
<1>10. CASE Declare
  BY <1>10, Zenon DEF Declare
<1>11. CASE Project
  BY <1>11, Zenon DEF Project
<1>12. CASE Restart
  BY <1>12, Zenon DEF Restart, Resumed
<1>13. CASE Resume
  BY <1>13, Zenon DEF Resume, Resumed
<1>14. CASE Crash
  BY <1>14, Zenon DEF Crash
<1>15. CASE Meddle
  BY <1>15, Zenon DEF Meddle, Resumed, progVars
<1>16. CASE Downloader \/ (\E f \in File : Complete(f))
  BY <1>16, Zenon DEF Downloader, ShowPaused, ShowMoved, Move, Complete, progVars
<1>17. CASE UNCHANGED vars
  BY <1>17, Zenon DEF vars
<1> QED
  BY <1>1, <1>2, <1>3, <1>4, <1>5, <1>6, <1>7, <1>8, <1>9, <1>10, <1>11, <1>12, <1>13, <1>14, <1>15, <1>16, <1>17 DEF Next, Apply

LEMMA DataStep == DataOK /\ [Next]_vars => DataOK'
<1> SUFFICES ASSUME DataOK, [Next]_vars PROVE DataOK'
  OBVIOUS
<1> USE DEF DataOK, PCs, worldVars, keptVars, planVars, Go, Fail
<1>1. CASE Plan
  BY <1>1 DEF Plan
<1>2. CASE Start
  <2>1. {<<f, object[f]>> : f \in Present} \subseteq File \X Object
    <3>1. \A f \in Present : <<f, object[f]>> \in File \X Object
      BY DEF Present
    <3> QED
      BY <3>1
  <2>2. pc' \in PCs /\ outcome' \in {"none", "ok", "failed"}
    BY <1>2 DEF Start, FailsUnless
  <2>3. before' \subseteq File \X Object
    BY <1>2, <2>1, Zenon DEF Start
  <2> QED
    BY <1>2, <2>2, <2>3 DEF Start
<1>3. CASE Pause
  BY <1>3 DEF Pause
<1>4. CASE WaitPaused
  BY <1>4 DEF WaitPaused
<1>5. CASE Relocate
  BY <1>5 DEF Relocate, Place
<1>6. CASE Recheck
  BY <1>6 DEF Recheck, FailsUnless
<1>7. CASE WaitMoved
  BY <1>7 DEF WaitMoved
<1>8. CASE Reobserve
  BY <1>8 DEF Reobserve, FailsUnless, Present
<1>9. CASE Organize
  <2>1. link' \in [File -> Object \cup {"none"}]
    BY <1>9 DEF Organize
  <2>2. pc' \in PCs /\ outcome' \in {"none", "ok", "failed"}
    BY <1>9 DEF Organize
  <2> QED
    BY <1>9, <2>1, <2>2 DEF Organize
<1>10. CASE Declare
  BY <1>10 DEF Declare, Finish
<1>11. CASE Project
  BY <1>11 DEF Project, Said, Finish
<1>12. CASE Restart
  BY <1>12 DEF Restart, Resumed
<1>13. CASE Resume
  BY <1>13 DEF Resume, Resumed
<1>14. CASE Crash
  BY <1>14 DEF Crash
<1>15. CASE Meddle
  BY <1>15 DEF Meddle, Resumed, progVars
<1>16. CASE ShowPaused \/ ShowMoved
  BY <1>16 DEF ShowPaused, ShowMoved, progVars
<1>17. ASSUME NEW f \in File, Move(f) PROVE DataOK'
  <2>1. at' \in [File -> Place] /\ object' \in [File -> Object]
    BY <1>17 DEF Move, Object
  <2> QED
    BY <1>17, <2>1 DEF Move, progVars
<1>18. ASSUME NEW f \in File, Complete(f) PROVE DataOK'
  BY <1>18 DEF Complete, progVars
<1>19. CASE UNCHANGED vars
  BY <1>19 DEF vars
<1> QED
  BY <1>1, <1>2, <1>3, <1>4, <1>5, <1>6, <1>7, <1>8, <1>9, <1>10, <1>11, <1>12, <1>13, <1>14, <1>15, <1>16, <1>17, <1>18, <1>19 DEF Next, Apply, Downloader

LEMMA TypeStep == TypeOK /\ [Next]_vars => TypeOK'
<1> SUFFICES ASSUME TypeOK, [Next]_vars PROVE DataOK' /\ FlagsOK' /\ events' \in 0..MaxEvents
  BY Zenon DEF TypeOK, DataOK, FlagsOK
<1> QED
  BY Types, DataStep, FlagsStep, EventsStep
-----------------------------------------------------------------------------
(* The invariant.                                                          *)

LEMMA KnownStep == FlagsOK /\ PauseKnown /\ [Next]_vars => PauseKnown'
<1> SUFFICES ASSUME FlagsOK, PauseKnown, [Next]_vars PROVE PauseKnown'
  OBVIOUS
<1> USE DEF PauseKnown, FlagsOK, histVars, Go, Fail
<1>1. CASE Plan
  BY <1>1 DEF Plan
<1>2. CASE Start
  BY <1>2 DEF Start, FailsUnless
<1>3. CASE Pause
  <2>1. CASE Accept /\ excused' = FALSE /\ paused' = TRUE /\ Go("wait paused")
    BY <2>1
  <2>2. CASE Fail /\ UNCHANGED <<ours, excused, paused>>
    BY <1>3, <2>2 DEF Pause
  <2>3. CASE Fail /\ Accept /\ excused' = ours' /\ UNCHANGED paused
    BY <1>3, <2>3 DEF Pause, Accept
  <2> QED
    BY <1>3, <2>1, <2>2, <2>3, Zenon DEF Pause
<1>4. CASE WaitPaused
  BY <1>4 DEF WaitPaused
<1>5. CASE Relocate
  BY <1>5 DEF Relocate
<1>6. CASE Recheck
  BY <1>6 DEF Recheck, FailsUnless
<1>7. CASE WaitMoved
  BY <1>7 DEF WaitMoved
<1>8. CASE Reobserve
  BY <1>8 DEF Reobserve, FailsUnless
<1>9. CASE Organize
  BY <1>9 DEF Organize
<1>10. CASE Declare
  BY <1>10 DEF Declare, Finish
<1>11. CASE Project
  BY <1>11 DEF Project, Said, Finish
<1>12. CASE Restart
  BY <1>12 DEF Restart, Resumed
<1>13. CASE Resume
  BY <1>13 DEF Resume, Resumed
<1>14. CASE Crash
  BY <1>14 DEF Crash
<1>15. CASE Meddle
  <2>1. UNCHANGED <<pc, paused>>
    BY <1>15, Zenon DEF Meddle, progVars
  <2>2. ours' = FALSE \/ UNCHANGED <<ours, excused>>
    BY <1>15, Zenon DEF Meddle, Resumed
  <2>3. CASE ours' = FALSE
    BY <2>1, <2>3, Zenon
  <2>4. CASE UNCHANGED <<ours, excused>>
    BY <2>1, <2>4, Zenon
  <2> QED
    BY <2>2, <2>3, <2>4
<1>16. CASE Downloader \/ (\E f \in File : Complete(f))
  <2>1. UNCHANGED <<ours, excused, pc, paused>>
    BY <1>16, Zenon DEF Downloader, ShowPaused, ShowMoved, Move, Complete, progVars
  <2> QED
    BY <2>1
<1>17. CASE UNCHANGED vars
  BY <1>17 DEF vars
<1> QED
  BY <1>1, <1>2, <1>3, <1>4, <1>5, <1>6, <1>7, <1>8, <1>9, <1>10, <1>11, <1>12, <1>13, <1>14, <1>15, <1>16, <1>17 DEF Next, Apply

\* The downloader goes one way only.
LEMMA ToldStep == MovedWhenTold /\ [Next]_vars => MovedWhenTold' /\ (saved = "new" => saved' = "new")
BY DEF MovedWhenTold, Next, Plan, Apply, Start, Pause, WaitPaused, Relocate, Recheck, WaitMoved,
       Reobserve, Organize, Declare, Project, Restart, Resume, Crash, Downloader, ShowPaused,
       ShowMoved, Move, Complete, Meddle, worldVars, vars

Accepted == pc \in {"organize", "declare", "project", "restart"}

\* Only Reobserve accepts what was found.
LEMMA AcceptStep ==
  [Next]_vars /\ Accepted' =>
    \/ Accepted /\ UNCHANGED <<moved, before>>
    \/ Reobserve /\ Acceptable /\ UNCHANGED <<moved, before, at, object>>
<1> SUFFICES ASSUME [Next]_vars, Accepted'
      PROVE  \/ Accepted /\ UNCHANGED <<moved, before>>
             \/ Reobserve /\ Acceptable /\ UNCHANGED <<moved, before, at, object>>
  OBVIOUS
<1> USE DEF Accepted, Go, Fail, planVars, progVars, worldVars
<1>1. CASE Plan
  BY <1>1 DEF Plan
<1>2. CASE Start
  BY <1>2 DEF Start, FailsUnless
<1>3. CASE Pause
  BY <1>3 DEF Pause
<1>4. CASE WaitPaused
  BY <1>4 DEF WaitPaused
<1>5. CASE Relocate
  BY <1>5 DEF Relocate
<1>6. CASE Recheck
  BY <1>6 DEF Recheck, FailsUnless
<1>7. CASE WaitMoved
  BY <1>7 DEF WaitMoved
<1>8. CASE Reobserve
  BY <1>8 DEF Reobserve, FailsUnless, Present
<1>9. CASE Organize
  BY <1>9 DEF Organize
<1>10. CASE Declare
  BY <1>10 DEF Declare, Finish
<1>11. CASE Project
  BY <1>11 DEF Project, Said, Finish
<1>12. CASE Restart
  BY <1>12 DEF Restart, Resumed
<1>13. CASE Resume
  BY <1>13 DEF Resume, Resumed
<1>14. CASE Crash
  BY <1>14 DEF Crash
<1>15. CASE Meddle
  BY <1>15 DEF Meddle, Resumed, progVars
<1>16. CASE Downloader \/ (\E f \in File : Complete(f))
  BY <1>16 DEF Downloader, ShowPaused, ShowMoved, Move, Complete
<1>17. CASE UNCHANGED vars
  BY <1>17 DEF vars
<1> QED
  BY <1>1, <1>2, <1>3, <1>4, <1>5, <1>6, <1>7, <1>8, <1>9, <1>10, <1>11, <1>12, <1>13, <1>14, <1>15, <1>16, <1>17 DEF Next, Apply

\* A file at the new place stays there, and stays the object it is.
LEMMA ArrivedStep ==
  ASSUME goal = "new", [Next]_vars, NEW f \in File, at[f] = "new", DataOK
  PROVE  at'[f] = "new" /\ object'[f] = object[f]
<1>1. CASE \E g \in File : Move(g)
  BY <1>1 DEF Move, DataOK
<1>2. CASE UNCHANGED <<at, object>>
  BY <1>2
<1>3. CASE ~ \E g \in File : Move(g)
  <2>1. UNCHANGED <<at, object>>
    BY <1>3 DEF Next, Plan, Apply, Start, Pause, WaitPaused, Relocate, Recheck, WaitMoved,
         Reobserve, Organize, Declare, Project, Restart, Resume, Crash, Downloader, ShowPaused,
         ShowMoved, Complete, Meddle, worldVars, vars
  <2> QED
    BY <2>1
<1> QED
  BY <1>1, <1>3

LEMMA KeptStep == IInv /\ [Next]_vars => MovedOnceSeen' /\ MovedKept'
<1> SUFFICES ASSUME IInv, [Next]_vars, Accepted'
      PROVE  saved' = "new" /\ (moved' => \A p \in before' : at'[p[1]] = "new" /\ object'[p[1]] = p[2])
  BY DEF MovedOnceSeen, MovedKept, Accepted
<1>0. DataOK /\ MovedWhenTold
  BY Types DEF IInv
<1>1. CASE Accepted /\ UNCHANGED <<moved, before>>
  <2>1. saved = "new" /\ goal = "new"
    BY <1>0, <1>1 DEF IInv, MovedOnceSeen, MovedWhenTold, Accepted
  <2>2. saved' = "new"
    BY <1>0, <2>1, ToldStep
  <2>3. ASSUME moved', NEW p \in before'
        PROVE  at'[p[1]] = "new" /\ object'[p[1]] = p[2]
    <3>1. p \in before /\ p[1] \in File
      BY <1>0, <1>1 DEF DataOK
    <3>2. at[p[1]] = "new" /\ object[p[1]] = p[2]
      BY <1>1, <2>3, <3>1 DEF IInv, MovedKept, Accepted
    <3> QED
      BY <1>0, <2>1, <3>1, <3>2, ArrivedStep
  <2> QED
    BY <2>2, <2>3
<1>2. CASE Reobserve /\ Acceptable /\ UNCHANGED <<moved, before, at, object>>
  <2>1. saved' = "new"
    BY <1>0, <1>2, ToldStep DEF Acceptable
  <2>2. ASSUME moved', NEW p \in before'
        PROVE  at'[p[1]] = "new" /\ object'[p[1]] = p[2]
    <3>1. p \in {<<f, object[f]>> : f \in Present}
      BY <1>2, <2>2 DEF Acceptable, SameObjects
    <3>2. PICK f \in Present : p = <<f, object[f]>>
      BY <3>1
    <3>3. at[f] = "new"
      BY <1>2 DEF Present, Acceptable
    <3> QED
      BY <1>2, <3>2, <3>3
  <2> QED
    BY <2>1, <2>2
<1> QED
  BY <1>1, <1>2, AcceptStep

\* Every reachable state satisfies the inductive invariant (migration.go, Apply).
THEOREM Invariant == Spec => []IInv
<1>1. IInv /\ [Next]_vars => IInv'
  BY TypeStep, KnownStep, ToldStep, KeptStep, Types DEF IInv
<1> QED
  BY <1>1, InitInv, PTL DEF Spec

-----------------------------------------------------------------------------

\* Between attempts a task that one of them paused is not left so but by a lost
\* reply, a failed call to resume, or a crash (migration.go, Apply's deferred resume).
THEOREM Resuming == Spec => []ResumesWhatItPaused
<1>1. IInv => ResumesWhatItPaused
  BY DEF IInv, PauseKnown, ResumesWhatItPaused
<1> QED
  BY <1>1, Invariant, PTL

\* However the downloader moves files, what is declared and reported after a move
\* are the objects that were there before (migration.go, sameObjectSet).
THEOREM AcceptingSameObjects == Spec => AcceptsOnlySameObjects
<1>1. ASSUME IInv, [Next]_vars, declared' # declared \/ (outcome' = "ok" /\ outcome # "ok"), moved
      PROVE  \A p \in before : at[p[1]] = "new" /\ object[p[1]] = p[2]
  <2>1. Accepted
    BY <1>1 DEF Accepted, Next, Plan, Apply, Start, Pause, WaitPaused, Relocate, Recheck, WaitMoved,
         Reobserve, Organize, Declare, Project, Restart, Resume, Crash, Downloader, ShowPaused,
         ShowMoved, Move, Complete, Meddle, Go, Fail, FailsUnless, progVars, keptVars, vars
  <2> QED
    BY <1>1, <2>1 DEF IInv, MovedKept, Accepted
<1>2. IInv /\ [Next]_vars
      => [ /\ declared' # declared \/ (outcome' = "ok" /\ outcome # "ok")
           /\ moved
           => \A p \in before : at[p[1]] = "new" /\ object[p[1]] = p[2] ]_vars
  BY <1>1
<1> QED
  BY <1>2, Invariant, PTL DEF Spec, AcceptsOnlySameObjects
=============================================================================
