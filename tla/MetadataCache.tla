--------------------------- MODULE MetadataCache ----------------------------
(***************************************************************************)
(* The disposable torrent metadata cache of internal/rss: bounded in       *)
(* entries and bytes, expiring, indexed by URL and by computed info hash,  *)
(* filled by at most one request per URL that the other readers wait for.  *)
(* The mutex makes each section of FetchTorrentMetadata one step; the      *)
(* network read happens between two of them.                               *)
(***************************************************************************)
EXTENDS Integers, FiniteSets, FiniteSetsExt

CONSTANTS
  Url,            \* natural numbers, which is also the order of eviction ties
  Hash, Reader,
  Nothing,        \* no entry, no hash, no URL
  Served,         \* the metadata the origin may serve for a URL: [hash, size]
  MaxEntries, MaxBytes,
  TTL, MaxNow     \* lifetime of an entry; bound on the clock

ASSUME MetadataAssumption ==
  /\ Url \subseteq Nat
  /\ \A u \in Url : \A m \in Served[u] :
       m.hash \in Hash \cup {Nothing} /\ m.size \in Nat \ {0}
  /\ MaxEntries \in Nat \ {0} /\ MaxBytes \in Nat /\ TTL \in Nat \ {0} /\ MaxNow \in Nat
  /\ Nothing \notin Url \cup Hash
  /\ Nothing \notin [hash : Hash \cup {Nothing}, size : Nat, expires : Nat]

VARIABLES
  entries,        \* [hash, size, expires] of a cached URL, or Nothing
  byHash,         \* the URL a hash was last cached under, or Nothing
  bytes,          \* size of all entries, kept as a counter
  flights,        \* URLs being read for everyone
  reader,         \* what every reader does: [at, url]
  cancelled,      \* readers whose context is over
  now

metaVars == <<entries, byHash, bytes, flights, reader, cancelled, now>>

Idle == [at |-> "idle", url |-> Nothing]

Cached(E) == {u \in Url : E[u] # Nothing}
Live(u) == entries[u] # Nothing /\ now < entries[u].expires
Dead(u) == entries[u] # Nothing /\ now >= entries[u].expires

(* remove, for a set of keys: the hash index forgets a key only where it   *)
(* still points at it.                                                     *)
Without(E, K) == [u \in Url |-> IF u \in K THEN Nothing ELSE E[u]]
IndexWithout(I, E, K) ==
  [h \in Hash |-> IF \E u \in K : E[u] # Nothing /\ E[u].hash = h /\ I[h] = u
                  THEN Nothing ELSE I[h]]
Weight(E, K) == MapThenSumSet(LAMBDA u : E[u].size, K)

(* Mutant: the hash index keeps what is removed. *)
ForgetKeepingIndex(K) == /\ entries' = Without(entries, K)
                         /\ bytes' = bytes - Weight(entries, K \cap Cached(entries))
                         /\ UNCHANGED byHash

Forget(K) == /\ entries' = Without(entries, K)
             /\ byHash' = IndexWithout(byHash, entries, K)
             /\ bytes' = bytes - Weight(entries, K \cap Cached(entries))

(* The oldest entries go first, ties by URL, and no more than it takes.     *)
Older(E, u, v) == E[u].expires < E[v].expires \/ (E[u].expires = E[v].expires /\ u < v)
Fits(E, b, K, size) ==
  Cardinality(Cached(E) \ K) < MaxEntries /\ b - Weight(E, K) + size <= MaxBytes
Evicted(E, b, size) ==
  CHOOSE K \in SUBSET Cached(E) :
    /\ Fits(E, b, K, size)
    /\ \A u \in K, v \in Cached(E) : Older(E, v, u) => v \in K
    /\ \A u \in K : ~Fits(E, b, {v \in K : Older(E, v, u)}, size)

(* put: an entry of its own that is too big is not cached at all. *)
Store(u, m) ==
  LET before == Without(entries, {u})
      index == IndexWithout(byHash, entries, {u})
      b == bytes - Weight(entries, {u} \cap Cached(entries))
      out == Evicted(before, b, m.size)
      kept == IndexWithout(index, before, out)
  IN
  IF m.size > MaxBytes
  THEN UNCHANGED <<entries, byHash, bytes>>
  ELSE /\ entries' = [Without(before, out) EXCEPT ![u] = [hash |-> m.hash, size |-> m.size, expires |-> now + TTL]]
       /\ byHash' = IF m.hash = Nothing THEN kept ELSE [kept EXCEPT ![m.hash] = u]
       /\ bytes' = b - Weight(before, out) + m.size

-----------------------------------------------------------------------------
(* FetchTorrentMetadata *)

(* Mutant: no reader joins a flight. *)
FetchAlone(r, u) ==
  /\ reader[r].at = "idle" /\ ~Live(u)
  /\ IF Dead(u) THEN Forget({u}) ELSE UNCHANGED <<entries, byHash, bytes>>
  /\ reader' = [reader EXCEPT ![r] = [at |-> "reading", url |-> u]]
  /\ flights' = flights \cup {u}
  /\ UNCHANGED <<cancelled, now>>

(* A live entry is returned at once and changes nothing.  Otherwise the     *)
(* caller joins the flight of this URL or starts one.                      *)
Fetch(r, u) ==
  /\ reader[r].at = "idle" /\ ~Live(u)
  /\ IF Dead(u) THEN Forget({u}) ELSE UNCHANGED <<entries, byHash, bytes>>
  /\ reader' = [reader EXCEPT ![r] = [at |-> IF u \in flights THEN "waiting" ELSE "reading", url |-> u]]
  /\ flights' = flights \cup {u}
  /\ UNCHANGED <<cancelled, now>>

(* Mutant: an owner that was cancelled leaves without telling the others. *)
LandAlone(r) ==
  /\ reader[r].at = "reading"
  /\ flights' = flights \ {reader[r].url}
  /\ \/ \E m \in Served[reader[r].url] : Store(reader[r].url, m)
     \/ UNCHANGED <<entries, byHash, bytes>>
  /\ reader' = [reader EXCEPT ![r] = Idle]
  /\ cancelled' = cancelled \ {r}
  /\ UNCHANGED now

(* The network answered: metadata, or an error, the owner's cancellation   *)
(* included, unless the answer was there already.                          *)
(* Every reader waiting now shares the outcome and returns with the owner; *)
(* an error is not kept for later callers.                                 *)
Land(r) ==
  LET u == reader[r].url
      sharing == {x \in Reader : x = r \/ (reader[x].at = "waiting" /\ reader[x].url = u)}
  IN
  /\ reader[r].at = "reading"
  /\ flights' = flights \ {u}
  /\ \/ \E m \in Served[u] : Store(u, m)
     \/ UNCHANGED <<entries, byHash, bytes>>
  /\ reader' = [x \in Reader |-> IF x \in sharing THEN Idle ELSE reader[x]]
  /\ cancelled' = cancelled \ sharing
  /\ UNCHANGED now

(* A cancelled waiter returns and leaves the read alone. *)
Return(r) ==
  /\ reader[r].at = "waiting" /\ r \in cancelled
  /\ reader' = [reader EXCEPT ![r] = Idle]
  /\ cancelled' = cancelled \ {r}
  /\ UNCHANGED <<entries, byHash, bytes, flights, now>>

Cancel(r) == /\ reader[r].at # "idle" /\ r \notin cancelled
             /\ cancelled' = cancelled \cup {r}
             /\ UNCHANGED <<entries, byHash, bytes, flights, reader, now>>

(* CachedTorrentMetadataByHash: a dead entry is dropped on the way. *)
ByHash(h) ==
  /\ byHash[h] # Nothing /\ Dead(byHash[h])
  /\ Forget({byHash[h]})
  /\ UNCHANGED <<flights, reader, cancelled, now>>

Tick == now < MaxNow /\ now' = now + 1
        /\ UNCHANGED <<entries, byHash, bytes, flights, reader, cancelled>>

MetadataInit ==
  /\ entries = [u \in Url |-> Nothing] /\ byHash = [h \in Hash |-> Nothing]
  /\ bytes = 0 /\ flights = {} /\ cancelled = {} /\ now = 0
  /\ reader = [r \in Reader |-> Idle]

MetadataNext ==
  \/ \E r \in Reader : Land(r) \/ Return(r) \/ Cancel(r) \/ \E u \in Url : Fetch(r, u)
  \/ \E h \in Hash : ByHash(h)
  \/ Tick

(* The HTTP client gives up after 30 s, so every read ends; every goroutine *)
(* runs.                                                                   *)
MetadataFairness == \A r \in Reader : WF_metaVars(Land(r)) /\ WF_metaVars(Return(r))

-----------------------------------------------------------------------------
MetadataTypeOK ==
  /\ entries \in [Url -> {Nothing} \cup [hash : Hash \cup {Nothing}, size : Nat, expires : 0 .. MaxNow + TTL]]
  /\ byHash \in [Hash -> Url \cup {Nothing}] /\ bytes \in Nat
  /\ flights \subseteq Url /\ cancelled \subseteq Reader /\ now \in 0 .. MaxNow

(* The counter that bounds the cache is the size of what it holds, so       *)
(* eviction always finds room, and a hash leads to an entry of that very   *)
(* hash: metadata is never served under another torrent's identity.        *)
CacheSound ==
  /\ bytes = Weight(entries, Cached(entries)) /\ bytes <= MaxBytes
  /\ Cardinality(Cached(entries)) <= MaxEntries
  /\ \A h \in Hash : byHash[h] # Nothing =>
       entries[byHash[h]] # Nothing /\ entries[byHash[h]].hash = h

(* One request per URL at a time, and nobody waits for a request that does *)
(* not exist: the readers of a flight and its owner agree.                 *)
OneFlight ==
  /\ \A u \in Url : u \in flights <=>
       \E r \in Reader : reader[r].at = "reading" /\ reader[r].url = u
  /\ \A r, x \in Reader :
       reader[r].at = "reading" /\ reader[x].at = "reading" /\ reader[r].url = reader[x].url => r = x
  /\ \A r \in Reader : reader[r].at = "waiting" => reader[r].url \in flights

(* Every call returns, whatever happens to the owner of the request.       *)
ReadersReturn == \A r \in Reader : reader[r].at # "idle" ~> reader[r].at = "idle"
=============================================================================
