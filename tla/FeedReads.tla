------------------------------ MODULE FeedReads -----------------------------
(***************************************************************************)
(* Reading feeds through the application fetcher of internal/rss: one      *)
(* cooldown per host after a 429 answer, one bounded retry of a gateway    *)
(* error, and a cache of the last parsed representation of a feed, used    *)
(* when the origin answers 304 to its validators.                          *)
(***************************************************************************)
EXTENDS Integers, FiniteSets

CONSTANTS
  Feed, HostOf, Client,   \* feeds, their hosts (natural numbers), readers
  Missing, NotModified,   \* no validators, no answer; the answer 304
  MaxFeeds, MaxHosts,     \* feedCacheEntries; cooldowns remembered
  Delays,                 \* waits a 429 answer may ask for
  MaxVersion, MaxTime     \* bounds on the changes of a feed and on the clock

ASSUME FeedAssumption ==
  /\ \A f \in Feed : HostOf[f] \in Nat
  /\ MaxFeeds \in Nat \ {0} /\ MaxHosts \in Nat \ {0} /\ Delays \subseteq Nat
  /\ MaxVersion \in Nat /\ MaxTime \in Nat

VARIABLES
  origin,      \* the version a feed has at its origin
  cache,       \* the version the cache holds of a feed, with its validators
  until,       \* end of the cooldown of a host, 0 when there is none
  read,        \* what a client does: [at, feed, tag, answer]
  time

feedVars == <<origin, cache, until, read, time>>

Hosts == {HostOf[f] : f \in Feed}
Free == [at |-> "free", feed |-> Missing, tag |-> Missing, answer |-> Missing]
Cooling(h) == time < until[h]

To(c, a, v) == read' = [read EXCEPT ![c].at = a, ![c].answer = v]
Done(c) == read' = [read EXCEPT ![c] = Free]

(* The validators are taken from the cache, then the cooldown is consulted. *)
Ask(c, f) ==
  /\ read[c].at = "free" /\ ~Cooling(HostOf[f])
  /\ read' = [read EXCEPT ![c] = [at |-> "asking", feed |-> f, tag |-> cache[f], answer |-> Missing]]
  /\ UNCHANGED <<origin, cache, until, time>>

(* The origin answers.  A gateway error is retried once, without another   *)
(* look at the cooldown.                                                   *)
Answer(c) ==
  LET r == read[c] IN
  /\ r.at \in {"asking", "retrying"}
  /\ \/ To(c, "answered", IF r.tag = origin[r.feed] THEN NotModified ELSE origin[r.feed])
     \/ \E d \in Delays : To(c, "limited", d)
     \/ r.at = "asking" /\ To(c, "retrying", Missing)
     \/ Done(c)
  /\ UNCHANGED <<origin, cache, until, time>>

(* Mutant: the last answer sets the cooldown, also a shorter one. *)
LimitedAnew(c) ==
  /\ read[c].at = "limited"
  /\ until' = [until EXCEPT ![HostOf[read[c].feed]] = time + read[c].answer]
  /\ Done(c)
  /\ UNCHANGED <<origin, cache, time>>

(* A new cooldown drops those that are over; at the limit, the one that     *)
(* would end first; it never shortens the one there is.                    *)
Limited(c) ==
  LET h == HostOf[read[c].feed]
      active == {x \in Hosts : Cooling(x)}
      oldest == CHOOSE x \in active : \A y \in active :
                  until[x] < until[y] \/ (until[x] = until[y] /\ x <= y)
      kept == IF h \notin active /\ Cardinality(active) >= MaxHosts
              THEN active \ {oldest} ELSE active
      end == time + read[c].answer
  IN
  /\ read[c].at = "limited"
  /\ until' = [x \in Hosts |->
       IF x = h /\ end > (IF x \in kept THEN until[x] ELSE 0) THEN end
       ELSE IF x \in kept THEN until[x] ELSE 0]
  /\ Done(c)
  /\ UNCHANGED <<origin, cache, time>>

(* A 304 uses the cache as it is now.  An answer that does not parse or has  *)
(* no validators is not cached; a full cache is emptied first.             *)
Receive(c) ==
  LET f == read[c].feed
      full == Cardinality({x \in Feed : cache[x] # Missing}) >= MaxFeeds
      value == read[c].answer
  IN
  /\ read[c].at = "answered"
  /\ \/ UNCHANGED cache
     \/ /\ value # NotModified
        /\ cache' = [x \in Feed |-> IF x = f THEN value ELSE IF full THEN Missing ELSE cache[x]]
  /\ Done(c)
  /\ UNCHANGED <<origin, until, time>>

Edit(f) == /\ origin[f] < MaxVersion /\ origin' = [origin EXCEPT ![f] = @ + 1]
           /\ UNCHANGED <<cache, until, read, time>>
Pass == /\ time < MaxTime /\ time' = time + 1
        /\ UNCHANGED <<origin, cache, until, read>>

FeedInit ==
  /\ origin = [f \in Feed |-> 1] /\ cache = [f \in Feed |-> Missing]
  /\ until = [h \in Hosts |-> 0] /\ time = 0
  /\ read = [c \in Client |-> Free]

FeedNext ==
  \/ \E c \in Client : Answer(c) \/ Limited(c) \/ Receive(c) \/ \E f \in Feed : Ask(c, f)
  \/ \E f \in Feed : Edit(f)
  \/ Pass

-----------------------------------------------------------------------------
(* A cooldown under way is never shortened, by whichever read was limited  *)
(* next, and only dropped when the table is full, for another host that    *)
(* was told to wait (were it for no time at all).                          *)
CooldownKept ==
  [][\A h \in Hosts : Cooling(h) =>
       \/ until'[h] >= until[h]
       \/ /\ Cardinality({x \in Hosts : Cooling(x)}) >= MaxHosts
          /\ \E c \in Client : /\ read[c].at = "limited" /\ read'[c].at = "free"
                             /\ ~Cooling(HostOf[read[c].feed])]_feedVars
=============================================================================
