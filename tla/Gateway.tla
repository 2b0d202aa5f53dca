------------------------------- MODULE Gateway --------------------------------
(***************************************************************************)
(* The limits in front of the handlers (dp-api: ratelimit.rs and the       *)
(* SseStreamLimiter of rest.rs): token buckets by client key, with the     *)
(* eviction of idle buckets, and the cap on open auction streams by client *)
(* key, with the semaphores it creates and removes on demand.              *)
(*                                                                         *)
(* A bucket is one critical section per request.  The stream limiter is    *)
(* not: a handler takes its semaphore from the map under the lock and a    *)
(* permit after it, and a closing stream returns the permit before it      *)
(* looks at the map.                                                       *)
(*                                                                         *)
(* Tokens are counted in units: Cost units are one token, Rate units come  *)
(* in per tick.  Time is relative: a bucket has an age since its last      *)
(* fill, which saturates once eviction may take it.                        *)
(***************************************************************************)
EXTENDS Integers, Sequences, FiniteSetsExt

CONSTANTS
    Principals,     \* whom requests are made by: wallets, api keys, addresses
    Requests,       \* [by, wallet, key, client, hops, forged, real_ip, route]
    Trusted,        \* addresses of the configured proxies
    Capacity, Rate, Cost, StaleAfter,
    Tasks,          \* stream requests that may be in progress or open
    max_per_key     \* auction streams a client key may have open

(* Whom a request is made by: the wallet or api key it presents, where the *)
(* route looks at them, and else the address it was sent from.             *)
MadeBy(r) ==
    CASE r.route = "auth" -> r.client
      [] r.route # "auth" /\ r.wallet # "none" -> r.wallet
      [] r.route # "auth" /\ r.wallet = "none" /\ r.key # "none" -> r.key
      [] OTHER -> r.client

(* StaleAfter * Rate >= Capacity is not validated by Config: it is what    *)
(* the defaults (10 minutes, 10 per second, 20) give, with much to spare.  *)
(* The configured proxies are all the proxies there are, and no client is  *)
(* one of them; what a client puts in the forwarding header is anything.   *)
ASSUME GatewayAssumption ==
    /\ Capacity \in Nat /\ Rate \in Nat /\ Cost \in Nat \ {0} /\ StaleAfter \in Nat
    /\ StaleAfter * Rate >= Capacity
    /\ max_per_key \in Nat \ {0}
    /\ IsFiniteSet(Tasks) /\ IsFiniteSet(Principals)
    /\ \A r \in Requests :
          /\ r.client \notin Trusted /\ r.hops \in Seq(Trusted)
          /\ Len(r.forged) \in Nat
          /\ r.forged = [i \in 1..Len(r.forged) |-> r.forged[i]]
          /\ r.by = MadeBy(r) /\ r.by \in Principals

VARIABLES
    buckets,      \* client key -> [tokens, age]
    served,       \* history: whom the last admitted request was made by
    semaphores,   \* client key -> the semaphore in the limiter's map
    streams       \* task -> [phase, key, sem] of its stream

vars == <<buckets, served, semaphores, streams>>

(***************************************************************************)
(* The client key.  A request that came over the hops h1..hn has peer hn   *)
(* and the forwarding chain its client made up, continued by the address   *)
(* each hop saw.                                                           *)
(***************************************************************************)
Peer(r)  == IF r.hops = <<>> THEN r.client ELSE r.hops[Len(r.hops)]
Chain(r) == r.forged \o (IF r.hops = <<>> THEN <<>> ELSE <<r.client>> \o SubSeq(r.hops, 1, Len(r.hops) - 1))

(* The rightmost hop that is not trusted, or else the leftmost.            *)
forwarded_for_client(chain) ==
    LET untrusted == {i \in DOMAIN chain : chain[i] \notin Trusted}
    IN  IF untrusted = {} THEN chain[1] ELSE chain[Max(untrusted)]

forwarded_for_leftmost(r) ==
    IF Peer(r) \in Trusted /\ Chain(r) # <<>> THEN Chain(r)[1] ELSE Peer(r)

resolve_client_ip(r) ==
    CASE Peer(r) \notin Trusted -> Peer(r)
      [] Peer(r) \in Trusted /\ Chain(r) # <<>> -> forwarded_for_client(Chain(r))
      [] Peer(r) \in Trusted /\ Chain(r) = <<>> /\ r.real_ip # "none" -> r.real_ip
      [] OTHER -> Peer(r)

(* Unauthenticated routes look at the address only, the others at wallet,  *)
(* api key and address in this order.                                      *)
ip_client_key(r) == resolve_client_ip(r)

client_key(r) ==
    CASE r.wallet # "none" -> r.wallet
      [] r.wallet = "none" /\ r.key # "none" -> r.key
      [] OTHER -> resolve_client_ip(r)

KeyOf(r) == IF r.route = "auth" THEN ip_client_key(r) ELSE client_key(r)

(***************************************************************************)
(* The buckets.                                                            *)
(***************************************************************************)
NewBucket == [tokens |-> Capacity, age |-> 0]

Filled(b) == Min({Capacity, b.tokens + b.age * Rate})

Level(k) == IF k \in DOMAIN buckets THEN Filled(buckets[k]) ELSE NewBucket.tokens

SetBucket(k, tokens) ==
    buckets' = [j \in DOMAIN buckets \union {k} |->
                   IF j = k THEN [tokens |-> tokens, age |-> 0] ELSE buckets[j]]

(* The bucket is filled before it is asked, also for a refused request.    *)
Refuse_without_fill(k) ==
    /\ Level(k) < Cost
    /\ SetBucket(k, IF k \in DOMAIN buckets THEN buckets[k].tokens ELSE Capacity)
    /\ UNCHANGED <<served, semaphores, streams>>

Refuse(k) ==
    /\ Level(k) < Cost
    /\ SetBucket(k, Level(k))
    /\ UNCHANGED <<served, semaphores, streams>>

allow(r) ==
    /\ Level(KeyOf(r)) >= Cost
    /\ SetBucket(KeyOf(r), Level(KeyOf(r)) - Cost)
    /\ served' = r.by

evict_stale ==
    LET stale == {k \in DOMAIN buckets : buckets[k].age > StaleAfter}
    IN  /\ stale # {}
        /\ buckets' = [k \in DOMAIN buckets \ stale |-> buckets[k]]
        /\ UNCHANGED <<served, semaphores, streams>>

ClockTick ==
    /\ buckets' = [k \in DOMAIN buckets |->
                      [buckets[k] EXCEPT !.age = Min({StaleAfter + 1, @ + 1})]]
    /\ UNCHANGED <<served, semaphores, streams>>

(***************************************************************************)
(* The stream limiter.  A stream task goes through                         *)
(*   idle -> cloned -> open -> released -> leaving -> idle:                *)
(* it has a clone of the semaphore; a permit too; has returned the permit; *)
(* has been at the map; its clone is about to be dropped.                  *)
(***************************************************************************)
NoStream == [phase |-> "idle", key |-> "none", sem |-> 0]

In(phase, sem) == {t \in Tasks : streams[t].phase = phase /\ streams[t].sem = sem}

available_permits(sem) == max_per_key - Cardinality(In("open", sem))

(* The map, the clones, and a second reference in every permit.            *)
strong_count(sem) ==
    Cardinality({k \in DOMAIN semaphores : semaphores[k] = sem})
    + Cardinality({t \in Tasks : streams[t].phase # "idle" /\ streams[t].sem = sem})
    + Cardinality(In("open", sem))

(* A semaphore nobody refers to: the memory of the next one allocated.     *)
FreshSemaphore == Min({s \in 1..Cardinality(Tasks) + Cardinality(Principals) + 1 : strong_count(s) = 0})

retain == {k \in DOMAIN semaphores : \/ available_permits(semaphores[k]) < max_per_key
                                     \/ strong_count(semaphores[k]) > 1}

(* try_acquire under the lock: unused semaphores of all keys go, the key's *)
(* own is found or made.                                                   *)
TakeSemaphore(t, k) ==
    /\ streams[t] = NoStream
    /\ LET sem == IF k \in retain THEN semaphores[k] ELSE FreshSemaphore
       IN  /\ semaphores' = [j \in retain \union {k} |-> IF j = k THEN sem ELSE semaphores[j]]
           /\ streams' = [streams EXCEPT ![t] = [phase |-> "cloned", key |-> k, sem |-> sem]]

(* try_acquire after the lock: a permit, or the request is refused.        *)
try_acquire_owned(t) ==
    /\ streams[t].phase = "cloned"
    /\ streams' = [streams EXCEPT ![t] =
           IF available_permits(@.sem) > 0 THEN [@ EXCEPT !.phase = "open"] ELSE NoStream]
    /\ UNCHANGED <<buckets, served, semaphores>>

(* The client disconnects and the stream is dropped: first the permit ...  *)
DropPermit(t) ==
    /\ streams[t].phase = "open"
    /\ streams' = [streams EXCEPT ![t].phase = "released"]
    /\ UNCHANGED <<buckets, served, semaphores>>

(* ... then, under the lock, the map's entry if nobody else uses it ...    *)
DropEntryUnlessOpen(t) ==
    LET s == streams[t]
    IN  /\ s.phase = "released"
        /\ semaphores' = IF available_permits(s.sem) = max_per_key
                         THEN [k \in DOMAIN semaphores \ {s.key} |-> semaphores[k]]
                         ELSE semaphores
        /\ streams' = [streams EXCEPT ![t].phase = "leaving"]
        /\ UNCHANGED <<buckets, served>>

DropEntry(t) ==
    LET s == streams[t]
    IN  /\ s.phase = "released"
        /\ semaphores' = IF available_permits(s.sem) = max_per_key /\ strong_count(s.sem) <= 2
                         THEN [k \in DOMAIN semaphores \ {s.key} |-> semaphores[k]]
                         ELSE semaphores
        /\ streams' = [streams EXCEPT ![t].phase = "leaving"]
        /\ UNCHANGED <<buckets, served>>

(* ... and last the clone of the semaphore.                                *)
DropSemaphore(t) ==
    /\ streams[t].phase = "leaving"
    /\ streams' = [streams EXCEPT ![t] = NoStream]
    /\ UNCHANGED <<buckets, served, semaphores>>

(* An admitted request: of an ordinary route, or for a stream.             *)
OrdinaryRequest(r) ==
    /\ r.route # "stream"
    /\ allow(r)
    /\ UNCHANGED <<semaphores, streams>>

rest_stream_auctions(r, t) ==
    /\ r.route = "stream"
    /\ allow(r)
    /\ TakeSemaphore(t, client_key(r))

-----------------------------------------------------------------------------
Init ==
    /\ buckets = <<>> /\ served = "nobody"
    /\ semaphores = <<>> /\ streams = [t \in Tasks |-> NoStream]

Next ==
    \/ \E r \in Requests :
        \/ Refuse(KeyOf(r))
        \/ OrdinaryRequest(r)
        \/ \E t \in Tasks : rest_stream_auctions(r, t)
    \/ \E t \in Tasks :
        \/ try_acquire_owned(t)
        \/ DropPermit(t)
        \/ DropEntry(t)
        \/ DropSemaphore(t)
    \/ evict_stale
    \/ ClockTick

(* Time passes.  No client has to come, to leave, or to be evicted.        *)
Spec == Init /\ [][Next]_vars /\ WF_vars(ClockTick)

-----------------------------------------------------------------------------
(* A client key never has more than max_per_key auction streams open,      *)
(* however try_acquire, the three steps of a closing stream and the        *)
(* clean-up by other keys interleave: every semaphore in use is the one in *)
(* the map.                                                                *)
StreamsBounded ==
    \A k \in Principals :
        Cardinality({t \in Tasks : streams[t].phase = "open" /\ streams[t].key = k}) <= max_per_key

(* The limiter implements one bucket per principal, although it keys       *)
(* requests by what their headers say and forgets idle buckets: no header  *)
(* a client makes up moves its requests to another bucket, and an evicted  *)
(* bucket was full.                                                        *)
Promise == INSTANCE TokenBuckets WITH level <- [p \in Principals |-> Level(p)]

BucketPromise == Promise!Spec

(* A client that never stops asking is not kept out for ever: refused      *)
(* requests do not delay the refill.                                       *)
RefillsUnderLoad == \A p \in Principals : Level(p) < Cost ~> Level(p) >= Cost
=============================================================================
