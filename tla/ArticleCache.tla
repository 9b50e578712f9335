---------------------------- MODULE ArticleCache ----------------------------
(***************************************************************************)
(* BoundedCache: downloads insert articles at the same time; the oldest    *)
(* make room for the new.  A put looks the article up before it takes the  *)
(* lock of the eviction order.                                             *)
(***************************************************************************)
EXTENDS Integers, FiniteSets, SequencesExt

CONSTANTS
    Puts,           \* calls of put_arc
    MessageOf,      \* [Puts -> message ids]
    Size,           \* [message ids -> Nat], bytes of an article
    MaxBytes

ASSUME CacheAssumption ==
    /\ IsFiniteSet(Puts) /\ MaxBytes \in Nat
    /\ MessageOf \in [Puts -> DOMAIN Size] /\ Size \in [DOMAIN Size -> Nat]

VARIABLES
    put,            \* "none", "checked", "locked", "added", "done", per call
    cached,         \* entries: the set of message ids
    eviction,       \* the order, oldest first
    current_bytes

cacheVars == <<put, cached, eviction, current_bytes>>

CacheInit ==
    /\ put = [c \in Puts |-> "none"]
    /\ cached = {} /\ eviction = <<>> /\ current_bytes = 0

Bytes(c) == Size[MessageOf[c]]
Locked == \E c \in Puts : put[c] \in {"locked", "added"}

put_check(c) ==
    /\ put[c] = "none"
    /\ put' = [put EXCEPT ![c] =
          IF Bytes(c) > MaxBytes \/ MessageOf[c] \in cached THEN "done" ELSE "checked"]
    /\ UNCHANGED <<cached, eviction, current_bytes>>

put_lock(c) ==
    /\ put[c] = "checked" /\ ~Locked /\ put' = [put EXCEPT ![c] = "locked"]
    /\ UNCHANGED <<cached, eviction, current_bytes>>

NoRoom(c) == current_bytes + Bytes(c) > MaxBytes

(* An id that is in the order twice is removed once.                       *)
evict(c) ==
    /\ put[c] = "locked" /\ NoRoom(c) /\ eviction # <<>>
    /\ eviction' = Tail(eviction)
    /\ cached' = cached \ {Head(eviction)}
    /\ current_bytes' = current_bytes -
          IF Head(eviction) \in cached THEN Size[Head(eviction)] ELSE 0
    /\ UNCHANGED put

(* Mutant of put_add: an article that does not fit is added all the same.  *)
put_add_always(c) ==
    /\ put[c] = "locked" /\ put' = [put EXCEPT ![c] = "added"]
    /\ current_bytes' = current_bytes + Bytes(c)
    /\ eviction' = Append(eviction, MessageOf[c])
    /\ UNCHANGED cached

put_add(c) ==
    /\ put[c] = "locked" /\ (NoRoom(c) => eviction = <<>>)
    /\ put' = [put EXCEPT ![c] = "added"]
    /\ current_bytes' = current_bytes + Bytes(c)
    /\ eviction' = Append(eviction, MessageOf[c])
    /\ UNCHANGED cached

put_insert(c) ==
    /\ put[c] = "added" /\ put' = [put EXCEPT ![c] = "done"]
    /\ cached' = cached \union {MessageOf[c]}
    /\ UNCHANGED <<eviction, current_bytes>>

CacheNext == \E c \in Puts :
    put_check(c) \/ put_lock(c) \/ evict(c) \/ put_add(c) \/ put_insert(c)

-----------------------------------------------------------------------------
(* The bytes of some articles: <<message id, which byte>>.                 *)
BytesIn(ids) == UNION {{m} \X (1..Size[m]) : m \in ids}

(* Two puts of one article count its bytes twice, and some are never given *)
(* back; even so the articles in memory stay within the limit, none is     *)
(* counted short, and every one is in line to be evicted.                  *)
CacheStaysWithinLimit ==
    LET held == Cardinality(BytesIn(cached))
    IN /\ held <= MaxBytes /\ held <= current_bytes
       /\ cached \subseteq Range(eviction)
=============================================================================
