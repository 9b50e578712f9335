---------------------------- MODULE SpeedLimiter ----------------------------
(***************************************************************************)
(* The download rate: a token bucket served by one task (speed.rs), and    *)
(* the downloads that sleep for the delays it hands out while the user     *)
(* changes the rate.                                                       *)
(***************************************************************************)
EXTENDS Integers, FiniteSets

CONSTANTS
    Acquirers,      \* downloads, each acquires once
    ArticleBytes,   \* [Acquirers -> Nat], expected sizes
    Rates,          \* rates the user may set, 0 is unlimited
    Horizon,        \* bound: seconds that pass
    MaxChanges      \* bound: times the rate is set

ASSUME SpeedAssumption == ArticleBytes \in [Acquirers -> Nat] /\ Rates \subseteq Nat

VARIABLES
    rate, tokens, last_refill,
    clock, changes,
    sleeping,       \* [acquirers that sleep -> [debt, rate, since, latest]],
                    \* latest is a ghost: the rate was not set since
    passed,         \* acquirers that have gone on
    changed_at,     \* ghost: when the rate was last set
    since_change    \* ghost: acquirers that went on under the present rate

speedVars == <<rate, tokens, last_refill, clock, changes, sleeping, passed,
               changed_at, since_change>>

SpeedInit ==
    /\ rate \in Rates /\ tokens = rate /\ last_refill = 0 /\ clock = 0 /\ changes = 0
    /\ sleeping = <<>> /\ passed = {} /\ changed_at = 0 /\ since_change = {}

Waiting(a) == a \notin passed /\ a \notin DOMAIN sleeping

Smaller(x, y) == IF x < y THEN x ELSE y

(* Mutant of Refilled: the bucket never overflows.                         *)
RefilledForEver == tokens + (clock - last_refill) * rate

(* The time since the last refill counts at the present rate.              *)
Refilled == Smaller(tokens + (clock - last_refill) * rate, 2 * rate)

(* Unlimited: the task is not even asked.                                  *)
acquire_unlimited(a) ==
    /\ Waiting(a) /\ rate = 0 /\ passed' = passed \union {a}
    /\ UNCHANGED <<rate, tokens, last_refill, clock, changes, sleeping, changed_at, since_change>>

reserve(a) ==
    LET left == Refilled - ArticleBytes[a]
    IN /\ Waiting(a) /\ rate > 0
       /\ tokens' = left /\ last_refill' = clock
       /\ IF left >= 0
          THEN /\ passed' = passed \union {a}
               /\ since_change' = since_change \union {a}
               /\ UNCHANGED sleeping
          ELSE /\ sleeping' = [x \in DOMAIN sleeping \union {a} |->
                    IF x = a THEN [debt |-> -left, rate |-> rate, since |-> clock, latest |-> TRUE]
                    ELSE sleeping[x]]
               /\ UNCHANGED <<passed, since_change>>
       /\ UNCHANGED <<rate, clock, changes, changed_at>>

(* The delay was computed from the rate of that time.                      *)
wake(a) ==
    /\ a \in DOMAIN sleeping
    /\ (clock - sleeping[a].since) * sleeping[a].rate >= sleeping[a].debt
    /\ passed' = passed \union {a}
    /\ since_change' = IF sleeping[a].latest THEN since_change \union {a}
                       ELSE since_change
    /\ sleeping' = [x \in DOMAIN sleeping \ {a} |-> sleeping[x]]
    /\ UNCHANGED <<rate, tokens, last_refill, clock, changes, changed_at>>

set_rate(r) ==
    /\ r # rate /\ rate' = r
    /\ changes < MaxChanges /\ changes' = changes + 1
    /\ changed_at' = clock /\ since_change' = {}
    /\ sleeping' = [a \in DOMAIN sleeping |-> [sleeping[a] EXCEPT !.latest = FALSE]]
    /\ UNCHANGED <<tokens, last_refill, clock, passed>>

Second ==
    /\ clock < Horizon /\ clock' = clock + 1
    /\ UNCHANGED <<rate, tokens, last_refill, changes, sleeping, passed, changed_at, since_change>>

SpeedNext ==
    \/ Second
    \/ \E a \in Acquirers : acquire_unlimited(a) \/ reserve(a) \/ wake(a)
    \/ \E r \in Rates : set_rate(r)

-----------------------------------------------------------------------------
LetThrough == UNION {{a} \X (1..ArticleBytes[a]) : a \in since_change}

(* Since the rate was set, the downloads let through under it came to no   *)
(* more than the rate times the time that passed and a burst of two        *)
(* seconds, whatever debt or surplus the earlier rates left.               *)
RateIsKept == rate > 0 => Cardinality(LetThrough) <= rate * (clock - changed_at + 2)
=============================================================================
