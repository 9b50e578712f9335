--------------------------- MODULE ServerVolumes ---------------------------
(***************************************************************************)
(* StatsTracker: what was downloaded from each server, by second, minute   *)
(* and hour in rings, by day and by month in counters with a history.      *)
(***************************************************************************)
EXTENDS Naturals, SequencesExt

CONSTANTS
    Servers,
    Ring,           \* slots of the rings: [seconds, minutes, hours -> Nat]
    Unit,           \* seconds of a slot: [seconds, minutes, hours -> Nat]
    DaySeconds, MonthDays,
    ShortestMonth,  \* days that every month has, 28 in the code
    QuotaStartDay,
    VolumeHorizon,  \* bound: seconds that pass
    MaxRecords,     \* bound: records of bytes, of articles and resets
    NotYet

Rings == DOMAIN Ring
Instants == 0..VolumeHorizon

ASSUME VolumeAssumption ==
    /\ IsFiniteSet(Servers)
    /\ \A r \in Rings : Ring[r] \in Nat \ {0} /\ Unit[r] \in Nat \ {0}
    /\ DaySeconds \in Nat \ {0} /\ VolumeHorizon \in Nat /\ NotYet \notin Nat

VARIABLES
    epoch,          \* the clock, in seconds
    set_back,       \* the clock has been set back
    volumes,        \* ServerVolumes, of the servers that something was recorded of
    last_day,
    records,
    received,       \* ghost: [Servers -> [Instants -> bytes since the reset]]
    outcomes        \* ghost: [Servers -> articles since the reset]

volumeVars == <<epoch, set_back, volumes, last_day, records, received, outcomes>>

DefaultVolume ==
    [today |-> 0, month |-> 0, daily |-> <<>>, monthly |-> <<>>,
     rings |-> [r \in Rings |-> [i \in 0..(Ring[r] - 1) |-> 0]],
     success |-> 0, failed |-> 0, articles |-> <<>>, last |-> NotYet]

VolumeInit ==
    /\ epoch = 0 /\ set_back = FALSE /\ last_day = 0 /\ records = 0
    /\ volumes = <<>>
    /\ received = [s \in Servers |-> [t \in Instants |-> 0]]
    /\ outcomes = [s \in Servers |-> 0]
-----------------------------------------------------------------------------
(* The slots that the clock has entered since prev are emptied; all, when  *)
(* it has gone round.                                                      *)
Entered(r, prev, t) ==
    LET from == prev \div Unit[r]
        to == t \div Unit[r]
    IN IF to - from >= Ring[r] THEN 0..(Ring[r] - 1)
       ELSE {(from + s) % Ring[r] : s \in 1..(to - from)}

(* Mutant: a ring that has gone round exactly is not emptied.              *)
advance_past(v, t) ==
    IF v.last = NotYet \/ t <= v.last THEN [v EXCEPT !.last = t]
    ELSE [v EXCEPT !.last = t,
            !.rings = [r \in Rings |-> [i \in DOMAIN v.rings[r] |->
                IF /\ i \in Entered(r, v.last, t)
                   /\ t \div Unit[r] - v.last \div Unit[r] # Ring[r]
                THEN 0 ELSE v.rings[r][i]]]]

advance_to(v, t) ==
    IF v.last = NotYet \/ t <= v.last THEN [v EXCEPT !.last = t]
    ELSE [v EXCEPT !.last = t,
            !.rings = [r \in Rings |-> [i \in DOMAIN v.rings[r] |->
                IF i \in Entered(r, v.last, t) THEN 0 ELSE v.rings[r][i]]]]

record(v, bytes, t) ==
    LET w == advance_to(v, t)
    IN [w EXCEPT !.today = @ + bytes, !.month = @ + bytes,
          !.rings = [r \in Rings |->
              [w.rings[r] EXCEPT ![(t \div Unit[r]) % Ring[r]] = @ + bytes]]]

Tracked == DOMAIN volumes
OrDefault(s) == IF s \in Tracked THEN volumes[s] ELSE DefaultVolume
Store(s, v) == volumes' = [x \in Tracked \cup {s} |-> IF x = s THEN v ELSE volumes[x]]

record_bytes(s) ==
    /\ records < MaxRecords /\ records' = records + 1
    /\ Store(s, record(OrDefault(s), 1, epoch))
    /\ received' = [received EXCEPT ![s][epoch] = @ + 1]
    /\ UNCHANGED <<epoch, set_back, last_day, outcomes>>

record_article(s, outcome) ==
    /\ records < MaxRecords /\ records' = records + 1
    /\ Store(s, IF outcome = "success" THEN [OrDefault(s) EXCEPT !.success = @ + 1]
                                       ELSE [OrDefault(s) EXCEPT !.failed = @ + 1])
    /\ outcomes' = [outcomes EXCEPT ![s] = @ + 1]
    /\ UNCHANGED <<epoch, set_back, last_day, received>>
-----------------------------------------------------------------------------
(* The service's tick, once a minute, notices that the day is another.     *)
Today == epoch \div DaySeconds
DayOfMonth(day) == (day % MonthDays) + 1
NewMonth == Today \div MonthDays # last_day \div MonthDays

MonthEnds ==
    \/ DayOfMonth(Today) = QuotaStartDay
    \/ QuotaStartDay > ShortestMonth /\ DayOfMonth(Today) = 1 /\ NewMonth

Rolled(v) ==
    LET w == [v EXCEPT !.daily = Append(@, [day |-> last_day, bytes |-> v.today]),
                       !.articles = Append(@, [day |-> last_day, success |-> v.success,
                                               failed |-> v.failed]),
                       !.today = 0, !.success = 0, !.failed = 0]
    IN IF MonthEnds THEN [w EXCEPT !.monthly = Append(@, [day |-> last_day, bytes |-> v.month]),
                                   !.month = 0]
                    ELSE w

roll_day ==
    /\ Today # last_day /\ last_day' = Today
    /\ volumes' = [s \in Tracked |-> Rolled(volumes[s])]
    /\ UNCHANGED <<epoch, set_back, records, received, outcomes>>

reset_volume(which) ==
    /\ records < MaxRecords /\ records' = records + 1
    /\ volumes' = [s \in Tracked |-> IF s \in which THEN DefaultVolume ELSE volumes[s]]
    /\ received' = [s \in Servers |->
          IF s \in which THEN [t \in Instants |-> 0] ELSE received[s]]
    /\ outcomes' = [s \in Servers |-> IF s \in which THEN 0 ELSE outcomes[s]]
    /\ UNCHANGED <<epoch, set_back, last_day>>

(* A snapshot for the web interface brings every volume up to now.         *)
snapshot_with_date ==
    /\ volumes' = [s \in Tracked |-> advance_to(volumes[s], epoch)]
    /\ volumes' # volumes
    /\ UNCHANGED <<epoch, set_back, last_day, records, received, outcomes>>

SecondPasses ==
    /\ epoch + 1 \in Instants /\ epoch' = epoch + 1
    /\ UNCHANGED <<set_back, volumes, last_day, records, received, outcomes>>

ClockSetBack ==
    /\ ~set_back /\ set_back' = TRUE
    /\ epoch' \in {t \in Instants : t < epoch /\ t \div DaySeconds = Today}
    /\ UNCHANGED <<volumes, last_day, records, received, outcomes>>

VolumeNext ==
    \/ SecondPasses \/ ClockSetBack \/ roll_day \/ snapshot_with_date
    \/ reset_volume(Servers)
    \/ \E s \in Servers :
          \/ record_bytes(s) \/ reset_volume({s})
          \/ \E o \in {"success", "failed"} : record_article(s, o)
-----------------------------------------------------------------------------
(* The quota is reached by the sums over the servers.                      *)
SumOver(f) == FoldFunction(+, 0, f)

is_any_quota_reached(monthly, daily) ==
    \/ monthly > 0 /\ SumOver([s \in Tracked |-> volumes[s].month]) >= monthly
    \/ daily > 0 /\ SumOver([s \in Tracked |-> volumes[s].today]) >= daily
-----------------------------------------------------------------------------
(* Of what status shows, the traffic: summed up over the servers; the      *)
(* quotas are those of the configuration.                                  *)
status(monthly_quota, daily_quota) ==
    [day |-> SumOver([s \in Tracked |-> volumes[s].today]),
     month |-> SumOver([s \in Tracked |-> volumes[s].month]),
     quota_reached |-> is_any_quota_reached(monthly_quota, daily_quota)]

(* Counters are shown by day: the days from the first that is on record to *)
(* today, none for a day that nothing is recorded of.  The snapshot names  *)
(* today; the slots of the rings are those of a clock that is read later.  *)
FirstDay(v, today) == IF v.daily = <<>> THEN today ELSE v.daily[1].day

ByDay(v, today, rows, none, current) ==
    [day \in FirstDay(v, today)..today |->
        IF day = today THEN current
        ELSE LET at == {i \in DOMAIN rows : rows[i].day = day}
             IN IF at = {} THEN none ELSE rows[CHOOSE i \in at : \A j \in at : j <= i]]

build_server_volume(v, today, now) ==
    [first |-> FirstDay(v, today),
     days |-> ByDay(v, today, v.daily, [day |-> today, bytes |-> 0],
                    [day |-> today, bytes |-> v.today]),
     articles |-> ByDay(v, today, v.articles, [day |-> today, success |-> 0, failed |-> 0],
                        [day |-> today, success |-> v.success, failed |-> v.failed]),
     total |-> SumOver([i \in DOMAIN v.daily |-> v.daily[i].bytes]) + v.today,
     rings |-> v.rings,
     slots |-> [r \in Rings |-> (now \div Unit[r]) % Ring[r]]]

(* A server of which nothing was recorded; server 0, the row of all        *)
(* servers, is always shown so.                                            *)
empty_server_volume(now) ==
    [build_server_volume(DefaultVolume, now \div DaySeconds, now)
        EXCEPT !.slots = [r \in Rings |-> 0]]

rpc_servervolumes(configured, now) ==
    [s \in configured |->
        IF s \in Tracked THEN build_server_volume(advance_to(volumes[s], epoch), last_day, now)
        ELSE empty_server_volume(now)]
-----------------------------------------------------------------------------
(* What the counters say is what was received.                             *)
Between(s, from, to) == SumOver([t \in {x \in Instants : from <= x /\ x <= to} |-> received[s][t]])

(* A ring of n slots holds the last n seconds, minutes or hours, each in   *)
(* its slot, whenever it is read or written; until the clock is set back.  *)
RingsAreWindows ==
    ~set_back => \A s \in Tracked, r \in Rings :
        LET v == volumes[s]
            at == v.last \div Unit[r]
        IN v.last # NotYet => \A age \in 0..(Ring[r] - 1) :
              age <= at => v.rings[r][(at - age) % Ring[r]]
                              = Between(s, (at - age) * Unit[r], (at - age) * Unit[r] + Unit[r] - 1)

(* Bytes and articles are counted once, in a day and in a month, whatever  *)
(* the clock does and however late the day is rolled.                      *)
BytesOf(rows) == FoldLeft(LAMBDA sum, row : sum + row.bytes, 0, rows)
ArticlesOf(rows) == FoldLeft(LAMBDA sum, row : sum + row.success + row.failed, 0, rows)

CountersAddUp ==
    \A s \in Servers :
        LET v == OrDefault(s)
        IN /\ v.today + BytesOf(v.daily) = SumOver(received[s])
           /\ v.month + BytesOf(v.monthly) = SumOver(received[s])
           /\ v.success + v.failed + ArticlesOf(v.articles) = outcomes[s]

(* A month is never shown to hold less than its last day, so that a quota  *)
(* for the month is reached by a day that reaches it.                      *)
StatusAddsUp ==
    Tracked # {} =>
    LET shown == status(1, 0)
    IN shown.month >= shown.day /\ (status(0, 1).quota_reached => shown.quota_reached)

(* The rows that are shown lose no day, their days add up to the total;    *)
(* the slots that they name hold the current second, minute and hour.      *)
RowsAreTrue ==
    \A s \in Tracked :
        LET row == rpc_servervolumes(Servers \cup {0}, epoch)[s]
        IN /\ row.total = SumOver(received[s])
           /\ SumOver([d \in DOMAIN row.days |-> row.days[d].bytes]) = row.total
           /\ SumOver([d \in DOMAIN row.articles |->
                 row.articles[d].success + row.articles[d].failed]) = outcomes[s]
           /\ \A r \in Rings :
                 LET begins == (epoch \div Unit[r]) * Unit[r]
                 IN \/ set_back
                    \/ row.rings[r][row.slots[r]] = Between(s, begins, begins + Unit[r] - 1)

VolumesAreExact == RingsAreWindows /\ CountersAddUp /\ StatusAddsUp /\ RowsAreTrue
=============================================================================
