-------------------------- MODULE VisitorAnalytics --------------------------
(***************************************************************************)
(* Visitor analytics (src/modules/analytics): page views counted in Redis  *)
(* under the day they arrive in, the nightly sync that moves each finished *)
(* day into Postgres and deletes its keys, and the report that adds today  *)
(* from Redis to the earlier days from Postgres.  A ping is several        *)
(* awaits, the last a pipeline that is no transaction, so one may cross    *)
(* midnight or break off after any command; the keys of a day expire       *)
(* DayKeyDays after its last view; a sync may fail or die between any two  *)
(* steps, and one that lost its lock runs beside its successor.  Where the *)
(* code stores a count of visitors, the model keeps the set of them.       *)
(***************************************************************************)
EXTENDS Naturals, FiniteSets, Functions

CONSTANTS
  Visitors,
  Pings,          \* pings in progress at a time
  Syncs,          \* sync runs in progress at a time
  LastDay,        \* bound: days
  MaxPings,       \* bound: page views ever recorded
  MaxSyncs,       \* bound: syncs ever started
  DayKeyDays,     \* analyticsConfig.dayKeyTtlSeconds, in days
  RollingWindow,  \* analyticsConfig.rollingWindowDays
  ChartedDays,    \* DAILY_POINTS of a timeframe
  MonthLength,    \* days in a month
  YearMonths      \* months of a year

VARIABLES
  today,
  hashes,     \* the Redis hashes of each day: [audience, sessions, views] of each visitor
  touched,    \* the day the keys of each day were last given their lifetime
  visiting,   \* visitors with a session key
  ping,       \* pings in progress
  activity,   \* visitor_daily_activity
  firstSeen,  \* visitors.first_seen_on
  stats,      \* daily_visitor_stats
  sync,       \* sync runs in progress
  started,    \* syncs ever started
  visited,       \* history: visitors recorded on each day
  counted,    \* history: page views recorded of each visitor on each day
  entered,    \* history: sessions recorded
  missed      \* history: <<day, visitor>> recorded after the day had been synced, or
              \* expired before it was

redis == <<hashes, touched, visiting>>
postgres == <<activity, firstSeen, stats>>
history == <<visited, counted, entered, missed>>
vars == <<today, redis, ping, postgres, sync, started, history>>

Days == 1 .. LastDay
Never == 0
Nobody == [audience |-> "none", sessions |-> 0, views |-> 0]
NoStats == [visitors |-> {}, anonymous |-> {}, signedIn |-> {}, new |-> {}, sessions |-> 0,
            views |-> 0, rolling |-> {}, saved |-> FALSE]

-----------------------------------------------------------------------------
(* recordPageView: the day, then SET NX on the session, then the pipeline. *)

NoPing == [pc |-> "none", visitor |-> CHOOSE v \in Visitors : TRUE, day |-> Never,
           audience |-> "none", opens |-> FALSE]

(* Pages of a visitor that reached the day, a broken-off one included.     *)
Arrived(d, v) == IF v \in visited[d] /\ counted[d][v] = 0 THEN 1 ELSE counted[d][v]
Recorded == SumFunction([d \in Days |-> SumFunction([v \in Visitors |-> Arrived(d, v)])])
Underway == Cardinality({p \in Pings : ping[p].pc # "none"})

ReceivePing(p, v, audience) ==
  /\ ping[p].pc = "none" /\ Recorded + Underway < MaxPings
  /\ ping' = [ping EXCEPT ![p] = [pc |-> "session", visitor |-> v, day |-> today,
                                  audience |-> audience, opens |-> FALSE]]
  /\ UNCHANGED <<today, redis, postgres, sync, started, history>>

ClaimSession(p) ==
  LET v == ping[p].visitor IN
  /\ ping[p].pc = "session"
  /\ visiting' = visiting \cup {v}
  /\ ping' = [ping EXCEPT ![p].pc = "audience", ![p].opens = v \notin visiting]
  /\ UNCHANGED <<today, hashes, touched, postgres, sync, started, history>>

(* The commands of the pipeline, each of which Redis applies by itself.    *)
Miss(d, v) ==
  missed' = IF stats[d].saved \/ \E s \in Syncs : sync[s].day = d
            THEN missed \cup {<<d, v>>} ELSE missed

(* An anonymous view never replaces a signed-in audience.                  *)
WriteAudience(p) ==
  LET v == ping[p].visitor
      d == ping[p].day
  IN
  /\ ping[p].pc = "audience"
  /\ hashes' = [hashes EXCEPT ![d][v].audience = IF @ = "signed in" THEN @ ELSE ping[p].audience]
  /\ visited' = [visited EXCEPT ![d] = @ \cup {v}] /\ Miss(d, v)
  /\ ping' = [ping EXCEPT ![p].pc = "view"]
  /\ UNCHANGED <<today, touched, visiting, postgres, sync, started, counted, entered>>

CountView(p) ==
  LET v == ping[p].visitor
      d == ping[p].day
  IN
  /\ ping[p].pc = "view"
  /\ hashes' = [hashes EXCEPT ![d][v].views = @ + 1]
  /\ counted' = [counted EXCEPT ![d][v] = @ + 1] /\ Miss(d, v)
  /\ ping' = [ping EXCEPT ![p].pc = IF ping[p].opens THEN "opened" ELSE "expire"]
  /\ UNCHANGED <<today, touched, visiting, postgres, sync, started, visited, entered>>

CountSession(p) ==
  LET v == ping[p].visitor
      d == ping[p].day
  IN
  /\ ping[p].pc = "opened"
  /\ hashes' = [hashes EXCEPT ![d][v].sessions = @ + 1]
  /\ entered' = [entered EXCEPT ![d][v] = @ + 1] /\ Miss(d, v)
  /\ ping' = [ping EXCEPT ![p].pc = "expire"]
  /\ UNCHANGED <<today, touched, visiting, postgres, sync, started, visited, counted>>

ExpireKeys(p) ==
  /\ ping[p].pc = "expire"
  /\ touched' = [touched EXCEPT ![ping[p].day] = today]
  /\ ping' = [ping EXCEPT ![p] = NoPing]
  /\ UNCHANGED <<today, hashes, visiting, postgres, sync, started, history>>

LosePing(p) ==
  /\ ping[p].pc # "none"
  /\ ping' = [ping EXCEPT ![p] = NoPing]
  /\ UNCHANGED <<today, redis, postgres, sync, started, history>>

SessionExpires(v) ==
  /\ v \in visiting
  /\ visiting' = visiting \ {v}
  /\ UNCHANGED <<today, hashes, touched, ping, postgres, sync, started, history>>

(* The lifetime of a day's keys is over.                                   *)
Empty == [v \in Visitors |-> Nobody]
Due(d) == hashes[d] # Empty /\ touched[d] # Never /\ touched[d] + DayKeyDays <= today

DayExpires(d) ==
  /\ Due(d)
  /\ hashes' = [hashes EXCEPT ![d] = Empty]
  /\ touched' = [touched EXCEPT ![d] = Never]
  /\ missed' = IF stats[d].saved THEN missed
               ELSE missed \cup {<<d, v>> : v \in {w \in Visitors : hashes[d][w] # Nobody}}
  /\ UNCHANGED <<today, visiting, ping, postgres, sync, started, visited, counted, entered>>

(* No ping takes a whole day, and no key outlives the day it is due.       *)
Midnight ==
  /\ today < LastDay
  /\ \A p \in Pings : ping[p].pc # "none" => ping[p].day = today
  /\ \A d \in Days : ~Due(d)
  /\ today' = today + 1
  /\ UNCHANGED <<redis, ping, postgres, sync, started, history>>

-----------------------------------------------------------------------------
(* syncCompletedDays, day after day in order.                              *)

NoSync == [pc |-> "none", days |-> {}, day |-> Never, rows |-> Empty]
Step(s, next) == sync' = [sync EXCEPT ![s] = next]

PresentOn(d) == {v \in Visitors : hashes[d][v].audience # "none"}

StartSync(s) ==
  /\ sync[s].pc = "none" /\ started < MaxSyncs
  /\ started' = started + 1
  /\ Step(s, [NoSync EXCEPT !.pc = "pick", !.days = {d \in Days : d < today /\ PresentOn(d) # {}}])
  /\ UNCHANGED <<today, redis, ping, postgres, history>>

NextDay(days) == CHOOSE d \in days : \A e \in days : d <= e

PickDay(s) ==
  /\ sync[s].pc = "pick"
  /\ IF sync[s].days = {} THEN Step(s, NoSync)
     ELSE LET d == NextDay(sync[s].days) IN
          Step(s, [sync[s] EXCEPT !.pc = "read", !.day = d, !.days = @ \ {d}])
  /\ UNCHANGED <<today, redis, ping, postgres, started, history>>

ReadHashes(s) ==
  /\ sync[s].pc = "read"
  /\ Step(s, [sync[s] EXCEPT !.pc = "commit", !.rows = hashes[sync[s].day]])
  /\ UNCHANGED <<today, redis, ping, postgres, started, history>>

(* What the transaction leaves of a row: the counts are overwritten.       *)
Upsert(old, new) == new

Least(a, b) == IF a = Never \/ b < a THEN b ELSE a
Active(table, d) == {v \in Visitors : table[d][v] # Nobody}
Audience(table, d, audience) == {v \in Visitors : table[d][v].audience = audience}
ActiveBetween(table, from, to) == UNION {Active(table, d) : d \in Days \cap (from .. to)}
Since(day, length) == IF day < length THEN 1 ELSE day - length + 1

StatsOf(d) ==
  [visitors |-> Active(activity', d),
   anonymous |-> Audience(activity', d, "anonymous"),
   signedIn |-> Audience(activity', d, "signed in"),
   new |-> {v \in Visitors : firstSeen'[v] = d},
   sessions |-> SumFunction([v \in Visitors |-> activity'[d][v].sessions]),
   views |-> SumFunction([v \in Visitors |-> activity'[d][v].views]),
   rolling |-> ActiveBetween(activity', Since(d, RollingWindow), d),
   saved |-> TRUE]

CommitDay(s) ==
  LET d == sync[s].day
      rows == sync[s].rows
      present == {v \in Visitors : rows[v].audience # "none"}
  IN
  /\ sync[s].pc = "commit"
  /\ firstSeen' = [v \in Visitors |-> IF v \in present THEN Least(firstSeen[v], d)
                                      ELSE firstSeen[v]]
  /\ activity' = [activity EXCEPT ![d] = [v \in Visitors |->
                    IF v \in present THEN Upsert(activity[d][v], rows[v]) ELSE activity[d][v]]]
  /\ stats' = [stats EXCEPT ![d] = StatsOf(d)]
  /\ Step(s, [sync[s] EXCEPT !.pc = "delete"])
  /\ UNCHANGED <<today, redis, ping, started, history>>

DeleteKeys(s) ==
  /\ sync[s].pc = "delete"
  /\ hashes' = [hashes EXCEPT ![sync[s].day] = Empty]
  /\ touched' = [touched EXCEPT ![sync[s].day] = Never]
  /\ Step(s, [sync[s] EXCEPT !.pc = "pick", !.day = Never, !.rows = NoSync.rows])
  /\ UNCHANGED <<today, visiting, ping, postgres, started, history>>

(* A read, the transaction or the delete fails, or the process dies.       *)
SyncFails(s) ==
  /\ sync[s].pc # "none"
  /\ Step(s, NoSync)
  /\ UNCHANGED <<today, redis, ping, postgres, started, history>>

-----------------------------------------------------------------------------

Init ==
  /\ today = 1 /\ visiting = {} /\ started = 0 /\ missed = {}
  /\ hashes = [d \in Days |-> Empty] /\ touched = [d \in Days |-> Never]
  /\ activity = hashes /\ firstSeen = [v \in Visitors |-> Never]
  /\ stats = [d \in Days |-> NoStats]
  /\ ping = [p \in Pings |-> NoPing] /\ sync = [s \in Syncs |-> NoSync]
  /\ visited = [d \in Days |-> {}]
  /\ counted = [d \in Days |-> [v \in Visitors |-> 0]] /\ entered = counted

Next ==
  \/ \E p \in Pings :
       \/ \E v \in Visitors, audience \in {"anonymous", "signed in"} : ReceivePing(p, v, audience)
       \/ ClaimSession(p) \/ WriteAudience(p) \/ CountView(p) \/ CountSession(p) \/ ExpireKeys(p)
       \/ LosePing(p)
  \/ \E v \in Visitors : SessionExpires(v)
  \/ \E d \in Days : DayExpires(d)
  \/ Midnight
  \/ \E s \in Syncs :
       StartSync(s) \/ PickDay(s) \/ ReadHashes(s) \/ CommitDay(s) \/ DeleteKeys(s) \/ SyncFails(s)

Spec == Init /\ [][Next]_vars

-----------------------------------------------------------------------------
(* The report (AnalyticsReportService), of one moment.                     *)

Live == PresentOn(today)
LiveSum(counter) == SumFunction([v \in Visitors |-> hashes[today][v][counter]])
Synced(from) == Days \cap (from .. (today - 1))

(* Mutant: everybody seen today is new.                                    *)
AllLiveVisitors == Live

(* countNewLiveVisitors.                                                   *)
NewLiveVisitors == {v \in Live : firstSeen[v] = Never}

HistoryTotals(from) ==
  [newVisitors |-> SumFunction([d \in Synced(from) |-> Cardinality(stats[d].new)]),
   sessions |-> SumFunction([d \in Synced(from) |-> stats[d].sessions]),
   pageViews |-> SumFunction([d \in Synced(from) |-> stats[d].views])]

(* countWindow, for all audiences together.                                *)
CountWindow(from) == Cardinality(ActiveBetween(activity, from, today - 1) \cup Live)

FirstOfMonth(day) == day - ((day - 1) % MonthLength)
Later(a, b) == IF a < b THEN b ELSE a

FirstOnRecord ==
  LET known == {firstSeen[v] : v \in Visitors} \ {Never} IN
  IF known = {} THEN today ELSE CHOOSE d \in known : \A e \in known : d <= e

WindowStart(timeframe) ==
  CASE timeframe = "days" -> Since(today, ChartedDays)
    [] timeframe = "year" -> Since(FirstOfMonth(today), (YearMonths - 1) * MonthLength + 1)
    [] timeframe = "all" -> FirstOnRecord

(* dailySeries: [dau, mau] of each charted day.                            *)
DailySeries(from) ==
  [d \in from .. today |->
     IF d = today THEN [dau |-> Live, mau |-> CountWindow(Since(today, RollingWindow))]
     ELSE [dau |-> stats[d].visitors,
           mau |-> Cardinality(ActiveBetween(activity, Since(d, RollingWindow), d))]]

(* monthlySeries: the visitors of each month, by its first day.            *)
MonthlySeries(from) ==
  [m \in {FirstOfMonth(d) : d \in from .. today} |->
     IF m = FirstOfMonth(today) THEN CountWindow(m)
     ELSE Cardinality(ActiveBetween(activity, Later(m, from), m + MonthLength - 1))]

Report(timeframe) ==
  LET totals == HistoryTotals(WindowStart(timeframe))
      new == Cardinality(NewLiveVisitors)
  IN
  [dau |-> Cardinality(Live),
   mau |-> CountWindow(Since(today, RollingWindow)),
   newVisitors |-> totals.newVisitors + new,
   totalVisitors |-> Cardinality({v \in Visitors : firstSeen[v] # Never}) + new,
   sessions |-> totals.sessions + LiveSum("sessions"),
   pageViews |-> totals.pageViews + LiveSum("views")]

-----------------------------------------------------------------------------
(* Properties.                                                             *)

Rows(table) == table \in [Days -> [Visitors -> [audience : {"none", "anonymous", "signed in"},
                                                sessions : Nat, views : Nat]]]

TypeOK ==
  /\ touched \in [Days -> 0 .. LastDay] /\ visited \in [Days -> SUBSET Visitors]
  /\ today \in Days /\ Rows(hashes) /\ Rows(activity) /\ visiting \subseteq Visitors
  /\ firstSeen \in [Visitors -> 0 .. LastDay] /\ started \in 0 .. MaxSyncs
  /\ \A p \in Pings : ping[p].pc \in {"none", "session", "audience", "view", "opened", "expire"}
  /\ \A s \in Syncs : sync[s].pc \in {"none", "pick", "read", "commit", "delete"}
  /\ \A d \in Days : stats[d].saved => d < today

SeenBetween(from, to) == {v \in Visitors : \E d \in Days \cap (from .. to) : v \in visited[d]}
SumSince(from, table) ==
  SumFunction([d \in Days \cap (from .. today) |-> SumFunction(table[d])])

(* Once every earlier day has been synced, and but for pings that came     *)
(* after their day had been and days that no sync finished before their    *)
(* keys expired, the report says what happened: today from Redis and the   *)
(* days before from Postgres are one history, in which nobody is missing   *)
(* or counted twice (getReport).                                           *)
ReportIsExact ==
  missed = {} /\ (\A d \in 1 .. (today - 1) : PresentOn(d) = {}) =>
    /\ \A timeframe \in {"days", "year", "all"} :
         LET from == WindowStart(timeframe) IN
         Report(timeframe) =
           [dau |-> Cardinality(SeenBetween(today, today)),
            mau |-> Cardinality(SeenBetween(Since(today, RollingWindow), today)),
            newVisitors |-> Cardinality(SeenBetween(from, today) \ SeenBetween(1, from - 1)),
            totalVisitors |-> Cardinality(SeenBetween(1, today)),
            sessions |-> SumSince(from, entered), pageViews |-> SumSince(from, counted)]
    /\ LET from == WindowStart("days") IN
       DailySeries(from) =
         [d \in from .. today |-> [dau |-> SeenBetween(d, d),
                                   mau |-> Cardinality(SeenBetween(Since(d, RollingWindow), d))]]
    /\ \A m \in DOMAIN MonthlySeries(WindowStart("year")) :
         MonthlySeries(WindowStart("year"))[m] = Cardinality(SeenBetween(m, m + MonthLength - 1))

-----------------------------------------------------------------------------
(* Statements of the repository's own comments that the code does not keep *)
(* (README, "Known disagreements").                                        *)

(* analytics-sync.service.ts:75: zero sessions of a day "is the true       *)
(* count": a ping that arrives after the sync deleted the day's keys makes *)
(* the next sync overwrite them with what it alone holds.                  *)
ZeroSessionsIsTrue ==
  \A d \in Days, v \in Visitors :
    activity[d][v].views > 0 /\ activity[d][v].sessions = 0 => entered[d][v] = 0

(* analytics-report.service.ts:131: a day with no synced activity "had     *)
(* no visitors": it may be waiting for the sync, or for the next one, or   *)
(* be lost, its keys having expired while every sync failed.               *)
UnsyncedDayHadNoVisitors ==
  \A d \in 1 .. (today - 1) : ~stats[d].saved => SeenBetween(d, d) = {}
=============================================================================
