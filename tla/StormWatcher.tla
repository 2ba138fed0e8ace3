---------------------------- MODULE StormWatcher ----------------------------
(***************************************************************************)
(* The storm watcher: three cron tasks that fetch what the weather service *)
(* (nws), the disaster agency (fema) and the hurricane center (nhc)        *)
(* publish and upsert one row per external id.                             *)
(*                                                                         *)
(* A failed fetch ends the poll and a failed upsert skips its report, both *)
(* without an error.  A report that cannot be normalized, or a time-out,   *)
(* fails the task; its retries start from the fetch, like the next tick.   *)
(* Nothing keeps a poll from overlapping another one of its source.        *)
(*                                                                         *)
(* The number of new storms, which is logged, is left out.                 *)
(***************************************************************************)
EXTENDS Integers

CONSTANTS
    Sources,     \* nws, fema and nhc
    Seasonal,    \* those polled in the hurricane season only: nhc
    Reports,     \* alerts, declarations and positions that may be published
    Keys,        \* external ids
    Source,      \* Source[r]: who publishes r
    Key,         \* Key[r]: the external id of r
    Replaces,    \* Replaces[r]: the reports that r supersedes in its feed
    Malformed,   \* reports that make normalize_* raise
    Irrelevant,  \* reports for which normalize_* answers None
    NoReport,
    NoSource,
    Polls,       \* executions that may be under way at once
    MaxFailures  \* bound: failed upserts and time-outs

Useful == Reports \ (Malformed \cup Irrelevant)

ASSUME StormAssumption ==
    /\ Seasonal \subseteq Sources
    /\ Source \in [Reports -> Sources]
    /\ Key \in [Reports -> Keys]
    /\ Replaces \in [Reports -> SUBSET Reports]
    /\ \A r \in Reports : \A q \in Replaces[r] : Source[q] = Source[r]
    /\ NoReport \notin Reports
    /\ MaxFailures \in Nat

VARIABLES
    feed,       \* feed[s]: the order in which s lists what it publishes
    published,  \* reports that have been published
    season,     \* it is between June and November
    first,      \* first[k]: the report whose states, counties and dates the
                \*   row of k holds, NoReport while there is no row
    latest,     \* latest[k]: the report whose severity and payload it holds
    poll,       \* poll[p]: the poll that p executes
    failures    \* history: failures so far

stormVars == <<first, latest>>
feedVars == <<feed, published, season>>
watcherVars == <<feedVars, stormVars, poll, failures>>

IdlePoll == [source |-> NoSource, todo |-> {}, overtaken |-> FALSE]

StormInit ==
    /\ feed = [s \in Sources |-> {}]
    /\ published = {}
    /\ season \in BOOLEAN
    /\ first = [k \in Keys |-> NoReport]
    /\ latest = [k \in Keys |-> NoReport]
    /\ poll = [p \in Polls |-> IdlePoll]
    /\ failures = 0

\* A list of reports is the set of the pairs <<r, q>> such that q is r or
\* follows r.
On(list) == {e[1] : e \in list}
InFront(r, list) == list \cup {<<r, q>> : q \in On(list) \cup {r}}
Without(list, X) == {e \in list : e[1] \notin X /\ e[2] \notin X}

Listed(r) == r \in On(feed[Source[r]])
Working(p) == poll[p].todo # {}
Current(p, r) ==
    /\ Working(p)
    /\ \A q \in On(poll[p].todo) : <<r, q>> \in poll[p].todo

-----------------------------------------------------------------------------
(* The world                                                               *)

\* The newest report comes first.
Publish(r) ==
    /\ r \notin published
    /\ Replaces[r] \subseteq published
    /\ feed' = [feed EXCEPT ![Source[r]] =
                  InFront(r, Without(@, Replaces[r]))]
    /\ published' = published \cup {r}
    /\ UNCHANGED <<season, stormVars, poll, failures>>

\* An alert ends, a declaration is older than 14 days, a system dissolves.
Withdraw(r) ==
    /\ Listed(r)
    /\ feed' = [feed EXCEPT ![Source[r]] = Without(@, {r})]
    /\ UNCHANGED <<published, season, stormVars, poll, failures>>

TurnSeason ==
    /\ season' = ~season
    /\ UNCHANGED <<feed, published, stormVars, poll, failures>>

-----------------------------------------------------------------------------
(* A poll, from the answer of its source to the last report of it          *)

\* p works on what it was sent, and has overtaken the polls of the source that
\* are under way.
Begin(p, s, reports) ==
    poll' = [q \in Polls |->
               IF q = p THEN [source |-> s, todo |-> reports,
                              overtaken |-> FALSE]
               ELSE [poll[q] EXCEPT !.overtaken =
                       @ \/ (Working(q) /\ poll[q].source = s)]]

\* Mutant of Fetch: the answer ends with a report that is not listed any more.
FetchArchive(p, s) ==
    /\ ~Working(p)
    /\ s \in Seasonal => season
    /\ feed[s] # {}
    /\ \E old \in published :
         /\ Source[old] = s /\ ~Listed(old)
         /\ Begin(p, s, feed[s] \cup {<<r, old>> : r \in On(feed[s]) \cup {old}})
    /\ UNCHANGED <<feedVars, stormVars, failures>>

\* A cron tick, or a retry.  (A poll that finds nothing, or no answer, does
\* nothing; so does one of the hurricane center out of season.  Systems without
\* an id are left out by the load of their basin: they are no reports.)
Fetch(p, s) ==
    /\ ~Working(p)
    /\ s \in Seasonal => season
    /\ feed[s] # {}
    /\ Begin(p, s, feed[s])
    /\ UNCHANGED <<feedVars, stormVars, failures>>

Stop(p) == poll' = [poll EXCEPT ![p] = IdlePoll]

Advance(p, r) ==
    IF On(poll[p].todo) = {r} THEN Stop(p)
    ELSE poll' = [poll EXCEPT ![p].todo = Without(@, {r})]

\* Mutant of Upsert: only the update.
UpdateOnly(k, r) ==
    /\ latest' = [latest EXCEPT ![k] = r]
    /\ UNCHANGED first

Upsert(k, r) ==
    /\ first' = [first EXCEPT ![k] = IF @ = NoReport THEN r ELSE @]
    /\ latest' = [latest EXCEPT ![k] = r]

\* _upsert_storm; a row that exists keeps all but its severity and payload.
RecordStorm(p) ==
    \E r \in Useful :
        /\ Current(p, r)
        /\ Upsert(Key[r], r)
        /\ Advance(p, r)
        /\ UNCHANGED <<feedVars, failures>>

\* The error is logged.
UpsertFails(p) ==
    \E r \in Useful :
        /\ Current(p, r)
        /\ failures < MaxFailures
        /\ failures' = failures + 1
        /\ Advance(p, r)
        /\ UNCHANGED <<feedVars, stormVars>>

\* Mutant of SkipReport: return in place of continue.
SkipRest(p) ==
    \E r \in Irrelevant :
        /\ Current(p, r)
        /\ Stop(p)
        /\ UNCHANGED <<feedVars, stormVars, failures>>

SkipReport(p) ==
    \E r \in Irrelevant :
        /\ Current(p, r)
        /\ Advance(p, r)
        /\ UNCHANGED <<feedVars, stormVars, failures>>

\* normalize_* is called outside the try of the loop: the task fails.
Choke(p) ==
    \E r \in Malformed :
        /\ Current(p, r)
        /\ Stop(p)
        /\ UNCHANGED <<feedVars, stormVars, failures>>

TimeOut(p) ==
    /\ Working(p)
    /\ failures < MaxFailures
    /\ failures' = failures + 1
    /\ Stop(p)
    /\ UNCHANGED <<feedVars, stormVars>>

StormNext ==
    \/ \E r \in Reports : Publish(r) \/ Withdraw(r)
    \/ TurnSeason
    \/ \E p \in Polls :
         \/ \E s \in Sources : Fetch(p, s)
         \/ RecordStorm(p) \/ UpsertFails(p) \/ SkipReport(p)
         \/ Choke(p) \/ TimeOut(p)

\* The crons tick for ever; sooner or later a tick finds a free slot and the
\* source answers; and a poll under way goes on.
StormFairness ==
    /\ \A s \in Sources : SF_watcherVars(\E p \in Polls : Fetch(p, s))
    /\ \A p \in Polls :
         WF_watcherVars(RecordStorm(p) \/ SkipReport(p) \/ Choke(p))

StormSpec == StormInit /\ [][StormNext]_watcherVars /\ StormFairness

-----------------------------------------------------------------------------

\* Every variable has its type, and a row has both of its reports or none.
StormTypeOK ==
    /\ feed \in [Sources -> SUBSET (Reports \X Reports)]
    /\ published \subseteq Reports
    /\ season \in BOOLEAN
    /\ first \in [Keys -> Useful \cup {NoReport}]
    /\ latest \in [Keys -> Useful \cup {NoReport}]
    /\ \A k \in Keys : first[k] = NoReport <=> latest[k] = NoReport
    /\ poll \in [Polls -> [source : Sources \cup {NoSource},
                           todo : SUBSET (Reports \X Reports),
                           overtaken : BOOLEAN]]
    /\ failures \in 0 .. MaxFailures

\* A poll would reach r: no malformed report is ahead of it.
Reachable(r) ==
    LET s == Source[r]
    IN  /\ Listed(r)
        /\ s \in Seasonal => season
        /\ \A q \in Malformed \cap On(feed[s]) : <<r, q>> \in feed[s]

\* A storm whose report stays published is recorded, whatever is published
\* before and after it, unless a malformed report stands ahead of it or, for
\* the hurricane center, the season is over (from time to time suffices).
StormIsRecorded ==
    \A r \in Useful : []<>~Reachable(r) \/ <>(first[Key[r]] # NoReport)

\* The row of a storm goes back to a superseded report only if the poll that
\* wrote it had been overtaken by another of its source.
LatestGoesForward ==
    [][\A k \in Keys :
         latest[k] # NoReport /\ latest'[k] \in Replaces[latest[k]] =>
            \E p \in Polls : Current(p, latest'[k])
                             /\ poll[p].overtaken]_watcherVars

=============================================================================
