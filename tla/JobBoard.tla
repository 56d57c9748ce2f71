------------------------------ MODULE JobBoard ------------------------------
(***************************************************************************)
(* The job board (src/modules/jobs/job-board): a page of live jobs, ranked *)
(* from embeddings, with the ranking of each viewer cached in Redis under  *)
(* a version that goes up when a job goes live or gets an embedding.  A    *)
(* request reads the jobs, the version, the cache, the embeddings, the     *)
(* version again and the candidate's applications, one await after the     *)
(* other; the cache may fail at each.                                      *)
(***************************************************************************)
EXTENDS Naturals, FiniteSets

CONSTANTS
  Jobs,
  Viewers,    \* what rankings are cached by: "guest", or a candidate and a title
  Embedded,   \* viewers with an embedding of their own
  Queries,    \* [matching, applied]: the jobs that pass the filters, and appliedStatus
  Clients,
  MaxVersion  \* bound: invalidations

VARIABLES
  live,       \* jobs that are ACTIVE
  known,      \* jobs with an embedding
  owed,       \* invalidateAll calls still to be made
  version,
  cache,      \* [version, viewer, ids, basis]: rankings, and the embeddings they are from
  submitted,  \* <<viewer, job>> with a completed submission
  call

vars == <<live, known, owed, version, cache, submitted, call>>

Idle == [pc |-> "idle"]
Asking == {c \in Clients : call[c].pc \notin {"idle", "answered"}}

(* History kept with each request: the jobs live all the time and at some  *)
(* time since it arrived, and those applied to before.                     *)
Observe(alive) ==
  call' = [c \in Clients |->
             IF c \in Asking THEN [call[c] EXCEPT !.always = @ \cap alive, !.ever = @ \cup alive]
             ELSE call[c]]

-----------------------------------------------------------------------------
(* Jobs and embeddings.  What calls invalidateAll does so after its write. *)

GoLive(j) ==
  /\ j \notin live /\ version + Cardinality(owed) < MaxVersion
  /\ live' = live \cup {j}
  /\ owed' = owed \cup {j}
  /\ Observe(live')
  /\ UNCHANGED <<known, version, cache, submitted>>

Close(j) ==
  /\ j \in live
  /\ live' = live \ {j}
  /\ Observe(live')
  /\ UNCHANGED <<known, owed, version, cache, submitted>>

Embed(j) ==
  /\ j \in live \ known /\ version + Cardinality(owed) < MaxVersion
  /\ known' = known \cup {j}
  /\ owed' = owed \cup {j}
  /\ UNCHANGED <<live, version, cache, submitted, call>>

(* What is cached under older versions matters only to a request about to  *)
(* read there.                                                             *)
Reachable(rankings, v) ==
  {r \in rankings : r.version = v \/ \E c \in Clients : /\ call[c].pc = "cached"
                                                       /\ call[c].at = r.version}

InvalidateAll(j, fails) ==
  /\ j \in owed
  /\ owed' = owed \ {j}
  /\ version' = IF fails THEN version ELSE version + 1
  /\ cache' = Reachable(cache, version')
  /\ UNCHANGED <<live, known, submitted, call>>

Expire(entry) ==
  /\ cache' = cache \ {entry}
  /\ UNCHANGED <<live, known, owed, version, submitted, call>>

Complete(v, j) ==
  /\ v # "guest" /\ <<v, j>> \notin submitted
  /\ submitted' = submitted \cup {<<v, j>>}
  /\ UNCHANGED <<live, known, owed, version, cache, call>>

-----------------------------------------------------------------------------
(* listPage.                                                               *)

AppliedBy(v) == {j \in Jobs : <<v, j>> \in submitted}

ReadActive(c, v, q) ==
  /\ call[c].pc = "idle"
  /\ call' = [call EXCEPT ![c] =
                [pc |-> "version", viewer |-> v, query |-> q, active |-> live,
                 at |-> 0, ids |-> {}, basis |-> {}, items |-> {}, applied |-> {},
                 always |-> live, ever |-> live, before |-> AppliedBy(v)]]
  /\ UNCHANGED <<live, known, owed, version, cache, submitted>>

Step(c, pc, next) ==
  /\ call[c].pc = pc
  /\ call' = [call EXCEPT ![c] = next]
  /\ UNCHANGED <<live, known, owed, version, submitted>>

(* getRanking: two reads.  Only a ranking of every live job is used.       *)
ReadVersion(c) ==
  Step(c, "version", [call[c] EXCEPT !.pc = "cached", !.at = version]) /\ UNCHANGED cache

Cached(c) == {r \in cache : r.version = call[c].at /\ r.viewer = call[c].viewer}

(* Mutant: whatever is cached is used.                                     *)
UsableAny(c) == Cached(c)

Usable(c) == {r \in Cached(c) : call[c].active \subseteq r.ids}

ReadCached(c) ==
  /\ call[c].pc = "cached"
  /\ IF Usable(c) # {}
     THEN \E r \in Usable(c) :
            Step(c, "cached", [call[c] EXCEPT !.pc = "applied", !.ids = r.ids, !.basis = r.basis])
     ELSE Step(c, "cached", [call[c] EXCEPT !.pc = "rank"])
  /\ UNCHANGED cache

CacheReadFails(c) ==
  /\ \E pc \in {"version", "cached"} : Step(c, pc, [call[c] EXCEPT !.pc = "rank"])
  /\ UNCHANGED cache

(* similaritiesFor and rankJobIds; by recency alone, and not cached, for a *)
(* candidate without an embedding.                                         *)
Rank(c) ==
  LET v == call[c].viewer
      similar == IF v \in Embedded THEN known ELSE {}
  IN
  /\ Step(c, "rank", [call[c] EXCEPT !.ids = call[c].active, !.basis = similar,
                        !.pc = IF v = "guest" \/ similar # {} THEN "stamp" ELSE "applied"])
  /\ UNCHANGED cache

(* setRanking: the version is read after the ranking was computed.         *)
StampRanking(c) ==
  Step(c, "stamp", [call[c] EXCEPT !.pc = "store", !.at = version]) /\ UNCHANGED cache

StoreRanking(c) ==
  /\ Step(c, "store", [call[c] EXCEPT !.pc = "applied"])
  /\ cache' = Reachable((cache \ Cached(c))
                          \cup {[version |-> call[c].at, viewer |-> call[c].viewer,
                                 ids |-> call[c].ids, basis |-> call[c].basis]}, version)

CacheWriteFails(c) ==
  /\ \E pc \in {"stamp", "store"} : Step(c, pc, [call[c] EXCEPT !.pc = "applied"])
  /\ UNCHANGED cache

Selected(c, applied) ==
  {j \in call[c].ids \cap call[c].active \cap call[c].query.matching :
     CASE call[c].query.applied = "applied" -> j \in applied
       [] call[c].query.applied = "not-applied" -> j \notin applied
       [] OTHER -> TRUE}

(* The answer: what the page is cut from, and which of it is applied to.   *)
Answer(c) ==
  LET applied == AppliedBy(call[c].viewer) IN
  /\ Step(c, "applied", [call[c] EXCEPT !.pc = "answered", !.items = Selected(c, applied),
                           !.applied = applied])
  /\ UNCHANGED cache

Forget(c) == Step(c, "answered", Idle) /\ UNCHANGED cache

-----------------------------------------------------------------------------

Init ==
  /\ live = {} /\ known = {} /\ owed = {} /\ version = 0 /\ cache = {} /\ submitted = {}
  /\ call = [c \in Clients |-> Idle]

Handle(c) ==
  \/ \E v \in Viewers, q \in Queries : ReadActive(c, v, q)
  \/ ReadVersion(c) \/ ReadCached(c) \/ CacheReadFails(c)
  \/ Rank(c) \/ StampRanking(c) \/ StoreRanking(c) \/ CacheWriteFails(c)
  \/ Answer(c) \/ Forget(c)

Next ==
  \/ \E j \in Jobs :
       \/ GoLive(j) \/ Close(j) \/ Embed(j)
       \/ \E fails \in BOOLEAN : InvalidateAll(j, fails)
       \/ \E v \in Viewers : Complete(v, j)
  \/ \E entry \in cache : Expire(entry)
  \/ \E c \in Clients : Handle(c)

Spec == Init /\ [][Next]_vars

-----------------------------------------------------------------------------
(* Properties.                                                             *)

TypeOK ==
  /\ live \subseteq Jobs /\ known \subseteq Jobs /\ owed \subseteq Jobs
  /\ version \in 0 .. MaxVersion
  /\ cache \subseteq [version : 0 .. MaxVersion, viewer : Viewers,
                      ids : SUBSET Jobs, basis : SUBSET Jobs]
  /\ submitted \subseteq Viewers \X Jobs
  /\ \A c \in Clients :
       call[c].pc \in {"idle", "version", "cached", "rank", "stamp", "store", "applied",
                       "answered"}

Wanted(c, j) ==
  /\ j \in call[c].query.matching
  /\ call[c].query.applied # "all" =>
       (call[c].query.applied = "applied") = (j \in call[c].applied)

(* "A new application or a closed job shows straight away; only the        *)
(* ranking itself is cached": whatever is in the cache, and whatever       *)
(* changes while the request runs, the answer has every job asked for that *)
(* was live all the time and none that was not live at any, and knows the  *)
(* applications made before the request came (listPage, rankedIds).        *)
BoardIsCurrent ==
  \A c \in Clients : call[c].pc = "answered" =>
    /\ call[c].before \subseteq call[c].applied
    /\ {j \in call[c].always : Wanted(c, j)} \subseteq call[c].items
    /\ call[c].items \subseteq {j \in call[c].ever : Wanted(c, j)}

-----------------------------------------------------------------------------
(* Statements of the repository's own comments that the code does not keep *)
(* (README, "Known disagreements").                                        *)

(* job-board-cache.service.ts:59: once a job's embedding has changed and   *)
(* the rankings were invalidated, "every cached ranking is now stale": one *)
(* that was computed before is saved under the new version.                *)
NoRankingOutlivesItsEmbeddings ==
  owed = {} => \A r \in cache : r.version = version /\ r.viewer \in Embedded => r.basis = known
=============================================================================
