-------------------------- MODULE BackgroundProofs --------------------------
(***************************************************************************)
(* Theorems about the parts of Background, for any jobs, candidates,       *)
(* clients, passes and bounds: a page of the job board is current, nobody  *)
(* is told of a job twice, no activation is missed, the visitor report is  *)
(* exact, and every part keeps its type.                                   *)
(***************************************************************************)
EXTENDS Background, PaymentsProofs, Sequences, Sums, FiniteSetTheorems, WellFoundedInduction, TLAPS

-----------------------------------------------------------------------------
(* Recommendation passes.  Types.                                          *)

Pcs == {"none", "window", "jobs", "sync", "match", "optouts", "save", "email", "finish", "ended"}
Statuses == {"none", "RUNNING", "SUCCEEDED", "FAILED"}
PassRecords ==
  [pc : Pcs, from : 0 .. MaxTime, jobs : SUBSET Submissions, read : SUBSET Recommend!Stamps,
   matches : SUBSET Recommend!Pairs, silent : SUBSET Candidates, toTell : SUBSET Recommend!Pairs]
RunRecords == [status : Statuses, startedAt : 0 .. MaxTime]

WorldTyped ==
  /\ now \in 1 .. MaxTime /\ open \subseteq Submissions /\ activating \subseteq Recommend!Stamps
  /\ activatedAt \in [Submissions -> 0 .. MaxTime]
  /\ eligible \subseteq Candidates /\ optedOut \subseteq Candidates
  /\ applied \subseteq Recommend!Pairs
  /\ embedded \subseteq Candidates \cup Submissions
  /\ timely \subseteq Recommend!Stamps /\ covered \subseteq Recommend!Stamps /\ origin \in 0 .. MaxTime

ToldTyped ==
  /\ recommended \subseteq Recommend!Pairs
  /\ notified \in [Recommend!Pairs -> Nat] /\ emailed \in [Recommend!Pairs -> Nat]

PassesTyped ==
  /\ runs \in [Passes -> RunRecords]
  /\ pass \in [Passes -> PassRecords]

(* The edits of a pass.                                                    *)
LEMMA PassEdits ==
  ASSUME NEW r \in PassRecords
  PROVE  /\ \A pc \in Pcs : [r EXCEPT !.pc = pc] \in PassRecords
         /\ \A pc \in Pcs, n \in 0 .. MaxTime : [r EXCEPT !.pc = pc, !.from = n] \in PassRecords
         /\ \A pc \in Pcs, jobs \in SUBSET Submissions, read \in SUBSET Recommend!Stamps :
              [r EXCEPT !.jobs = jobs, !.read = read, !.pc = pc] \in PassRecords
         /\ \A pc \in Pcs, matches \in SUBSET Recommend!Pairs :
              [r EXCEPT !.pc = pc, !.matches = matches] \in PassRecords
         /\ \A pc \in Pcs, silent \in SUBSET Candidates :
              [r EXCEPT !.pc = pc, !.silent = silent] \in PassRecords
         /\ \A pc \in Pcs, toTell \in SUBSET Recommend!Pairs :
              [r EXCEPT !.pc = pc, !.toTell = toTell] \in PassRecords
         /\ \A toTell \in SUBSET Recommend!Pairs : [r EXCEPT !.toTell = toTell] \in PassRecords
BY DEF PassRecords

LEMMA EndedTyped == Recommend!Ended \in PassRecords /\ [Recommend!Ended EXCEPT !.pc = "none"] \in PassRecords
BY TimeAssumption DEF Recommend!Ended, PassRecords, Pcs, Recommend!Never

LEMMA BumpTyped ==
  ASSUME NEW counts \in [Recommend!Pairs -> Nat], NEW pairs
  PROVE  /\ Recommend!Bump(counts, pairs) \in [Recommend!Pairs -> Nat]
         /\ \A m \in Recommend!Pairs :
              Recommend!Bump(counts, pairs)[m] = IF m \in pairs THEN counts[m] + 1 ELSE counts[m]
BY DEF Recommend!Bump

(* The latest of some times, where there is one.                           *)
HasLatest(times) == times = {} \/ \E t \in times : \A u \in times : u <= t

LEMMA LatestIs ==
  ASSUME NEW times \in SUBSET Nat, HasLatest(times)
  PROVE  /\ Recommend!Latest(times) \in Nat
         /\ \A u \in times : u <= Recommend!Latest(times)
         /\ times # {} => Recommend!Latest(times) \in times
         /\ times = {} => Recommend!Latest(times) = 0
BY DEF HasLatest, Recommend!Latest, Recommend!Never

LEMMA OneMore ==
  ASSUME NEW times \in SUBSET Nat, HasLatest(times), NEW n \in Nat
  PROVE  /\ HasLatest(times \cup {n})
         /\ Recommend!Latest(times) <= Recommend!Latest(times \cup {n})
         /\ n <= Recommend!Latest(times \cup {n})
         /\ Recommend!Latest(times \cup {n}) \in {Recommend!Latest(times), n}
<1>1. HasLatest(times \cup {n})
  <2>1. CASE times = {}
    BY <2>1 DEF HasLatest
  <2>2. CASE times # {}
    <3>1. PICK t \in times : \A u \in times : u <= t
      BY <2>2 DEF HasLatest
    <3>2. CASE n <= t
      BY <3>1, <3>2 DEF HasLatest
    <3>3. CASE ~(n <= t)
      <4>1. \A u \in times \cup {n} : u <= n
        BY <3>1, <3>3
      <4>. QED
        BY <4>1 DEF HasLatest
    <3>. QED
      BY <3>2, <3>3
  <2>. QED
    BY <2>1, <2>2
<1>2. times \cup {n} \in SUBSET Nat /\ times \cup {n} # {}
  OBVIOUS
<1>. DEFINE l == Recommend!Latest(times)
            k == Recommend!Latest(times \cup {n})
<1>3. /\ l \in Nat /\ (\A u \in times : u <= l) /\ (times # {} => l \in times) /\ (times = {} => l = 0)
      /\ k \in Nat /\ (\A u \in times \cup {n} : u <= k) /\ k \in times \cup {n}
  BY <1>1, <1>2, LatestIs
<1>. HIDE DEF l, k
<1>4. l <= k /\ n <= k /\ k \in {l, n}
  BY <1>3
<1>. QED
  BY <1>1, <1>4 DEF l, k

-----------------------------------------------------------------------------
(* A pass whose row says SUCCEEDED has ended, and one at work says RUNNING. *)
RowsFollow ==
  \A p \in Passes : /\ pass[p].pc = "none" => runs[p].status = "none"
                    /\ pass[p].pc \notin {"none", "ended"} => runs[p].status = "RUNNING"

Starts == Recommend!StartsOf(Recommend!Succeeded)
Last == Recommend!LastSucceededStart

(* What runs carries.                                                      *)
RunsInv == PassesTyped /\ RowsFollow /\ HasLatest(Starts)

LEMMA StartsFacts ==
  ASSUME RunsInv
  PROVE  /\ Starts \subseteq 0 .. MaxTime
         /\ Last \in 0 .. MaxTime /\ Last = Recommend!Latest(Starts)
         /\ \A p \in Passes : runs[p].status = "SUCCEEDED" => runs[p].startedAt <= Last
         /\ Last # 0 => Last \in Starts
<1>1. \A p \in Passes : runs[p].startedAt \in 0 .. MaxTime
  BY DEF RunsInv, PassesTyped, RunRecords
<1>2. Starts \subseteq 0 .. MaxTime /\ \A p \in Passes : runs[p].status = "SUCCEEDED" => runs[p].startedAt \in Starts
  BY <1>1 DEF Starts, Recommend!StartsOf, Recommend!Succeeded
<1>3. Starts \in SUBSET Nat /\ HasLatest(Starts)
  BY <1>2, TimeAssumption DEF RunsInv
<1>4. Last = Recommend!Latest(Starts)
  BY DEF Last, Starts, Recommend!LastSucceededStart
<1>5. /\ Last \in Nat /\ (\A u \in Starts : u <= Last) /\ (Starts # {} => Last \in Starts)
      /\ (Starts = {} => Last = 0)
  BY <1>3, <1>4, LatestIs
<1>6. Last \in 0 .. MaxTime
  BY <1>2, <1>5, TimeAssumption
<1>. QED
  BY <1>2, <1>4, <1>5, <1>6

(* Only Finish adds to the starts of the successful passes.                *)
StartsStay == Starts' = Starts /\ Last' = Last

LEMMA StartsKept ==
  ASSUME RunsInv, \A p \in Passes : /\ (runs'[p].status = "SUCCEEDED") = (runs[p].status = "SUCCEEDED")
                                    /\ runs[p].status = "SUCCEEDED" => runs'[p].startedAt = runs[p].startedAt
  PROVE  StartsStay
<1>1. Starts' = Starts
  BY DEF Starts, Recommend!StartsOf, Recommend!Succeeded
<1>. QED
  BY <1>1 DEF StartsStay, Last, Starts, Recommend!LastSucceededStart

(* Steps of the world leave the passes and what they have told.            *)
Quiet == runs' = runs /\ pass' = pass

LEMMA WorldSteps ==
  ASSUME \/ Recommend!Tick
         \/ \E j \in Submissions : Recommend!BeginActivation(j) \/ Recommend!Close(j) \/ Recommend!Reopen(j)
         \/ \E a \in activating : Recommend!CommitActivation(a)
         \/ \E c \in Candidates :
              \/ Recommend!CompleteProfile(c)
              \/ \E j \in Submissions : Recommend!Apply(c, j)
              \/ \E on \in BOOLEAN : Recommend!SetPreference(c, on)
         \/ UNCHANGED recommendVars
  PROVE  Quiet /\ UNCHANGED <<embedded, recommended, notified, emailed, covered, origin>>
BY DEF Recommend!Tick, Recommend!BeginActivation, Recommend!Close, Recommend!Reopen, Recommend!CommitActivation,
   Recommend!CompleteProfile, Recommend!Apply, Recommend!SetPreference, recommendVars, Quiet, Recommend!told

LEMMA PassesStayTyped ==
  ASSUME RunsInv, WorldTyped, NEW p \in Passes, Recommend!PassStep(p)
  PROVE  /\ runs' \in [Passes -> RunRecords]
         /\ pass' \in [Passes -> PassRecords]
<1>1. PICK old \in PassRecords : old = pass[p]
  BY DEF RunsInv, PassesTyped
<1>2. PICK row \in RunRecords : row = runs[p]
  BY DEF RunsInv, PassesTyped
<1>3. now \in 0 .. MaxTime
  BY TimeAssumption DEF WorldTyped
<1>4. ASSUME NEW new \in PassRecords, pass' = [pass EXCEPT ![p] = new]
      PROVE  pass' \in [Passes -> PassRecords]
  BY <1>4 DEF RunsInv, PassesTyped
<1>5. ASSUME NEW new \in RunRecords, runs' = [runs EXCEPT ![p] = new]
      PROVE  runs' \in [Passes -> RunRecords]
  BY <1>5 DEF RunsInv, PassesTyped
<1>6. ASSUME runs' = runs PROVE runs' \in [Passes -> RunRecords]
  BY <1>6 DEF RunsInv, PassesTyped
<1>7. \A pc \in Pcs : [old EXCEPT !.pc = pc] \in PassRecords
  BY PassEdits
<1>8. CASE Recommend!StartPass(p)
  <2>1. [status |-> "RUNNING", startedAt |-> now] \in RunRecords
    BY <1>3 DEF RunRecords, Statuses
  <2>2. runs' = [runs EXCEPT ![p] = [status |-> "RUNNING", startedAt |-> now]]
    BY <1>8 DEF Recommend!StartPass
  <2>3. pass' = [pass EXCEPT ![p] = [old EXCEPT !.pc = "window"]]
    BY <1>1, <1>8 DEF Recommend!StartPass, Recommend!Goto
  <2>. QED
    BY <2>1, <2>2, <2>3, <1>4, <1>5, <1>7 DEF Pcs
<1>9. CASE Recommend!ReadWindow(p)
  <2>1. PICK n : n = IF Last = 0 THEN row.startedAt ELSE Last
    OBVIOUS
  <2>2. n \in 0 .. MaxTime
    BY <2>1, <1>2, StartsFacts DEF RunRecords
  <2>3. pass' = [pass EXCEPT ![p] = [old EXCEPT !.pc = "jobs", !.from = n]]
    BY <1>1, <1>2, <1>9, <2>1 DEF Recommend!ReadWindow, Last, Recommend!Never
  <2>4. [old EXCEPT !.pc = "jobs", !.from = n] \in PassRecords
    BY <2>2, PassEdits DEF Pcs
  <2>. QED
    BY <2>3, <2>4, <1>4, <1>6, <1>9 DEF Recommend!ReadWindow
<1>10. CASE Recommend!FindJobs(p)
  <2>1. PICK found : found = Recommend!ActivatedBetween(old.from, row.startedAt)
    OBVIOUS
  <2>2. found \in SUBSET Submissions
    BY <2>1 DEF Recommend!ActivatedBetween, WorldTyped
  <2>3. PICK read : read = Recommend!Stamped(found)
    OBVIOUS
  <2>4. read \in SUBSET Recommend!Stamps
    <3>1. \A j \in found : activatedAt[j] \in 1 .. MaxTime
      BY <1>1, <2>1 DEF Recommend!ActivatedBetween, WorldTyped, PassRecords
    <3>. QED
      BY <2>2, <2>3, <3>1 DEF Recommend!Stamped, Recommend!Stamps
  <2>5. PICK pc \in Pcs : pc = IF found = {} THEN "finish" ELSE "sync"
    BY DEF Pcs
  <2>6. pass' = [pass EXCEPT ![p] = [old EXCEPT !.jobs = found, !.read = read, !.pc = pc]]
    BY <1>1, <1>2, <1>10, <2>1, <2>3, <2>5 DEF Recommend!FindJobs
  <2>7. [old EXCEPT !.jobs = found, !.read = read, !.pc = pc] \in PassRecords
    BY <2>2, <2>4, PassEdits
  <2>. QED
    BY <2>6, <2>7, <1>4, <1>6, <1>10 DEF Recommend!FindJobs
<1>11. CASE Recommend!SyncEmbeddings(p)
  BY <1>1, <1>4, <1>6, <1>7, <1>11 DEF Recommend!SyncEmbeddings, Recommend!Goto, Pcs
<1>12. CASE Recommend!FindMatches(p)
  <2>1. PICK matches : /\ matches \in SUBSET Recommend!Pairs
                       /\ pass' = [pass EXCEPT ![p].pc = "optouts", ![p].matches = matches]
    BY <1>12 DEF Recommend!FindMatches
  <2>2. pass' = [pass EXCEPT ![p] = [old EXCEPT !.pc = "optouts", !.matches = matches]]
    BY <1>1, <2>1
  <2>3. [old EXCEPT !.pc = "optouts", !.matches = matches] \in PassRecords
    BY <2>1, PassEdits DEF Pcs
  <2>. QED
    BY <2>2, <2>3, <1>4, <1>6, <1>12 DEF Recommend!FindMatches
<1>13. CASE Recommend!ReadOptOuts(p)
  <2>1. [old EXCEPT !.pc = "save", !.silent = optedOut] \in PassRecords
    BY PassEdits DEF Pcs, WorldTyped
  <2>2. pass' = [pass EXCEPT ![p] = [old EXCEPT !.pc = "save", !.silent = optedOut]]
    BY <1>1, <1>13 DEF Recommend!ReadOptOuts
  <2>. QED
    BY <2>1, <2>2, <1>4, <1>6, <1>13 DEF Recommend!ReadOptOuts
<1>14. CASE Recommend!Save(p)
  <2>1. PICK toTell : toTell = Recommend!Notifiable(p, old.matches \ recommended)
    OBVIOUS
  <2>2. toTell \in SUBSET Recommend!Pairs
    BY <1>1, <2>1 DEF Recommend!Notifiable, PassRecords
  <2>3. [old EXCEPT !.pc = "email", !.toTell = toTell] \in PassRecords
    BY <2>2, PassEdits DEF Pcs
  <2>4. pass' = [pass EXCEPT ![p] = [old EXCEPT !.pc = "email", !.toTell = toTell]]
    BY <1>1, <1>14, <2>1 DEF Recommend!Save
  <2>. QED
    BY <2>3, <2>4, <1>4, <1>6, <1>14 DEF Recommend!Save
<1>15. CASE Recommend!EmailsDone(p)
  BY <1>1, <1>4, <1>6, <1>7, <1>15 DEF Recommend!EmailsDone, Recommend!Goto, Pcs
<1>16. CASE Recommend!Finish(p)
  <2>1. PICK new \in RunRecords : new = [row EXCEPT !.status = "SUCCEEDED"]
    BY <1>2 DEF RunRecords, Statuses
  <2>2. runs' = [runs EXCEPT ![p] = new] /\ pass' = [pass EXCEPT ![p] = Recommend!Ended]
    BY <1>2, <1>16, <2>1 DEF Recommend!Finish
  <2>. QED
    BY <2>2, <1>4, <1>5, EndedTyped
<1>17. CASE Recommend!Die(p)
  BY <1>4, <1>6, <1>17, EndedTyped DEF Recommend!Die
<1>18. ASSUME NEW c \in Candidates, NEW fails \in BOOLEAN, Recommend!SendEmail(p, c, fails)
       PROVE  pass' \in [Passes -> PassRecords] /\ runs' = runs
  <2>1. PICK rest : rest = old.toTell \ {m \in old.toTell : m[1] = c}
    OBVIOUS
  <2>2. rest \in SUBSET Recommend!Pairs
    BY <2>1 DEF PassRecords
  <2>3. [old EXCEPT !.toTell = rest] \in PassRecords
    BY <2>2, PassEdits
  <2>4. pass' = [pass EXCEPT ![p] = [old EXCEPT !.toTell = rest]] /\ runs' = runs
    BY <1>1, <1>18, <2>1 DEF Recommend!SendEmail
  <2>. QED
    BY <2>3, <2>4, <1>4
<1>19. ASSUME NEW recorded \in BOOLEAN, Recommend!Fail(p, recorded)
       PROVE  pass' \in [Passes -> PassRecords] /\ runs' \in [Passes -> RunRecords]
  <2>1. PICK new \in RunRecords : new = [row EXCEPT !.status = "FAILED"]
    BY <1>2 DEF RunRecords, Statuses
  <2>2. runs' = [runs EXCEPT ![p] = new] \/ runs' = runs
    BY <1>2, <1>19, <2>1 DEF Recommend!Fail
  <2>3. pass' = [pass EXCEPT ![p] = Recommend!Ended]
    BY <1>19 DEF Recommend!Fail
  <2>. QED
    BY <2>2, <2>3, <1>4, <1>5, <1>6, EndedTyped
<1>. QED
  BY <1>6, <1>8, <1>9, <1>10, <1>11, <1>12, <1>13, <1>14, <1>15, <1>16, <1>17, <1>18, <1>19 DEF Recommend!PassStep

(* A step of a pass starts it, takes it further, or ends it.               *)
AtWork(pc) == pc \in Pcs \ {"none", "ended"}

Starting(p) == pass[p].pc = "none" /\ pass'[p].pc = "window" /\ runs'[p].status = "RUNNING"
Working(p) == AtWork(pass[p].pc) /\ AtWork(pass'[p].pc) /\ runs' = runs
Dropping(p) == /\ AtWork(pass[p].pc) /\ pass'[p] = Recommend!Ended
               /\ runs'[p].status \in {runs[p].status, "FAILED"} /\ runs'[p].startedAt = runs[p].startedAt

LEMMA PassShape ==
  ASSUME RunsInv, NEW p \in Passes, Recommend!PassStep(p)
  PROVE  /\ \A q \in Passes \ {p} : pass'[q] = pass[q] /\ runs'[q] = runs[q]
         /\ Starting(p) \/ Working(p) \/ Dropping(p) \/ Recommend!Finish(p)
<1>. USE DEF RunsInv, PassesTyped, Recommend!At, Recommend!Goto
<1>1. /\ pass \in [Passes -> PassRecords] /\ runs \in [Passes -> RunRecords]
      /\ pass[p].pc \in Pcs
  BY DEF PassRecords
<1>2. ASSUME Recommend!StartPass(p)
      PROVE  Starting(p) /\ \A q \in Passes \ {p} : pass'[q] = pass[q] /\ runs'[q] = runs[q]
  BY <1>1, <1>2 DEF Recommend!StartPass, Starting, PassRecords
<1>3. ASSUME \/ Recommend!ReadWindow(p) \/ Recommend!FindJobs(p) \/ Recommend!SyncEmbeddings(p)
             \/ Recommend!FindMatches(p) \/ Recommend!ReadOptOuts(p) \/ Recommend!Save(p) \/ Recommend!EmailsDone(p)
             \/ \E c \in Candidates, fails \in BOOLEAN : Recommend!SendEmail(p, c, fails)
      PROVE  Working(p) /\ \A q \in Passes \ {p} : pass'[q] = pass[q] /\ runs'[q] = runs[q]
  <2>1. runs' = runs
    BY <1>3 DEF Recommend!ReadWindow, Recommend!FindJobs, Recommend!SyncEmbeddings, Recommend!FindMatches,
       Recommend!ReadOptOuts, Recommend!Save, Recommend!EmailsDone, Recommend!SendEmail
  <2>2. \A q \in Passes \ {p} : pass'[q] = pass[q]
    BY <1>1, <1>3 DEF Recommend!ReadWindow, Recommend!FindJobs, Recommend!SyncEmbeddings, Recommend!FindMatches,
       Recommend!ReadOptOuts, Recommend!Save, Recommend!EmailsDone, Recommend!SendEmail
  <2>3. AtWork(pass[p].pc)
    BY <1>1, <1>3 DEF Recommend!ReadWindow, Recommend!FindJobs, Recommend!SyncEmbeddings, Recommend!FindMatches,
       Recommend!ReadOptOuts, Recommend!Save, Recommend!EmailsDone, Recommend!SendEmail, AtWork, Pcs
  <2>4. PICK old \in PassRecords : old = pass[p]
    BY <1>1
  <2>5. AtWork(pass'[p].pc)
    <3>1. CASE \E c \in Candidates, fails \in BOOLEAN : Recommend!SendEmail(p, c, fails)
      BY <1>1, <2>3, <2>4, <3>1 DEF Recommend!SendEmail, PassRecords
    <3>2. CASE Recommend!FindMatches(p)
      BY <1>1, <2>4, <3>2 DEF Recommend!FindMatches, PassRecords, AtWork, Pcs
    <3>3. CASE Recommend!FindJobs(p)
      BY <1>1, <2>4, <3>3 DEF Recommend!FindJobs, PassRecords, AtWork, Pcs
    <3>4. CASE Recommend!ReadWindow(p)
      BY <1>1, <2>4, <3>4 DEF Recommend!ReadWindow, PassRecords, AtWork, Pcs
    <3>5. CASE Recommend!SyncEmbeddings(p) \/ Recommend!EmailsDone(p)
      BY <1>1, <2>4, <3>5 DEF Recommend!SyncEmbeddings, Recommend!EmailsDone, PassRecords, AtWork, Pcs
    <3>6. CASE Recommend!ReadOptOuts(p) \/ Recommend!Save(p)
      BY <1>1, <2>4, <3>6 DEF Recommend!ReadOptOuts, Recommend!Save, PassRecords, AtWork, Pcs
    <3>. QED
      BY <1>3, <3>1, <3>2, <3>3, <3>4, <3>5, <3>6
  <2>. QED
    BY <2>1, <2>2, <2>3, <2>5 DEF Working
<1>4. ASSUME Recommend!Finish(p)
      PROVE  \A q \in Passes \ {p} : pass'[q] = pass[q] /\ runs'[q] = runs[q]
  BY <1>1, <1>4 DEF Recommend!Finish
<1>5. ASSUME Recommend!Die(p) \/ \E recorded \in BOOLEAN : Recommend!Fail(p, recorded)
      PROVE  Dropping(p) /\ \A q \in Passes \ {p} : pass'[q] = pass[q] /\ runs'[q] = runs[q]
  <2>1. PICK row \in RunRecords : row = runs[p]
    BY <1>1
  <2>2. AtWork(pass[p].pc)
    BY <1>1, <1>5 DEF Recommend!Die, Recommend!Fail, AtWork, Pcs
  <2>3. runs' = runs \/ runs' = [runs EXCEPT ![p] = [row EXCEPT !.status = "FAILED"]]
    BY <1>5, <2>1 DEF Recommend!Die, Recommend!Fail
  <2>4. pass' = [pass EXCEPT ![p] = Recommend!Ended]
    BY <1>5 DEF Recommend!Die, Recommend!Fail
  <2>5. [row EXCEPT !.status = "FAILED"].status = "FAILED" /\ [row EXCEPT !.status = "FAILED"].startedAt = row.startedAt
    BY DEF RunRecords
  <2>. QED
    BY <1>1, <2>1, <2>2, <2>3, <2>4, <2>5 DEF Dropping
<1>. QED
  BY <1>2, <1>3, <1>4, <1>5 DEF Recommend!PassStep

(* What each of the four does to the rows and the starts of the successes. *)
LEMMA RunsFollow ==
  ASSUME RunsInv, NEW p \in Passes, Recommend!PassStep(p)
  PROVE  /\ RowsFollow' /\ HasLatest(Starts')
         /\ ~Recommend!Finish(p) => StartsStay
         /\ Recommend!Finish(p) => /\ Starts' = Starts \cup {runs[p].startedAt}
                                   /\ runs'[p].startedAt = runs[p].startedAt
<1>1. /\ pass \in [Passes -> PassRecords] /\ runs \in [Passes -> RunRecords]
      /\ \A q \in Passes \ {p} : pass'[q] = pass[q] /\ runs'[q] = runs[q]
  BY PassShape DEF RunsInv, PassesTyped
<1>2. Recommend!Ended.pc = "ended"
  BY DEF Recommend!Ended
<1>3. CASE Recommend!Finish(p)
  <2>1. PICK row \in RunRecords : row = runs[p]
    BY <1>1
  <2>2. /\ pass'[p].pc = "ended" /\ runs' = [runs EXCEPT ![p] = [row EXCEPT !.status = "SUCCEEDED"]]
    BY <1>1, <1>2, <1>3, <2>1 DEF Recommend!Finish
  <2>3. runs'[p].status = "SUCCEEDED" /\ runs'[p].startedAt = row.startedAt
    BY <1>1, <2>2 DEF RunRecords
  <2>4. Starts' = Starts \cup {row.startedAt}
    BY <1>1, <2>3, <2>1 DEF Starts, Recommend!StartsOf, Recommend!Succeeded, RunsInv, RowsFollow, Recommend!Finish, Recommend!At
  <2>5. RowsFollow'
    BY <1>1, <2>2 DEF RowsFollow, RunsInv
  <2>6. HasLatest(Starts') /\ row.startedAt \in Nat
    BY <2>4, OneMore, StartsFacts, TimeAssumption DEF RunRecords, RunsInv
  <2>. QED
    BY <1>3, <2>1, <2>3, <2>4, <2>5, <2>6
<1>4. CASE ~Recommend!Finish(p)
  <2>1. Starting(p) \/ Working(p) \/ Dropping(p)
    BY <1>4, PassShape
  <2>2. RowsFollow'
    BY <1>1, <1>2, <2>1 DEF RowsFollow, RunsInv, Starting, Working, Dropping, AtWork
  <2>3. \A q \in Passes : /\ (runs'[q].status = "SUCCEEDED") = (runs[q].status = "SUCCEEDED")
                          /\ runs[q].status = "SUCCEEDED" => runs'[q].startedAt = runs[q].startedAt
    BY <1>1, <2>1 DEF RowsFollow, RunsInv, Starting, Working, Dropping, AtWork
  <2>4. StartsStay
    BY <2>3, StartsKept
  <2>. QED
    BY <1>4, <2>2, <2>4 DEF StartsStay, RunsInv
<1>. QED
  BY <1>3, <1>4

LEMMA NextRuns ==
  ASSUME RunsInv, WorldTyped, [Recommend!Next]_recommendVars
  PROVE  RunsInv'
<1>1. ASSUME NEW p \in Passes, Recommend!PassStep(p) PROVE RunsInv'
  BY <1>1, RunsFollow, PassesStayTyped DEF RunsInv, PassesTyped
<1>2. ASSUME Quiet PROVE RunsInv'
  <2>1. StartsStay
    BY <1>2, StartsKept DEF Quiet
  <2>. QED
    BY <1>2, <2>1 DEF RunsInv, PassesTyped, RowsFollow, Quiet, StartsStay
<1>. QED
  BY <1>1, <1>2, WorldSteps DEF Recommend!Next

-----------------------------------------------------------------------------
(* Recommendation passes: who has been told.                               *)

(* What a pass has still to email was saved and notified by that pass      *)
(* alone, and nobody has emailed it yet.                                   *)
ToldInv ==
  /\ ToldTyped
  /\ \A m \in Recommend!Pairs : notified[m] + emailed[m] > 0 => m \in recommended
  /\ \A m \in Recommend!Pairs : notified[m] <= 1 /\ emailed[m] <= notified[m]
  /\ \A p \in Passes : \A m \in pass[p].toTell :
       /\ m \in recommended /\ notified[m] = 1 /\ emailed[m] = 0
       /\ \A q \in Passes \ {p} : m \notin pass[q].toTell

LEMMA ToldStays ==
  ASSUME ToldInv, UNCHANGED <<recommended, notified, emailed>>,
         \A q \in Passes : pass'[q].toTell \subseteq pass[q].toTell
  PROVE  ToldInv'
BY DEF ToldInv, ToldTyped

(* The steps that tell nobody keep what is to be told or forget it.        *)
LEMMA TellingFrame ==
  ASSUME RunsInv, NEW p \in Passes, Recommend!PassStep(p)
  PROVE  \/ Recommend!Save(p)
         \/ \E c \in Candidates, fails \in BOOLEAN : Recommend!SendEmail(p, c, fails)
         \/ /\ UNCHANGED <<recommended, notified, emailed>>
            /\ \A q \in Passes : pass'[q].toTell \subseteq pass[q].toTell
<1>. USE DEF Recommend!told, Recommend!Goto
<1>1. \A q \in Passes \ {p} : pass'[q] = pass[q]
  BY PassShape
<1>2. PICK old \in PassRecords : old = pass[p]
  BY DEF RunsInv, PassesTyped
<1>3. pass \in [Passes -> PassRecords]
  BY DEF RunsInv, PassesTyped
<1>4. Recommend!Ended.toTell = {}
  BY DEF Recommend!Ended
<1>5. CASE Recommend!StartPass(p) \/ Recommend!SyncEmbeddings(p) \/ Recommend!EmailsDone(p)
  BY <1>1, <1>2, <1>3, <1>5 DEF Recommend!StartPass, Recommend!SyncEmbeddings, Recommend!EmailsDone, PassRecords
<1>6. CASE Recommend!ReadWindow(p) \/ Recommend!ReadOptOuts(p)
  BY <1>1, <1>2, <1>3, <1>6 DEF Recommend!ReadWindow, Recommend!ReadOptOuts, PassRecords
<1>7. CASE Recommend!FindJobs(p)
  BY <1>1, <1>2, <1>3, <1>7 DEF Recommend!FindJobs, PassRecords
<1>8. CASE Recommend!FindMatches(p)
  <2>1. PICK matches : pass' = [pass EXCEPT ![p].pc = "optouts", ![p].matches = matches]
    BY <1>8 DEF Recommend!FindMatches
  <2>2. pass'[p].toTell = old.toTell
    BY <1>2, <1>3, <2>1 DEF PassRecords
  <2>. QED
    BY <1>1, <1>2, <1>8, <2>2 DEF Recommend!FindMatches
<1>9. CASE Recommend!Finish(p) \/ Recommend!Die(p) \/ \E recorded \in BOOLEAN : Recommend!Fail(p, recorded)
  BY <1>1, <1>2, <1>3, <1>4, <1>9 DEF Recommend!Finish, Recommend!Die, Recommend!Fail
<1>. QED
  BY <1>5, <1>6, <1>7, <1>8, <1>9 DEF Recommend!PassStep

LEMMA SaveTells ==
  ASSUME RunsInv, ToldInv, NEW p \in Passes, Recommend!Save(p)
  PROVE  ToldInv'
<1>1. PICK old \in PassRecords : old = pass[p]
  BY DEF RunsInv, PassesTyped
<1>2. PICK toTell : toTell = Recommend!Notifiable(p, old.matches \ recommended)
  OBVIOUS
<1>3. toTell \subseteq old.matches \ recommended /\ old.matches \subseteq Recommend!Pairs
  BY <1>2 DEF Recommend!Notifiable, PassRecords
<1>4. /\ recommended' = recommended \cup old.matches /\ emailed' = emailed
      /\ notified' = Recommend!Bump(notified, toTell)
      /\ pass' = [pass EXCEPT ![p] = [old EXCEPT !.pc = "email", !.toTell = toTell]]
  BY <1>1, <1>2 DEF Recommend!Save
<1>5. /\ pass'[p].toTell = toTell
      /\ \A q \in Passes \ {p} : pass'[q] = pass[q]
  BY <1>4 DEF RunsInv, PassesTyped, PassRecords
<1>6. /\ notified' \in [Recommend!Pairs -> Nat]
      /\ \A m \in Recommend!Pairs : notified'[m] = IF m \in toTell THEN notified[m] + 1 ELSE notified[m]
  BY <1>4, BumpTyped DEF ToldInv, ToldTyped
<1>7. \A m \in toTell : notified[m] = 0 /\ emailed[m] = 0
  BY <1>3 DEF ToldInv, ToldTyped
<1>8. ToldTyped'
  BY <1>3, <1>4, <1>6 DEF ToldInv, ToldTyped
<1>9. \A m \in Recommend!Pairs : /\ notified'[m] + emailed'[m] > 0 => m \in recommended'
                                 /\ notified'[m] <= 1 /\ emailed'[m] <= notified'[m]
  BY <1>3, <1>4, <1>6, <1>7 DEF ToldInv, ToldTyped
<1>10. ASSUME NEW q \in Passes, NEW m \in pass'[q].toTell
       PROVE  /\ m \in recommended' /\ notified'[m] = 1 /\ emailed'[m] = 0
              /\ \A r \in Passes \ {q} : m \notin pass'[r].toTell
  <2>1. CASE q = p
    <3>1. \A r \in Passes \ {p} : m \notin pass[r].toTell
      BY <1>3, <1>5, <1>10, <2>1 DEF ToldInv
    <3>. QED
      BY <1>3, <1>4, <1>5, <1>6, <1>7, <1>10, <2>1, <3>1 DEF ToldInv
  <2>2. CASE q # p
    <3>1. m \in pass[q].toTell /\ m \in recommended /\ m \notin toTell
      BY <1>3, <1>5, <1>10, <2>2 DEF ToldInv
    <3>2. m \in Recommend!Pairs
      BY <3>1 DEF ToldInv, ToldTyped
    <3>. QED
      BY <1>4, <1>5, <1>6, <2>2, <3>1, <3>2 DEF ToldInv
  <2>. QED
    BY <2>1, <2>2
<1>. QED
  BY <1>8, <1>9, <1>10 DEF ToldInv

LEMMA EmailTells ==
  ASSUME RunsInv, ToldInv, NEW p \in Passes, NEW c \in Candidates, NEW fails \in BOOLEAN,
         Recommend!SendEmail(p, c, fails)
  PROVE  ToldInv'
<1>1. PICK old \in PassRecords : old = pass[p]
  BY DEF RunsInv, PassesTyped
<1>2. PICK mine : mine = {m \in old.toTell : m[1] = c}
  OBVIOUS
<1>3. PICK rest : rest = old.toTell \ mine
  OBVIOUS
<1>4. /\ UNCHANGED <<recommended, notified>>
      /\ emailed' = emailed \/ emailed' = Recommend!Bump(emailed, mine)
      /\ pass' = [pass EXCEPT ![p] = [old EXCEPT !.toTell = rest]]
  BY <1>1, <1>2, <1>3 DEF Recommend!SendEmail
<1>5. /\ pass'[p].toTell = rest
      /\ \A q \in Passes \ {p} : pass'[q] = pass[q]
  BY <1>4 DEF RunsInv, PassesTyped, PassRecords
<1>6. \A q \in Passes : pass'[q].toTell \subseteq pass[q].toTell
  BY <1>1, <1>3, <1>5
<1>7. CASE emailed' = emailed
  BY <1>4, <1>6, <1>7, ToldStays
<1>8. CASE emailed' = Recommend!Bump(emailed, mine)
  <2>1. /\ emailed' \in [Recommend!Pairs -> Nat]
        /\ \A m \in Recommend!Pairs : emailed'[m] = IF m \in mine THEN emailed[m] + 1 ELSE emailed[m]
    BY <1>8, BumpTyped DEF ToldInv, ToldTyped
  <2>2. \A m \in mine : m \in Recommend!Pairs /\ m \in recommended /\ notified[m] = 1 /\ emailed[m] = 0
    BY <1>1, <1>2 DEF ToldInv, ToldTyped
  <2>3. \A q \in Passes : \A m \in pass'[q].toTell : m \in pass[q].toTell /\ m \notin mine
    BY <1>1, <1>2, <1>3, <1>5 DEF ToldInv
  <2>4. ToldTyped'
    BY <1>4, <2>1 DEF ToldInv, ToldTyped
  <2>5. \A m \in Recommend!Pairs : /\ notified'[m] + emailed'[m] > 0 => m \in recommended'
                                   /\ notified'[m] <= 1 /\ emailed'[m] <= notified'[m]
    BY <1>4, <2>1, <2>2 DEF ToldInv, ToldTyped
  <2>6. \A q \in Passes : \A m \in pass'[q].toTell :
          /\ m \in recommended' /\ notified'[m] = 1 /\ emailed'[m] = 0
          /\ \A r \in Passes \ {q} : m \notin pass'[r].toTell
    BY <1>4, <1>6, <2>1, <2>3 DEF ToldInv, ToldTyped
  <2>. QED
    BY <2>4, <2>5, <2>6 DEF ToldInv
<1>. QED
  BY <1>4, <1>7, <1>8

LEMMA NextTold ==
  ASSUME RunsInv, ToldInv, [Recommend!Next]_recommendVars
  PROVE  ToldInv'
<1>1. ASSUME NEW p \in Passes, Recommend!PassStep(p) PROVE ToldInv'
  BY <1>1, TellingFrame, ToldStays, SaveTells, EmailTells
<1>2. ASSUME Quiet, UNCHANGED <<recommended, notified, emailed>> PROVE ToldInv'
  BY <1>2 DEF Quiet, ToldInv, ToldTyped
<1>. QED
  BY <1>1, <1>2, WorldSteps DEF Recommend!Next

-----------------------------------------------------------------------------
(* Recommendation passes: what they find.                                  *)

(* What was timely is live as it was stamped, and not being activated      *)
(* again.                                                                  *)
StampsHold ==
  /\ \A a \in timely : /\ a.job \in open /\ activatedAt[a.job] = a.at
                       /\ \A b \in activating : b.job # a.job
  /\ \A a, b \in activating : a.job = b.job => a = b

(* Due: not yet behind a successful pass.                                  *)
Due(a) == a.at > origin /\ a.at > Last

(* A pass that is to look looks far enough back, and one that has looked   *)
(* has what is due and was there when it began.                            *)
LooksBack(p) == pass[p].pc = "jobs" => pass[p].from <= Last \/ pass[p].from <= origin
HasLooked(p) ==
  AtWork(pass[p].pc) /\ pass[p].pc \notin {"window", "jobs"} =>
    \A a \in timely : Due(a) /\ a.at <= runs[p].startedAt => a \in pass[p].read

CoverInv ==
  /\ StampsHold /\ EveryActivationIsCovered
  /\ \A p \in Passes : LooksBack(p) /\ HasLooked(p)

LEMMA WorldTypedStays ==
  ASSUME WorldTyped, RunsInv, NEW p \in Passes, Recommend!PassStep(p)
  PROVE  WorldTyped' /\ origin <= origin' /\ UNCHANGED <<open, activating, activatedAt, timely>>
<1>1. UNCHANGED <<now, open, activating, activatedAt, eligible, applied, optedOut, timely>>
  BY DEF Recommend!PassStep, Recommend!StartPass, Recommend!ReadWindow, Recommend!FindJobs, Recommend!SyncEmbeddings,
     Recommend!FindMatches, Recommend!ReadOptOuts, Recommend!Save, Recommend!SendEmail, Recommend!EmailsDone,
     Recommend!Finish, Recommend!Fail, Recommend!Die, Recommend!world
<1>2. PICK old \in PassRecords : old = pass[p]
  BY DEF RunsInv, PassesTyped
<1>3. PICK row \in RunRecords : row = runs[p]
  BY DEF RunsInv, PassesTyped
<1>4. embedded' \subseteq Candidates \cup Submissions
  <2>1. CASE Recommend!SyncEmbeddings(p)
    BY <1>2, <2>1 DEF Recommend!SyncEmbeddings, PassRecords, WorldTyped
  <2>2. CASE ~Recommend!SyncEmbeddings(p)
    <3>1. embedded' = embedded
      BY <2>2 DEF Recommend!PassStep, Recommend!StartPass, Recommend!ReadWindow, Recommend!FindJobs,
         Recommend!FindMatches, Recommend!ReadOptOuts, Recommend!Save, Recommend!SendEmail, Recommend!EmailsDone,
         Recommend!Finish, Recommend!Fail, Recommend!Die
    <3>. QED
      BY <3>1 DEF WorldTyped
  <2>. QED
    BY <2>1, <2>2
<1>5. covered' \subseteq Recommend!Stamps
  <2>1. CASE Recommend!Finish(p)
    BY <1>2, <2>1 DEF Recommend!Finish, PassRecords, WorldTyped
  <2>2. CASE ~Recommend!Finish(p)
    <3>1. covered' = covered
      BY <2>2 DEF Recommend!PassStep, Recommend!StartPass, Recommend!ReadWindow, Recommend!FindJobs,
         Recommend!SyncEmbeddings, Recommend!FindMatches, Recommend!ReadOptOuts, Recommend!Save, Recommend!SendEmail,
         Recommend!EmailsDone, Recommend!Fail, Recommend!Die
    <3>. QED
      BY <3>1 DEF WorldTyped
  <2>. QED
    BY <2>1, <2>2
<1>6. origin' \in 0 .. MaxTime /\ origin <= origin'
  <2>1. CASE Recommend!ReadWindow(p)
    <3>1. origin' = origin \/ origin' = Recommend!Latest({origin, row.startedAt})
      BY <1>3, <2>1 DEF Recommend!ReadWindow
    <3>2. {origin} \in SUBSET Nat /\ HasLatest({origin}) /\ row.startedAt \in 0 .. MaxTime /\ origin \in 0 .. MaxTime
      BY TimeAssumption DEF WorldTyped, HasLatest, RunRecords
    <3>3. Recommend!Latest({origin}) = origin
      BY <3>2, LatestIs
    <3>4. {origin, row.startedAt} = {origin} \cup {row.startedAt}
      OBVIOUS
    <3>5. /\ origin <= Recommend!Latest({origin} \cup {row.startedAt})
          /\ Recommend!Latest({origin} \cup {row.startedAt}) \in {origin, row.startedAt}
      BY <3>2, <3>3, OneMore
    <3>. QED
      BY <3>1, <3>2, <3>4, <3>5
  <2>2. CASE ~Recommend!ReadWindow(p)
    <3>1. origin' = origin
      BY <2>2 DEF Recommend!PassStep, Recommend!StartPass, Recommend!Finish, Recommend!FindJobs,
         Recommend!SyncEmbeddings, Recommend!FindMatches, Recommend!ReadOptOuts, Recommend!Save, Recommend!SendEmail,
         Recommend!EmailsDone, Recommend!Fail, Recommend!Die
    <3>. QED
      BY <3>1 DEF WorldTyped
  <2>. QED
    BY <2>1, <2>2
<1>. QED
  BY <1>1, <1>4, <1>5, <1>6 DEF WorldTyped

LEMMA NextWorld ==
  ASSUME WorldTyped, RunsInv, [Recommend!Next]_recommendVars
  PROVE  WorldTyped'
<1>1. ASSUME NEW p \in Passes, Recommend!PassStep(p) PROVE WorldTyped'
  BY <1>1, WorldTypedStays
<1>2. CASE Recommend!Tick \/ UNCHANGED recommendVars
  BY <1>2, TimeAssumption DEF Recommend!Tick, WorldTyped, recommendVars
<1>3. ASSUME NEW j \in Submissions, Recommend!BeginActivation(j) \/ Recommend!Close(j) \/ Recommend!Reopen(j)
      PROVE  WorldTyped'
  BY <1>3 DEF Recommend!BeginActivation, Recommend!Close, Recommend!Reopen, WorldTyped, Recommend!Stamps
<1>4. ASSUME NEW a \in activating, Recommend!CommitActivation(a) PROVE WorldTyped'
  <2>1. a \in Recommend!Stamps /\ a.job \in Submissions /\ a.at \in 0 .. MaxTime
    BY DEF WorldTyped, Recommend!Stamps
  <2>2. activatedAt' \in [Submissions -> 0 .. MaxTime]
    BY <1>4, <2>1 DEF Recommend!CommitActivation, WorldTyped
  <2>3. timely' \subseteq Recommend!Stamps /\ activating' \subseteq Recommend!Stamps /\ open' \subseteq Submissions
    BY <1>4, <2>1 DEF Recommend!CommitActivation, WorldTyped
  <2>. QED
    BY <1>4, <2>2, <2>3 DEF Recommend!CommitActivation, WorldTyped
<1>5. ASSUME NEW c \in Candidates,
             \/ Recommend!CompleteProfile(c) \/ \E on \in BOOLEAN : Recommend!SetPreference(c, on)
             \/ \E j \in Submissions : Recommend!Apply(c, j)
      PROVE  WorldTyped'
  <2>1. CASE \E j \in Submissions : Recommend!Apply(c, j)
    <3>1. applied' \subseteq Recommend!Pairs
      BY <2>1 DEF Recommend!Apply, WorldTyped, Recommend!Pairs
    <3>. QED
      BY <2>1, <3>1 DEF Recommend!Apply, WorldTyped
  <2>2. CASE Recommend!CompleteProfile(c)
    BY <2>2 DEF Recommend!CompleteProfile, WorldTyped
  <2>3. CASE \E on \in BOOLEAN : Recommend!SetPreference(c, on)
    BY <2>3 DEF Recommend!SetPreference, WorldTyped
  <2>. QED
    BY <1>5, <2>1, <2>2, <2>3
<1>. QED
  BY <1>1, <1>2, <1>3, <1>4, <1>5 DEF Recommend!Next

(* The history of activations: what is added has begun after every pass.   *)
LEMMA StampsStay ==
  ASSUME WorldTyped, RunsInv, StampsHold, [Recommend!Next]_recommendVars
  PROVE  /\ StampsHold'
         /\ \A a \in timely' : a \in timely \/ \A p \in Passes : runs[p].startedAt < a.at
<1>1. \A a \in timely \cup activating : a \in Recommend!Stamps /\ a.job \in Submissions /\ a.at \in 1 .. MaxTime
  BY DEF WorldTyped, Recommend!Stamps
<1>2. ASSUME NEW j \in Submissions, Recommend!BeginActivation(j)
      PROVE  StampsHold' /\ timely' = timely
  <2>1. PICK new : new = [job |-> j, at |-> now]
    OBVIOUS
  <2>2. new.job = j /\ activating' = activating \cup {new} /\ j \notin open /\ \A b \in activating : b.job # j
    BY <1>2, <2>1 DEF Recommend!BeginActivation
  <2>3. UNCHANGED <<timely, open, activatedAt>>
    BY <1>2 DEF Recommend!BeginActivation
  <2>. QED
    BY <2>2, <2>3 DEF StampsHold
<1>3. ASSUME NEW j \in Submissions, Recommend!Close(j) \/ Recommend!Reopen(j)
      PROVE  StampsHold' /\ timely' \subseteq timely
  BY <1>3 DEF Recommend!Close, Recommend!Reopen, StampsHold
<1>4. ASSUME NEW a \in activating, Recommend!CommitActivation(a)
      PROVE  /\ StampsHold'
             /\ \A b \in timely' : b \in timely \/ \A p \in Passes : runs[p].startedAt < b.at
  <2>1. /\ activating' = activating \ {a} /\ open' = open \cup {a.job}
        /\ activatedAt' = [activatedAt EXCEPT ![a.job] = a.at]
        /\ timely' = timely \/ (timely' = timely \cup {a} /\ \A p \in Passes : runs[p].startedAt < a.at)
    BY <1>4 DEF Recommend!CommitActivation
  <2>2. activatedAt'[a.job] = a.at /\ \A j \in Submissions \ {a.job} : activatedAt'[j] = activatedAt[j]
    BY <1>1, <2>1 DEF WorldTyped
  <2>3. \A b \in timely : b.job \in open' /\ activatedAt'[b.job] = b.at
    BY <1>1, <2>1, <2>2 DEF StampsHold
  <2>4. \A b \in activating' : b.job # a.job
    BY <2>1 DEF StampsHold
  <2>5. \A b \in timely' : /\ b.job \in open' /\ activatedAt'[b.job] = b.at
                           /\ \A d \in activating' : d.job # b.job
    BY <2>1, <2>2, <2>3, <2>4 DEF StampsHold
  <2>. QED
    BY <2>1, <2>5 DEF StampsHold
<1>5. UNCHANGED <<open, activating, activatedAt, timely>> => StampsHold' /\ timely' = timely
  BY DEF StampsHold
<1>6. ASSUME \/ Recommend!Tick \/ UNCHANGED recommendVars
             \/ \E c \in Candidates :
                  \/ Recommend!CompleteProfile(c)
                  \/ \E j \in Submissions : Recommend!Apply(c, j)
                  \/ \E on \in BOOLEAN : Recommend!SetPreference(c, on)
      PROVE  UNCHANGED <<open, activating, activatedAt, timely>>
  BY <1>6 DEF Recommend!Tick, Recommend!CompleteProfile, Recommend!Apply, Recommend!SetPreference, recommendVars
<1>7. ASSUME NEW p \in Passes, Recommend!PassStep(p) PROVE UNCHANGED <<open, activating, activatedAt, timely>>
  BY <1>7, WorldTypedStays
<1>. QED
  BY <1>2, <1>3, <1>4, <1>5, <1>6, <1>7 DEF Recommend!Next

(* While nothing changes but the world, what is added is due and new.      *)
LEMMA WorldCovers ==
  ASSUME WorldTyped, RunsInv, CoverInv, [Recommend!Next]_recommendVars,
         Quiet, UNCHANGED <<covered, origin>>
  PROVE  CoverInv'
<1>1. StampsHold' /\ \A a \in timely' : a \in timely \/ \A p \in Passes : runs[p].startedAt < a.at
  BY StampsStay DEF CoverInv
<1>2. StartsStay
  BY StartsKept DEF Quiet
<1>3. \A a \in timely' : a.at \in 1 .. MaxTime
  BY NextWorld DEF WorldTyped, Recommend!Stamps
<1>4. \A p \in Passes : runs[p].startedAt \in 0 .. MaxTime
  BY DEF RunsInv, PassesTyped, RunRecords
<1>5. Last = 0 \/ \E p \in Passes : Last = runs[p].startedAt
  BY StartsFacts DEF Starts, Recommend!StartsOf, Recommend!Succeeded
<1>6. EveryActivationIsCovered'
  <2>. SUFFICES ASSUME NEW a \in timely', a.at > origin PROVE a \in covered \/ a.at > Last
    BY <1>2 DEF EveryActivationIsCovered, Recommend!EveryActivationIsCovered, StartsStay, Last
  <2>1. CASE a \in timely
    BY <2>1 DEF CoverInv, EveryActivationIsCovered, Recommend!EveryActivationIsCovered, Last
  <2>2. CASE \A p \in Passes : runs[p].startedAt < a.at
    BY <1>3, <1>5, <2>2
  <2>. QED
    BY <1>1, <2>1, <2>2
<1>7. ASSUME NEW p \in Passes PROVE LooksBack(p)'
  BY <1>2 DEF LooksBack, CoverInv, Quiet, StartsStay
<1>8. ASSUME NEW p \in Passes PROVE HasLooked(p)'
  <2>. SUFFICES ASSUME AtWork(pass[p].pc), pass[p].pc \notin {"window", "jobs"}, NEW a \in timely',
                       Due(a), a.at <= runs[p].startedAt
                PROVE  a \in pass[p].read
    BY <1>2 DEF HasLooked, Due, Quiet, StartsStay, AtWork
  <2>1. a \in timely
    BY <1>1, <1>3, <1>4
  <2>. QED
    BY <2>1 DEF CoverInv, HasLooked
<1>. QED
  BY <1>1, <1>6, <1>7, <1>8 DEF CoverInv

(* A pass that looks finds what is due.                                    *)
LEMMA FindsWhatIsDue ==
  ASSUME WorldTyped, RunsInv, CoverInv, NEW p \in Passes, Recommend!FindJobs(p)
  PROVE  \A a \in timely : Due(a) /\ a.at <= runs[p].startedAt => a \in pass'[p].read
<1>. SUFFICES ASSUME NEW a \in timely, Due(a), a.at <= runs[p].startedAt PROVE a \in pass'[p].read
  OBVIOUS
<1>1. PICK old \in PassRecords : old = pass[p]
  BY DEF RunsInv, PassesTyped
<1>2. PICK found : found = Recommend!ActivatedBetween(old.from, runs[p].startedAt)
  OBVIOUS
<1>3. pass'[p].read = Recommend!Stamped(found)
  <2>1. PICK read : read = Recommend!Stamped(found)
    OBVIOUS
  <2>2. PICK pc : pc = IF found = {} THEN "finish" ELSE "sync"
    OBVIOUS
  <2>3. pass' = [pass EXCEPT ![p] = [old EXCEPT !.jobs = found, !.read = read, !.pc = pc]]
    BY <1>1, <1>2, <2>1, <2>2 DEF Recommend!FindJobs
  <2>. QED
    BY <2>1, <2>3 DEF RunsInv, PassesTyped, PassRecords
<1>4. a \in Recommend!Stamps /\ a.job \in Submissions /\ a.at \in 1 .. MaxTime /\ a = [job |-> a.job, at |-> a.at]
  BY DEF WorldTyped, Recommend!Stamps
<1>5. a.job \in open /\ activatedAt[a.job] = a.at
  BY DEF CoverInv, StampsHold
<1>6. old.from < a.at
  <2>1. old.from \in 0 .. MaxTime /\ origin \in 0 .. MaxTime /\ Last \in 0 .. MaxTime
    BY StartsFacts DEF PassRecords, WorldTyped
  <2>2. old.from <= Last \/ old.from <= origin
    BY <1>1 DEF CoverInv, LooksBack, Recommend!FindJobs, Recommend!At
  <2>. QED
    BY <1>4, <2>1, <2>2 DEF Due
<1>7. a.job \in found
  BY <1>2, <1>5, <1>6 DEF Recommend!ActivatedBetween
<1>. QED
  BY <1>3, <1>4, <1>5, <1>7 DEF Recommend!Stamped

(* Beyond these two steps a pass keeps what it has read.                   *)
LEMMA ReadKept ==
  ASSUME RunsInv, NEW p \in Passes, Recommend!PassStep(p), ~Recommend!ReadWindow(p), ~Recommend!FindJobs(p),
         AtWork(pass'[p].pc), pass'[p].pc # "window"
  PROVE  /\ AtWork(pass[p].pc) /\ pass[p].pc \notin {"window", "jobs"} /\ pass'[p].pc # "jobs"
         /\ pass'[p].read = pass[p].read
<1>1. PICK old \in PassRecords : old = pass[p]
  BY DEF RunsInv, PassesTyped
<1>2. pass \in [Passes -> PassRecords]
  BY DEF RunsInv, PassesTyped
<1>3. ~Recommend!Finish(p) /\ ~Recommend!Die(p) /\ \A recorded \in BOOLEAN : ~Recommend!Fail(p, recorded)
  BY <1>2 DEF Recommend!Finish, Recommend!Die, Recommend!Fail, Recommend!Ended, AtWork
<1>4. ~Recommend!StartPass(p)
  BY <1>1, <1>2 DEF Recommend!StartPass, Recommend!Goto, PassRecords
<1>5. CASE Recommend!SyncEmbeddings(p)
  BY <1>1, <1>2, <1>5 DEF Recommend!SyncEmbeddings, Recommend!Goto, Recommend!At, PassRecords, AtWork, Pcs
<1>6. CASE Recommend!FindMatches(p)
  <2>1. PICK matches : pass' = [pass EXCEPT ![p] = [old EXCEPT !.pc = "optouts", !.matches = matches]]
    BY <1>1, <1>6 DEF Recommend!FindMatches
  <2>2. pass[p].pc = "match"
    BY <1>6 DEF Recommend!FindMatches, Recommend!At
  <2>. QED
    BY <1>1, <1>2, <2>1, <2>2 DEF PassRecords, AtWork, Pcs
<1>7. CASE Recommend!ReadOptOuts(p)
  BY <1>1, <1>2, <1>7 DEF Recommend!ReadOptOuts, Recommend!At, PassRecords, AtWork, Pcs
<1>8. CASE Recommend!Save(p)
  <2>1. PICK toTell : pass' = [pass EXCEPT ![p] = [old EXCEPT !.pc = "email", !.toTell = toTell]]
    BY <1>1, <1>8 DEF Recommend!Save
  <2>2. pass[p].pc = "save"
    BY <1>8 DEF Recommend!Save, Recommend!At
  <2>. QED
    BY <1>1, <1>2, <2>1, <2>2 DEF PassRecords, AtWork, Pcs
<1>9. CASE Recommend!EmailsDone(p)
  BY <1>1, <1>2, <1>9 DEF Recommend!EmailsDone, Recommend!Goto, Recommend!At, PassRecords, AtWork, Pcs
<1>10. ASSUME NEW c \in Candidates, NEW fails \in BOOLEAN, Recommend!SendEmail(p, c, fails)
       PROVE  pass[p].pc = "email" /\ pass'[p].pc = "email" /\ pass'[p].read = pass[p].read
  BY <1>1, <1>2, <1>10 DEF Recommend!SendEmail, Recommend!At, PassRecords
<1>. QED
  BY <1>3, <1>4, <1>5, <1>6, <1>7, <1>8, <1>9, <1>10 DEF Recommend!PassStep, AtWork, Pcs

LEMMA PassCovers ==
  ASSUME WorldTyped, RunsInv, CoverInv, NEW p \in Passes, Recommend!PassStep(p)
  PROVE  CoverInv'
<1>1. /\ UNCHANGED <<open, activating, activatedAt, timely>> /\ origin <= origin'
      /\ origin \in 0 .. MaxTime /\ origin' \in 0 .. MaxTime
  BY WorldTypedStays DEF WorldTyped
<1>2. /\ pass \in [Passes -> PassRecords] /\ runs \in [Passes -> RunRecords]
      /\ \A q \in Passes \ {p} : pass'[q] = pass[q] /\ runs'[q] = runs[q]
  BY PassShape DEF RunsInv, PassesTyped
<1>3. RunsInv'
  BY RunsFollow, PassesStayTyped DEF RunsInv, PassesTyped
<1>4. /\ Last \in 0 .. MaxTime /\ Last' \in 0 .. MaxTime /\ Last = Recommend!Latest(Starts)
      /\ Last' = Recommend!Latest(Starts')
  <2>1. Last \in 0 .. MaxTime /\ Last = Recommend!Latest(Starts)
    BY StartsFacts
  <2>2. (Last \in 0 .. MaxTime /\ Last = Recommend!Latest(Starts))'
    BY <1>3, StartsFacts, PTL
  <2>. QED
    BY <2>1, <2>2 DEF Recommend!Latest
<1>5. \A a \in timely : a.at \in 1 .. MaxTime
  BY DEF WorldTyped, Recommend!Stamps
<1>6. runs[p].startedAt \in 0 .. MaxTime /\ Starts \in SUBSET Nat /\ HasLatest(Starts)
  BY <1>2, StartsFacts, TimeAssumption DEF RunRecords, RunsInv
<1>7. Last <= Last'
  <2>1. CASE Recommend!Finish(p)
    BY <1>4, <1>6, <2>1, RunsFollow, OneMore
  <2>2. CASE ~Recommend!Finish(p)
    BY <1>4, <2>2, RunsFollow DEF StartsStay
  <2>. QED
    BY <2>1, <2>2
<1>8. \A a \in timely : Due(a)' => Due(a)
  BY <1>1, <1>4, <1>5, <1>7 DEF Due
<1>9. \A q \in Passes : runs'[q].startedAt = runs[q].startedAt \/ pass'[q].pc = "window"
  <2>1. runs'[p].startedAt = runs[p].startedAt \/ pass'[p].pc = "window"
    BY PassShape, RunsFollow DEF Starting, Working, Dropping
  <2>. QED
    BY <1>2, <2>1
<1>10. StampsHold'
  BY <1>1 DEF CoverInv, StampsHold
<1>11. EveryActivationIsCovered'
  <2>. SUFFICES ASSUME NEW a \in timely, a.at > origin' PROVE a \in covered' \/ a.at > Last'
    BY <1>1 DEF EveryActivationIsCovered, Recommend!EveryActivationIsCovered, Last
  <2>1. a.at > origin
    BY <1>1, <1>5
  <2>2. a \in covered \/ a.at > Last
    BY <2>1 DEF CoverInv, EveryActivationIsCovered, Recommend!EveryActivationIsCovered, Last
  <2>3. CASE Recommend!Finish(p)
    <3>1. covered' = covered \cup pass[p].read /\ pass[p].pc = "finish"
      BY <2>3 DEF Recommend!Finish, Recommend!At
    <3>2. Last' \in {Last, runs[p].startedAt}
      BY <1>4, <1>6, <2>3, RunsFollow, OneMore
    <3>3. CASE a \in covered
      BY <3>1, <3>3
    <3>4. CASE a.at > Last /\ a.at <= runs[p].startedAt
      BY <2>1, <3>1, <3>4 DEF CoverInv, HasLooked, Due, AtWork, Pcs
    <3>5. CASE a.at > Last /\ ~(a.at <= runs[p].startedAt)
      BY <1>5, <1>6, <3>2, <3>5
    <3>. QED
      BY <2>2, <3>3, <3>4, <3>5
  <2>4. CASE ~Recommend!Finish(p)
    <3>1. covered' = covered
      BY <2>4 DEF Recommend!PassStep, Recommend!StartPass, Recommend!ReadWindow, Recommend!FindJobs,
         Recommend!SyncEmbeddings, Recommend!FindMatches, Recommend!ReadOptOuts, Recommend!Save, Recommend!SendEmail,
         Recommend!EmailsDone, Recommend!Fail, Recommend!Die
    <3>2. Last' = Last
      BY <2>4, RunsFollow DEF StartsStay
    <3>. QED
      BY <2>2, <3>1, <3>2
  <2>. QED
    BY <2>3, <2>4
<1>12. ASSUME NEW q \in Passes PROVE LooksBack(q)'
  <2>. SUFFICES ASSUME pass'[q].pc = "jobs" PROVE pass'[q].from <= Last' \/ pass'[q].from <= origin'
    BY DEF LooksBack
  <2>1. CASE q # p
    <3>1. pass[q].from \in 0 .. MaxTime
      BY <1>2 DEF PassRecords
    <3>2. pass[q].from <= Last \/ pass[q].from <= origin
      BY <1>2, <2>1 DEF CoverInv, LooksBack
    <3>. QED
      BY <1>1, <1>2, <1>4, <1>7, <2>1, <3>1, <3>2
  <2>2. CASE q = p
    <3>1. ~Recommend!FindJobs(p)
      BY <1>2, <2>2 DEF Recommend!FindJobs, PassRecords
    <3>2. Recommend!ReadWindow(p)
      BY <2>2, <3>1, ReadKept DEF AtWork, Pcs
    <3>3. pass'[p].from = IF Last = 0 THEN runs[p].startedAt ELSE Last
      BY <1>2, <3>2 DEF Recommend!ReadWindow, PassRecords, Last, Recommend!Never
    <3>4. CASE Last = 0
      <4>1. origin' = Recommend!Latest({origin, runs[p].startedAt})
        BY <3>2, <3>4 DEF Recommend!ReadWindow, Last, Recommend!Never
      <4>2. {origin} \in SUBSET Nat /\ HasLatest({origin}) /\ runs[p].startedAt \in Nat
        BY <1>1, <1>6 DEF HasLatest
      <4>3. {origin, runs[p].startedAt} = {origin} \cup {runs[p].startedAt}
        OBVIOUS
      <4>4. runs[p].startedAt <= origin'
        BY <4>1, <4>2, <4>3, OneMore
      <4>. QED
        BY <2>2, <3>3, <3>4, <4>4
    <3>5. CASE Last # 0
      BY <1>4, <1>7, <2>2, <3>3, <3>5
    <3>. QED
      BY <3>4, <3>5
  <2>. QED
    BY <2>1, <2>2
<1>13. ASSUME NEW q \in Passes PROVE HasLooked(q)'
  <2>. SUFFICES ASSUME AtWork(pass'[q].pc), pass'[q].pc \notin {"window", "jobs"}, NEW a \in timely,
                       Due(a)', a.at <= runs'[q].startedAt
                PROVE  a \in pass'[q].read
    BY <1>1 DEF HasLooked, AtWork
  <2>1. Due(a) /\ a.at <= runs[q].startedAt
    BY <1>8, <1>9
  <2>2. CASE q # p
    BY <1>2, <2>1, <2>2 DEF CoverInv, HasLooked
  <2>3. CASE q = p
    <3>1. ~Recommend!ReadWindow(p)
      BY <1>2, <2>3 DEF Recommend!ReadWindow, PassRecords
    <3>2. CASE Recommend!FindJobs(p)
      BY <2>1, <2>3, <3>2, FindsWhatIsDue
    <3>3. CASE ~Recommend!FindJobs(p)
      BY <2>1, <2>3, <3>1, <3>3, ReadKept DEF CoverInv, HasLooked
    <3>. QED
      BY <3>2, <3>3
  <2>. QED
    BY <2>2, <2>3
<1>. QED
  BY <1>10, <1>11, <1>12, <1>13 DEF CoverInv

-----------------------------------------------------------------------------
RecommendInv == WorldTyped /\ RunsInv /\ ToldInv /\ CoverInv

(* What runs have recorded matches where their passes are, what is to be   *)
(* told was saved by the pass that will tell it, and every activation is   *)
(* covered (runPass, saveAndNotify).                                       *)
THEOREM RecommendInvariant == Recommend!Spec => []RecommendInv
<1>1. Recommend!Init => RecommendInv
  <2>. SUFFICES ASSUME Recommend!Init PROVE RecommendInv
    OBVIOUS
  <2>1. WorldTyped
    BY TimeAssumption DEF Recommend!Init, WorldTyped, Recommend!Never
  <2>2. PassesTyped
    <3>1. Recommend!NoRun \in RunRecords
      BY TimeAssumption DEF Recommend!NoRun, RunRecords, Statuses, Recommend!Never
    <3>. QED
      BY <3>1, EndedTyped DEF Recommend!Init, PassesTyped
  <2>3. \A p \in Passes : /\ runs[p].status = "none"
                          /\ pass[p].pc = "none" /\ pass[p].toTell = {}
    BY DEF Recommend!Init, Recommend!NoRun, Recommend!Ended
  <2>4. RunsInv
    BY <2>2, <2>3 DEF RunsInv, RowsFollow, HasLatest, Starts, Recommend!StartsOf, Recommend!Succeeded
  <2>5. ToldInv
    BY <2>3 DEF Recommend!Init, ToldInv, ToldTyped
  <2>6. CoverInv
    BY <2>3 DEF Recommend!Init, CoverInv, StampsHold, EveryActivationIsCovered, Recommend!EveryActivationIsCovered,
       LooksBack, HasLooked, AtWork
  <2>. QED
    BY <2>1, <2>4, <2>5, <2>6 DEF RecommendInv
<1>2. RecommendInv /\ [Recommend!Next]_(Recommend!vars) => RecommendInv'
  <2>. SUFFICES ASSUME RecommendInv, [Recommend!Next]_recommendVars PROVE RecommendInv'
    BY DEF recommendVars, Recommend!vars, Recommend!world, Recommend!told
  <2>1. CoverInv'
    <3>1. ASSUME NEW p \in Passes, Recommend!PassStep(p) PROVE CoverInv'
      BY <3>1, PassCovers DEF RecommendInv
    <3>2. ASSUME Quiet, UNCHANGED <<covered, origin>> PROVE CoverInv'
      BY <3>2, WorldCovers DEF RecommendInv
    <3>. QED
      BY <3>1, <3>2, WorldSteps DEF Recommend!Next
  <2>. QED
    BY <2>1, NextWorld, NextRuns, NextTold DEF RecommendInv
<1>. QED
  BY <1>1, <1>2, PTL DEF Recommend!Spec

(* "Nobody is told about the same job twice": whichever passes fail, die,  *)
(* are repeated or overlap, a pair is notified and emailed once at most    *)
(* (saveAndNotify).                                                        *)
THEOREM ToldOnce == Recommend!Spec => []NobodyIsToldTwice
<1>1. RecommendInv => NobodyIsToldTwice
  BY DEF RecommendInv, ToldInv, NobodyIsToldTwice, Recommend!NobodyIsToldTwice
<1>. QED
  BY <1>1, RecommendInvariant, PTL

(* A job saved as active before the pass that should find it began, and    *)
(* left so, is read by a pass that succeeds or still lies in the window of *)
(* the next, whichever passes fail, die or overlap (runPass,               *)
(* lastSucceededStart, findJobsActivatedBetween).                          *)
THEOREM NoActivationMissed == Recommend!Spec => []EveryActivationIsCovered
<1>1. RecommendInv => EveryActivationIsCovered
  BY DEF RecommendInv, CoverInv
<1>. QED
  BY <1>1, RecommendInvariant, PTL

-----------------------------------------------------------------------------
(* The job board.                                                          *)

Asked == {"version", "cached", "rank", "stamp", "store", "applied", "answered"}
AskedRecords ==
  [pc : Asked, viewer : Viewers, query : Queries, active : SUBSET Submissions, at : 0 .. MaxVersion,
   ids : SUBSET Submissions, basis : SUBSET Submissions, items : SUBSET Submissions,
   applied : SUBSET Submissions, always : SUBSET Submissions, ever : SUBSET Submissions,
   before : SUBSET Submissions]
CallRecords == {Board!Idle} \cup AskedRecords
Rankings == [version : 0 .. MaxVersion, viewer : Viewers, ids : SUBSET Submissions, basis : SUBSET Submissions]

BoardTyped ==
  /\ live \subseteq Submissions /\ known \subseteq Submissions /\ submitted \subseteq Viewers \X Submissions
  /\ owed \subseteq Submissions /\ IsFiniteSet(owed)
  /\ version \in Nat /\ version + Cardinality(owed) <= MaxVersion
  /\ cache \subseteq Rankings
  /\ call \in [Clients -> CallRecords]

(* What the request has read lies between what was live all the time and   *)
(* at any time, and a ranking, once there is one, has all of it.           *)
Bracketed(r) ==
  /\ r.always \subseteq r.active /\ r.active \subseteq r.ever
  /\ r.pc \in {"stamp", "store", "applied"} => r.active \subseteq r.ids

AskedFor(r, j) ==
  /\ j \in r.query.matching
  /\ r.query.applied # "all" => (r.query.applied = "applied") = (j \in r.applied)

(* BoardIsCurrent, of one answer.                                          *)
Current(r) ==
  /\ r.before \subseteq r.applied
  /\ {j \in r.always : AskedFor(r, j)} \subseteq r.items
  /\ r.items \subseteq {j \in r.ever : AskedFor(r, j)}

CallHolds(r) ==
  r.pc # "idle" =>
    /\ Bracketed(r)
    /\ r.pc # "answered" => r.before \subseteq Board!AppliedBy(r.viewer)
    /\ r.pc = "answered" => Current(r)

BoardInv == BoardTyped /\ \A c \in Clients : CallHolds(call[c])

(* The edits of a request, and what they keep.                             *)
LEMMA RequestEdits ==
  ASSUME NEW r \in AskedRecords
  PROVE  /\ \A pc \in Asked : [r EXCEPT !.pc = pc] \in AskedRecords
         /\ \A pc \in Asked, n \in 0 .. MaxVersion : [r EXCEPT !.pc = pc, !.at = n] \in AskedRecords
         /\ \A pc \in Asked, i, b \in SUBSET Submissions :
              /\ [r EXCEPT !.pc = pc, !.ids = i, !.basis = b] \in AskedRecords
              /\ [r EXCEPT !.ids = i, !.basis = b, !.pc = pc] \in AskedRecords
         /\ \A pc \in Asked, i, a \in SUBSET Submissions :
              [r EXCEPT !.pc = pc, !.items = i, !.applied = a] \in AskedRecords
         /\ \A a \in SUBSET Submissions :
              [r EXCEPT !.always = r.always \cap a, !.ever = r.ever \cup a] \in AskedRecords
BY DEF AskedRecords

(* A request takes a step by itself.                                       *)
LEMMA RequestSteps ==
  ASSUME BoardInv, NEW c \in Clients, NEW new \in CallRecords,
         call' = [call EXCEPT ![c] = new], UNCHANGED <<live, known, owed, version, submitted>>,
         cache' \subseteq Rankings, CallHolds(new)
  PROVE  BoardInv'
<1>1. BoardTyped'
  BY DEF BoardInv, BoardTyped
<1>2. \A d \in Clients : call'[d] = new \/ call'[d] = call[d]
  BY DEF BoardInv, BoardTyped
<1>3. ASSUME NEW d \in Clients PROVE CallHolds(call[d])'
  <2>1. PICK r \in CallRecords : r = call'[d]
    BY <1>1 DEF BoardTyped
  <2>2. CallHolds(r)
    BY <1>2, <2>1 DEF BoardInv
  <2>. QED
    BY <2>1, <2>2 DEF CallHolds, Board!AppliedBy, Bracketed, Current, AskedFor
<1>. QED
  BY <1>1, <1>3 DEF BoardInv

(* While jobs go live and close.                                           *)
LEMMA ObserveKeeps ==
  ASSUME BoardInv, NEW alive \in SUBSET Submissions, Board!Observe(alive),
         UNCHANGED submitted
  PROVE  call' \in [Clients -> CallRecords] /\ \A c \in Clients : CallHolds(call[c])'
<1>1. ASSUME NEW c \in Clients PROVE call'[c] \in CallRecords /\ CallHolds(call[c])'
  <2>1. PICK r \in CallRecords : r = call[c]
    BY DEF BoardInv, BoardTyped
  <2>2. CASE c \in Board!Asking
    <3>1. r \in AskedRecords /\ r.pc \notin {"idle", "answered"}
      BY <2>1, <2>2 DEF Board!Asking, CallRecords, Board!Idle
    <3>2. PICK new \in AskedRecords : new = [r EXCEPT !.always = r.always \cap alive, !.ever = r.ever \cup alive]
      BY <3>1, RequestEdits
    <3>3. call'[c] = new
      BY <2>1, <2>2, <3>2 DEF Board!Observe
    <3>4. /\ new.pc = r.pc /\ new.viewer = r.viewer /\ new.active = r.active /\ new.ids = r.ids
          /\ new.before = r.before /\ new.always = r.always \cap alive /\ new.ever = r.ever \cup alive
      BY <3>1, <3>2 DEF AskedRecords
    <3>5. Bracketed(r) /\ r.before \subseteq Board!AppliedBy(r.viewer)
      BY <2>1, <3>1 DEF BoardInv, CallHolds
    <3>6. Bracketed(new)
      BY <3>4, <3>5 DEF Bracketed
    <3>. QED
      BY <3>1, <3>2, <3>3, <3>4, <3>5, <3>6 DEF CallHolds, CallRecords, Bracketed, Board!AppliedBy
  <2>3. CASE c \notin Board!Asking
    <3>1. call'[c] = r /\ CallHolds(r)
      BY <2>1, <2>3 DEF Board!Observe, BoardInv
    <3>2. r.pc = "idle" \/ r.pc = "answered"
      BY <2>1, <2>3 DEF Board!Asking
    <3>. QED
      BY <3>1, <3>2 DEF CallHolds, Bracketed, Current, AskedFor
  <2>. QED
    BY <2>2, <2>3
<1>2. call' = [c \in Clients |-> call'[c]]
  BY DEF Board!Observe
<1>. QED
  BY <1>1, <1>2

LEMMA BoardCardinality == \A S : Board!Cardinality(S) = Cardinality(S)
BY DEF Board!Cardinality, Cardinality, Board!IsFiniteSet, IsFiniteSet

(* The calls owed and those made are within the bound.                     *)
LEMMA OwedKept ==
  ASSUME BoardTyped, NEW j \in Submissions
  PROVE  /\ IsFiniteSet(owed \cup {j}) /\ IsFiniteSet(owed \ {j})
         /\ version + Cardinality(owed) < MaxVersion => version + Cardinality(owed \cup {j}) <= MaxVersion
         /\ j \in owed => version + Cardinality(owed \ {j}) + 1 <= MaxVersion
         /\ version + Cardinality(owed \ {j}) <= MaxVersion
<1>1. IsFiniteSet(owed) /\ Cardinality(owed) \in Nat
  BY FS_CardinalityType DEF BoardTyped
<1>2. /\ IsFiniteSet(owed \cup {j})
      /\ Cardinality(owed \cup {j}) = IF j \in owed THEN Cardinality(owed) ELSE Cardinality(owed) + 1
  BY <1>1, FS_AddElement
<1>3. /\ IsFiniteSet(owed \ {j})
      /\ Cardinality(owed \ {j}) = IF j \in owed THEN Cardinality(owed) - 1 ELSE Cardinality(owed)
  BY <1>1, FS_RemoveElement
<1>. QED
  BY <1>1, <1>2, <1>3, BoundsAssumption DEF BoardTyped

LEMMA WorldKeeps ==
  ASSUME BoardInv, NEW j \in Submissions,
         \/ Board!GoLive(j) \/ Board!Close(j) \/ Board!Embed(j)
         \/ \E fails \in BOOLEAN : Board!InvalidateAll(j, fails)
         \/ \E v \in Viewers : Board!Complete(v, j)
  PROVE  BoardInv'
<1>1. CASE Board!GoLive(j) \/ Board!Close(j)
  <2>1. live' \in SUBSET Submissions /\ Board!Observe(live') /\ UNCHANGED <<known, version, cache, submitted>>
    BY <1>1 DEF Board!GoLive, Board!Close, BoardInv, BoardTyped
  <2>2. PICK alive \in SUBSET Submissions : alive = live'
    BY <2>1
  <2>3. Board!Observe(alive)
    BY <2>1, <2>2 DEF Board!Observe
  <2>4. call' \in [Clients -> CallRecords] /\ \A c \in Clients : CallHolds(call[c])'
    BY <2>1, <2>3, ObserveKeeps
  <2>5. IsFiniteSet(owed') /\ version + Cardinality(owed') <= MaxVersion /\ owed' \subseteq Submissions
    <3>1. CASE Board!GoLive(j)
      <4>1. owed' = owed \cup {j} /\ version + Cardinality(owed) < MaxVersion
        BY <3>1, BoardCardinality DEF Board!GoLive
      <4>2. IsFiniteSet(owed \cup {j}) /\ version + Cardinality(owed \cup {j}) <= MaxVersion
        BY <4>1, OwedKept DEF BoardInv
      <4>. QED
        BY <4>1, <4>2 DEF BoardInv, BoardTyped
    <3>2. CASE Board!Close(j)
      BY <3>2 DEF Board!Close, BoardInv, BoardTyped
    <3>. QED
      BY <1>1, <3>1, <3>2
  <2>. QED
    BY <2>1, <2>4, <2>5 DEF BoardInv, BoardTyped
<1>2. CASE Board!Embed(j) \/ \E fails \in BOOLEAN : Board!InvalidateAll(j, fails)
  <2>1. call' = call /\ submitted' = submitted
    BY <1>2 DEF Board!Embed, Board!InvalidateAll
  <2>2. BoardTyped'
    <3>1. CASE Board!Embed(j)
      <4>1. owed' = owed \cup {j} /\ version + Cardinality(owed) < MaxVersion
        BY <3>1, BoardCardinality DEF Board!Embed
      <4>2. IsFiniteSet(owed \cup {j}) /\ version + Cardinality(owed \cup {j}) <= MaxVersion
        BY <4>1, OwedKept DEF BoardInv
      <4>. QED
        BY <3>1, <4>1, <4>2 DEF Board!Embed, BoardInv, BoardTyped
    <3>2. ASSUME NEW fails \in BOOLEAN, Board!InvalidateAll(j, fails) PROVE BoardTyped'
      <4>1. PICK rest : rest = owed \ {j}
        OBVIOUS
      <4>2. owed' = rest /\ (version' = version \/ version' = version + 1) /\ UNCHANGED <<live, known, submitted, call>>
        BY <3>2, <4>1 DEF Board!InvalidateAll
      <4>3. IsFiniteSet(rest) /\ Cardinality(rest) \in Nat /\ version + Cardinality(rest) + 1 <= MaxVersion
        BY <3>2, <4>1, OwedKept, FS_CardinalityType DEF BoardInv, Board!InvalidateAll
      <4>4. version' \in Nat /\ version' + Cardinality(rest) <= MaxVersion
        BY <4>2, <4>3, BoundsAssumption DEF BoardInv, BoardTyped
      <4>5. cache' \subseteq Rankings /\ rest \subseteq Submissions
        BY <3>2, <4>1 DEF Board!InvalidateAll, Board!Reachable, BoardInv, BoardTyped
      <4>. QED
        BY <4>2, <4>3, <4>4, <4>5 DEF BoardInv, BoardTyped
    <3>. QED
      BY <1>2, <3>1, <3>2
  <2>. QED
    BY <2>1, <2>2 DEF BoardInv, CallHolds, Bracketed, Current, AskedFor, Board!AppliedBy
<1>3. ASSUME NEW v \in Viewers, Board!Complete(v, j) PROVE BoardInv'
  <2>1. UNCHANGED <<live, known, owed, version, cache, call>> /\ submitted \subseteq submitted'
    BY <1>3 DEF Board!Complete
  <2>2. BoardTyped'
    BY <1>3, <2>1 DEF Board!Complete, BoardInv, BoardTyped
  <2>3. ASSUME NEW c \in Clients PROVE CallHolds(call[c])'
    <3>1. Board!AppliedBy(call[c].viewer) \subseteq Board!AppliedBy(call[c].viewer)'
      BY <2>1 DEF Board!AppliedBy
    <3>. QED
      BY <2>1, <3>1 DEF BoardInv, CallHolds, Bracketed, Current, AskedFor
  <2>. QED
    BY <2>2, <2>3 DEF BoardInv
<1>. QED
  BY <1>1, <1>2, <1>3

LEMMA HandleKeeps ==
  ASSUME BoardInv, NEW c \in Clients, Board!Handle(c)
  PROVE  BoardInv'
<1>1. /\ call \in [Clients -> CallRecords] /\ cache \subseteq Rankings /\ version \in 0 .. MaxVersion
      /\ live \subseteq Submissions /\ known \subseteq Submissions /\ CallHolds(call[c])
  BY FS_CardinalityType, BoundsAssumption DEF BoardInv, BoardTyped
<1>2. UNCHANGED <<live, known, owed, version, submitted>>
  BY DEF Board!Handle, Board!ReadActive, Board!ReadVersion, Board!ReadCached, Board!CacheReadFails, Board!Rank,
     Board!StampRanking, Board!StoreRanking, Board!CacheWriteFails, Board!Answer, Board!Forget, Board!Step
<1>3. ASSUME NEW v \in Viewers, NEW q \in Queries, Board!ReadActive(c, v, q) PROVE BoardInv'
  <2>1. PICK new : new = [pc |-> "version", viewer |-> v, query |-> q, active |-> live,
                          at |-> 0, ids |-> {}, basis |-> {}, items |-> {}, applied |-> {},
                          always |-> live, ever |-> live, before |-> Board!AppliedBy(v)]
    OBVIOUS
  <2>2. new \in CallRecords
    BY <1>1, <2>1, BoundsAssumption DEF CallRecords, AskedRecords, Asked, Board!AppliedBy
  <2>3. CallHolds(new)
    BY <2>1 DEF CallHolds, Bracketed
  <2>4. call' = [call EXCEPT ![c] = new] /\ cache' = cache
    BY <1>3, <2>1 DEF Board!ReadActive
  <2>. QED
    BY <1>1, <1>2, <2>2, <2>3, <2>4, RequestSteps
<1>4. CASE Board!Forget(c)
  <2>1. call' = [call EXCEPT ![c] = Board!Idle] /\ cache' = cache
    BY <1>4 DEF Board!Forget, Board!Step
  <2>2. Board!Idle \in CallRecords /\ CallHolds(Board!Idle)
    BY DEF CallRecords, CallHolds, Board!Idle
  <2>. QED
    BY <1>1, <1>2, <2>1, <2>2, RequestSteps
(* The steps of a request under way.                                       *)
<1>5. ASSUME call[c].pc \in Asked \ {"answered"},
             \/ Board!ReadVersion(c) \/ Board!ReadCached(c) \/ Board!CacheReadFails(c)
             \/ Board!Rank(c) \/ Board!StampRanking(c) \/ Board!StoreRanking(c) \/ Board!CacheWriteFails(c)
             \/ Board!Answer(c)
      PROVE  BoardInv'
  <2>1. PICK r \in AskedRecords : r = call[c]
    BY <1>1, <1>5 DEF CallRecords, Board!Idle, Asked
  <2>2. Bracketed(r) /\ r.before \subseteq Board!AppliedBy(r.viewer) /\ r.pc \in Asked \ {"answered"}
    BY <1>1, <1>5, <2>1 DEF CallHolds, Asked
  (* A step that keeps everything but where it is, and has a ranking.      *)
  <2>3. ASSUME NEW new \in AskedRecords, call' = [call EXCEPT ![c] = new], cache' \subseteq Rankings,
               new.pc \notin {"idle", "answered"}, new.viewer = r.viewer, new.active = r.active,
               new.before = r.before, new.always = r.always, new.ever = r.ever,
               new.pc \in {"stamp", "store", "applied"} => r.active \subseteq new.ids
        PROVE  BoardInv'
    <3>1. CallHolds(new)
      BY <2>2, <2>3 DEF CallHolds, Bracketed, Board!AppliedBy
    <3>. QED
      BY <1>1, <1>2, <2>3, <3>1, RequestSteps DEF CallRecords
  <2>4. ASSUME NEW pc \in Asked \ {"answered"}, call' = [call EXCEPT ![c] = [r EXCEPT !.pc = pc]], cache' \subseteq Rankings,
               pc \in {"stamp", "store", "applied"} => r.active \subseteq r.ids
        PROVE  BoardInv'
    <3>1. PICK new \in AskedRecords : new = [r EXCEPT !.pc = pc]
      BY RequestEdits
    <3>2. /\ new.pc = pc /\ new.viewer = r.viewer /\ new.active = r.active /\ new.ids = r.ids
          /\ new.before = r.before /\ new.always = r.always /\ new.ever = r.ever
      BY <3>1 DEF AskedRecords
    <3>. QED
      BY <2>3, <2>4, <3>1, <3>2 DEF Asked
  <2>5. ASSUME NEW pc \in Asked \ {"answered"}, NEW n \in 0 .. MaxVersion, cache' = cache,
               call' = [call EXCEPT ![c] = [r EXCEPT !.pc = pc, !.at = n]],
               pc \in {"stamp", "store", "applied"} => r.active \subseteq r.ids
        PROVE  BoardInv'
    <3>1. PICK new \in AskedRecords : new = [r EXCEPT !.pc = pc, !.at = n]
      BY RequestEdits
    <3>2. /\ new.pc = pc /\ new.viewer = r.viewer /\ new.active = r.active /\ new.ids = r.ids
          /\ new.before = r.before /\ new.always = r.always /\ new.ever = r.ever
      BY <3>1 DEF AskedRecords
    <3>. QED
      BY <1>1, <2>3, <2>5, <3>1, <3>2 DEF Asked
  <2>6. CASE Board!ReadVersion(c)
    BY <1>1, <2>1, <2>5, <2>6 DEF Board!ReadVersion, Board!Step, Asked
  <2>7. CASE Board!StampRanking(c)
    BY <1>1, <2>1, <2>2, <2>5, <2>7 DEF Board!StampRanking, Board!Step, Asked, Bracketed
  <2>8. CASE Board!CacheReadFails(c)
    BY <1>1, <2>1, <2>4, <2>8 DEF Board!CacheReadFails, Board!Step, Asked
  <2>9. CASE Board!CacheWriteFails(c)
    BY <1>1, <2>1, <2>2, <2>4, <2>9 DEF Board!CacheWriteFails, Board!Step, Asked, Bracketed
  <2>10. CASE Board!StoreRanking(c)
    <3>1. PICK entry \in Rankings : entry = [version |-> r.at, viewer |-> r.viewer, ids |-> r.ids, basis |-> r.basis]
      BY <2>1 DEF AskedRecords, Rankings
    <3>2. cache' = Board!Reachable((cache \ Board!Cached(c)) \cup {entry}, version)
      BY <2>1, <2>10, <3>1 DEF Board!StoreRanking
    <3>3. cache' \subseteq Rankings
      BY <1>1, <3>2 DEF Board!Reachable
    <3>. QED
      BY <2>1, <2>2, <2>4, <2>10, <3>3 DEF Board!StoreRanking, Board!Step, Asked, Bracketed
  <2>11. CASE Board!ReadCached(c)
    <3>1. cache' = cache
      BY <2>11 DEF Board!ReadCached
    <3>2. CASE Board!Usable(c) # {}
      <4>1. PICK entry \in Board!Usable(c) :
              Board!Step(c, "cached", [call[c] EXCEPT !.pc = "applied", !.ids = entry.ids, !.basis = entry.basis])
        BY <2>11, <3>2 DEF Board!ReadCached
      <4>2. entry \in Rankings /\ r.active \subseteq entry.ids
        BY <1>1, <2>1 DEF Board!Usable, Board!Cached
      <4>3. entry.ids \in SUBSET Submissions /\ entry.basis \in SUBSET Submissions
        BY <4>2 DEF Rankings
      <4>4. PICK new \in AskedRecords : new = [r EXCEPT !.pc = "applied", !.ids = entry.ids, !.basis = entry.basis]
        BY <4>3, RequestEdits DEF Asked
      <4>5. /\ new.pc = "applied" /\ new.viewer = r.viewer /\ new.active = r.active /\ new.ids = entry.ids
            /\ new.before = r.before /\ new.always = r.always /\ new.ever = r.ever
        BY <4>4 DEF AskedRecords
      <4>. QED
        BY <1>1, <2>1, <2>3, <3>1, <4>1, <4>2, <4>4, <4>5 DEF Board!Step
    <3>3. CASE Board!Usable(c) = {}
      BY <1>1, <2>1, <2>4, <2>11, <3>1, <3>3 DEF Board!ReadCached, Board!Step, Asked
    <3>. QED
      BY <3>2, <3>3
  <2>12. CASE Board!Rank(c)
    <3>1. PICK similar \in SUBSET Submissions : similar = IF r.viewer \in Embedded THEN known ELSE {}
      BY <1>1
    <3>2. PICK pc \in {"stamp", "applied"} : pc = IF r.viewer = "guest" \/ similar # {} THEN "stamp" ELSE "applied"
      OBVIOUS
    <3>3. call' = [call EXCEPT ![c] = [r EXCEPT !.ids = r.active, !.basis = similar, !.pc = pc]] /\ cache' = cache
      BY <2>1, <2>12, <3>1, <3>2 DEF Board!Rank, Board!Step
    <3>4. r.active \in SUBSET Submissions
      BY DEF AskedRecords
    <3>5. PICK new \in AskedRecords : new = [r EXCEPT !.ids = r.active, !.basis = similar, !.pc = pc]
      BY <3>4, RequestEdits DEF Asked
    <3>6. /\ new.pc = pc /\ new.viewer = r.viewer /\ new.active = r.active /\ new.ids = r.active
          /\ new.before = r.before /\ new.always = r.always /\ new.ever = r.ever
      BY <3>5 DEF AskedRecords
    <3>. QED
      BY <1>1, <2>3, <3>3, <3>5, <3>6
  <2>13. CASE Board!Answer(c)
    <3>1. PICK applies \in SUBSET Submissions : applies = Board!AppliedBy(r.viewer)
      BY DEF Board!AppliedBy
    <3>2. PICK items : items = Board!Selected(c, applies)
      OBVIOUS
    <3>3. \A j : j \in items <=> /\ j \in r.ids /\ j \in r.active /\ j \in r.query.matching
                                 /\ r.query.applied = "applied" => j \in applies
                                 /\ r.query.applied = "not-applied" => j \notin applies
      BY <2>1, <3>2 DEF Board!Selected
    <3>4. items \in SUBSET Submissions
      BY <3>3 DEF AskedRecords
    <3>5. call' = [call EXCEPT ![c] = [r EXCEPT !.pc = "answered", !.items = items, !.applied = applies]] /\ cache' = cache
      BY <2>1, <2>13, <3>1, <3>2 DEF Board!Answer, Board!Step
    <3>6. PICK new \in AskedRecords : new = [r EXCEPT !.pc = "answered", !.items = items, !.applied = applies]
      BY <3>1, <3>4, RequestEdits DEF Asked
    <3>7. /\ new.pc = "answered" /\ new.query = r.query /\ new.items = items /\ new.applied = applies
          /\ new.viewer = r.viewer /\ new.active = r.active /\ new.ids = r.ids
          /\ new.before = r.before /\ new.always = r.always /\ new.ever = r.ever
      BY <3>6 DEF AskedRecords
    <3>8. r.active \subseteq r.ids
      BY <2>1, <2>2, <2>13 DEF Bracketed, Board!Answer, Board!Step
    <3>9. r.query.applied \in {"applied", "not-applied", "all"}
      BY QueriesAssumption DEF AskedRecords
    <3>10. \A j \in r.active : j \in items <=> AskedFor(new, j)
      BY <3>3, <3>7, <3>8, <3>9 DEF AskedFor
    <3>11. Current(new)
      BY <2>2, <3>1, <3>3, <3>7, <3>10 DEF Current, Bracketed
    <3>12. CallHolds(new)
      BY <2>2, <3>7, <3>11 DEF CallHolds, Bracketed
    <3>. QED
      BY <1>1, <1>2, <3>5, <3>6, <3>12, RequestSteps DEF CallRecords
  <2>. QED
    BY <1>5, <2>6, <2>7, <2>8, <2>9, <2>10, <2>11, <2>12, <2>13
<1>6. ASSUME \/ Board!ReadVersion(c) \/ Board!ReadCached(c) \/ Board!CacheReadFails(c)
             \/ Board!Rank(c) \/ Board!StampRanking(c) \/ Board!StoreRanking(c) \/ Board!CacheWriteFails(c)
             \/ Board!Answer(c)
      PROVE  call[c].pc \in Asked \ {"answered"}
  BY <1>6 DEF Board!ReadVersion, Board!ReadCached, Board!CacheReadFails, Board!Rank, Board!StampRanking,
     Board!StoreRanking, Board!CacheWriteFails, Board!Answer, Board!Step, Asked
<1>. QED
  BY <1>3, <1>4, <1>5, <1>6 DEF Board!Handle

(* The board, with what its requests have read.                            *)
THEOREM BoardInvariant == Board!Spec => []BoardInv
<1>1. Board!Init => BoardInv
  BY FS_EmptySet, BoundsAssumption DEF Board!Init, BoardInv, BoardTyped, CallHolds, CallRecords, Board!Idle
<1>2. BoardInv /\ [Board!Next]_(Board!vars) => BoardInv'
  <2>. SUFFICES ASSUME BoardInv, [Board!Next]_boardVars PROVE BoardInv'
    BY DEF boardVars, Board!vars
  <2>1. ASSUME NEW entry \in cache, Board!Expire(entry) PROVE BoardInv'
    BY <2>1 DEF Board!Expire, BoardInv, BoardTyped, CallHolds, Bracketed, Current, AskedFor, Board!AppliedBy
  <2>2. CASE UNCHANGED boardVars
    BY <2>2 DEF boardVars, BoardInv, BoardTyped, CallHolds, Bracketed, Current, AskedFor, Board!AppliedBy
  <2>. QED
    BY <2>1, <2>2, WorldKeeps, HandleKeeps DEF Board!Next
<1>. QED
  BY <1>1, <1>2, PTL DEF Board!Spec

(* "A new application or a closed job shows straight away; only the        *)
(* ranking itself is cached": for any cache, failures and interleaving of  *)
(* requests with jobs, embeddings, invalidations and applications          *)
(* (listPage, rankedIds).                                                  *)
THEOREM PagesAreCurrent == Board!Spec => []BoardIsCurrent
<1>1. BoardInv => BoardIsCurrent
  BY DEF BoardInv, CallHolds, Current, AskedFor, BoardIsCurrent, Board!BoardIsCurrent, Board!Wanted
<1>. QED
  BY <1>1, BoardInvariant, PTL

-----------------------------------------------------------------------------
(* The email queue: an email at work has attempts and stalls left.         *)

EmailInv ==
  /\ state \in [Emails -> Email!States]
  /\ attempts \in [Emails -> 0 .. MaxAttempts] /\ stalls \in [Emails -> 0 .. (MaxStalls + 1)]
  /\ accepted \in [Emails -> Nat]
  /\ \A e \in Emails : state[e] # "failed" => attempts[e] < MaxAttempts /\ stalls[e] <= MaxStalls

LEMMA EmailKeeps ==
  ASSUME EmailInv, NEW e \in Emails, Email!Enqueue(e) \/ Email!Work(e) \/ Email!WorkerDies(e)
  PROVE  EmailInv'
<1>. USE BoundsAssumption DEF EmailInv, Email!Become, Email!States
<1>1. CASE Email!Enqueue(e) \/ Email!Take(e) \/ Email!Skip(e) \/ Email!Complete(e) \/ Email!Backoff(e)
  BY <1>1 DEF Email!Enqueue, Email!Take, Email!Skip, Email!Complete, Email!Backoff
<1>2. CASE Email!Post(e)
  BY <1>2 DEF Email!Post
<1>3. CASE Email!Fail(e)
  <2>1. PICK n : n = attempts[e] + 1
    OBVIOUS
  <2>2. n \in 0 .. MaxAttempts /\ attempts' = [attempts EXCEPT ![e] = n]
    BY <1>3, <2>1 DEF Email!Fail
  <2>3. PICK new \in {"delayed", "failed"} : new = IF n < MaxAttempts THEN "delayed" ELSE "failed"
    OBVIOUS
  <2>4. attempts'[e] = n
    BY <2>2
  <2>5. state' = [state EXCEPT ![e] = new] /\ UNCHANGED <<stalls, accepted>>
    BY <1>3, <2>3, <2>4 DEF Email!Fail
  <2>. QED
    BY <1>3, <2>2, <2>3, <2>5 DEF Email!Fail
<1>4. CASE Email!WorkerDies(e)
  <2>1. PICK n : n = stalls[e] + 1
    OBVIOUS
  <2>2. n \in 0 .. (MaxStalls + 1) /\ stalls' = [stalls EXCEPT ![e] = n]
    BY <1>4, <2>1 DEF Email!WorkerDies
  <2>. QED
    BY <1>4, <2>1, <2>2 DEF Email!WorkerDies
<1>. QED
  BY <1>1, <1>2, <1>3, <1>4 DEF Email!Work

(* A mail that has not failed has attempts left and has not stalled more   *)
(* often than BullMQ allows (email-queue.service.ts).                      *)
THEOREM EmailTyped == Email!Spec => []EmailInv
<1>1. Email!Init => EmailInv
  BY BoundsAssumption DEF Email!Init, EmailInv, Email!States
<1>2. EmailInv /\ [Email!Next]_(Email!vars) => EmailInv'
  <2>1. ASSUME EmailInv, UNCHANGED Email!vars PROVE EmailInv'
    BY <2>1 DEF EmailInv, Email!vars
  <2>. QED
    BY <2>1, EmailKeeps DEF Email!Next
<1>. QED
  BY <1>1, <1>2, PTL DEF Email!Spec

-----------------------------------------------------------------------------
(* The progress stream.                                                    *)

JobRecords == [state : {"none", "active", "completed", "failed"}, stage : 0 .. LastStage]
Types == Stream!Terminal \cup {"progress"}
Events == [type : Types, stage : 0 .. LastStage]
Watches == [pc : {"closed", "job", "state", "live", "ended"}, seen : JobRecords, got : Seq(Events)]

StreamInv ==
  /\ job \in JobRecords /\ queued \in 0 .. MaxRuns
  /\ signals \in Seq(Events)
  /\ watch \in [Watchers -> Watches]

LEMMA EmitTyped ==
  ASSUME NEW r \in Watches, NEW event \in Events
  PROVE  Stream!Emit(r, event) \in Watches
<1>1. PICK got \in Seq(Events) : got = Append(r.got, event)
  <2>1. r.got \in Seq(Events)
    BY DEF Watches
  <2>2. Append(r.got, event) \in Seq(Events)
    BY <2>1
  <2>. QED
    BY <2>2
<1>2. PICK pc \in {"closed", "job", "state", "live", "ended"} : pc = IF event.type \in Stream!Terminal THEN "ended" ELSE r.pc
  BY DEF Watches
<1>3. Stream!Emit(r, event) = [r EXCEPT !.got = got, !.pc = pc]
  BY <1>1, <1>2 DEF Stream!Emit
<1>. QED
  BY <1>3 DEF Watches

LEMMA StreamKeeps ==
  ASSUME StreamInv, [Stream!Next]_streamVars
  PROVE  StreamInv'
<1>0. Stream!Terminal = {"done", "error"}
  BY DEF Stream!Terminal
<1>1. /\ \A n \in 0 .. LastStage : Stream!Progress(n) \in Events
      /\ \A type \in Stream!Terminal : Stream!Final(type) \in Events
  BY BoundsAssumption DEF Stream!Progress, Stream!Final, Events, Types
<1>2. Stream!Closed \in Watches
  BY BoundsAssumption DEF Stream!Closed, Watches, JobRecords
<1>3. CASE Stream!RemoveFailed \/ Stream!Queue
  BY <1>3, BoundsAssumption DEF Stream!RemoveFailed, Stream!Queue, StreamInv, JobRecords
<1>4. CASE Stream!UpdateProgress
  <2>1. PICK n : n = job.stage + 1
    OBVIOUS
  <2>2. n \in 0 .. LastStage
    BY <1>4, <2>1, BoundsAssumption DEF Stream!UpdateProgress, StreamInv, JobRecords
  <2>3. PICK old \in JobRecords : old = job
    BY DEF StreamInv
  <2>4. job' = [old EXCEPT !.stage = n] /\ UNCHANGED <<queued, watch>>
    BY <1>4, <2>1, <2>3 DEF Stream!UpdateProgress
  <2>5. job' \in JobRecords /\ job'.stage = n
    BY <2>2, <2>4 DEF JobRecords
  <2>6. signals' = Append(signals, Stream!Progress(n))
    BY <1>4, <2>5 DEF Stream!UpdateProgress
  <2>. QED
    BY <1>1, <2>2, <2>4, <2>5, <2>6 DEF StreamInv
<1>5. ASSUME NEW to \in {"completed", "failed"}, NEW type \in Stream!Terminal, Stream!End(to, type) PROVE StreamInv'
  <2>1. PICK old \in JobRecords : old = job
    BY DEF StreamInv
  <2>2. job' = [old EXCEPT !.state = to] /\ signals' = Append(signals, Stream!Final(type)) /\ UNCHANGED <<queued, watch>>
    BY <1>5, <2>1 DEF Stream!End
  <2>3. job' \in JobRecords
    BY <2>2 DEF JobRecords
  <2>. QED
    BY <1>1, <2>2, <2>3 DEF StreamInv
<1>6. CASE Stream!Deliver
  <2>1. Head(signals) \in Events /\ Tail(signals) \in Seq(Events)
    BY <1>6 DEF Stream!Deliver, StreamInv
  <2>2. \A w \in Watchers : Stream!Emit(watch[w], Head(signals)) \in Watches
    BY <2>1, EmitTyped DEF StreamInv
  <2>3. watch' \in [Watchers -> Watches]
    BY <1>6, <2>2 DEF Stream!Deliver, StreamInv
  <2>. QED
    BY <1>6, <2>1, <2>3 DEF Stream!Deliver, StreamInv
<1>7. ASSUME NEW w \in Watchers, Stream!Open(w) \/ Stream!Read(w) \/ Stream!Disconnect(w) PROVE StreamInv'
  <2>1. PICK r \in Watches : r = watch[w]
    BY DEF StreamInv
  <2>2. UNCHANGED <<job, queued, signals>>
    BY <1>7 DEF Stream!Open, Stream!Read, Stream!GetJob, Stream!GetState, Stream!Disconnect
  <2>3. ASSUME NEW new \in Watches, watch' = [watch EXCEPT ![w] = new] PROVE StreamInv'
    BY <2>2, <2>3 DEF StreamInv
  <2>4. PICK open_ \in Watches : open_ = [r EXCEPT !.pc = "live"]
    BY DEF Watches
  <2>5. CASE Stream!Open(w)
    <3>1. PICK new \in Watches : new = [r EXCEPT !.pc = "job"]
      BY DEF Watches
    <3>. QED
      BY <2>1, <2>3, <2>5, <3>1 DEF Stream!Open
  <2>6. CASE Stream!GetJob(w)
    <3>1. PICK pc \in {"live", "state"} : pc = IF job.state = "none" THEN "live" ELSE "state"
      OBVIOUS
    <3>2. PICK seen \in JobRecords : seen = job
      BY DEF StreamInv
    <3>3. PICK new \in Watches : new = [r EXCEPT !.seen = seen, !.pc = pc]
      BY DEF Watches
    <3>4. watch' = [watch EXCEPT ![w] = new]
      BY <2>1, <2>6, <3>1, <3>2, <3>3 DEF Stream!GetJob
    <3>. QED
      BY <2>3, <3>4
  <2>7. CASE Stream!GetState(w)
    <3>1. Stream!Current(w) = << >> \/ \E event \in Events : Stream!Current(w) = <<event>>
      BY <1>0, <1>1, <2>1, BoundsAssumption DEF Stream!Current, Watches, JobRecords
    <3>2. CASE Stream!Current(w) = << >>
      <4>1. watch' = [watch EXCEPT ![w] = open_]
        BY <2>1, <2>4, <2>7, <3>2 DEF Stream!GetState
      <4>. QED
        BY <2>3, <4>1
    <3>3. ASSUME NEW event \in Events, Stream!Current(w) = <<event>> PROVE StreamInv'
      <4>1. watch' = [watch EXCEPT ![w] = Stream!Emit(open_, event)]
        BY <2>1, <2>4, <2>7, <3>3 DEF Stream!GetState
      <4>. QED
        BY <2>3, <4>1, EmitTyped
    <3>. QED
      BY <3>1, <3>2, <3>3
  <2>8. CASE Stream!Disconnect(w)
    BY <1>2, <2>3, <2>8 DEF Stream!Disconnect
  <2>. QED
    BY <1>7, <2>5, <2>6, <2>7, <2>8 DEF Stream!Read
<1>8. CASE UNCHANGED streamVars
  BY <1>8 DEF streamVars, StreamInv
<1>9. Stream!Work => StreamInv'
  BY <1>0, <1>4, <1>5 DEF Stream!Work
<1>. QED
  BY <1>3, <1>6, <1>7, <1>8, <1>9 DEF Stream!Next

(* The job, the events on their way and what each watcher got keep their   *)
(* types (GenerationProgressService.watch).                                *)
THEOREM StreamTyped == Stream!Spec => []StreamInv
<1>1. Stream!Init => StreamInv
  <2>. SUFFICES ASSUME Stream!Init PROVE StreamInv
    OBVIOUS
  <2>1. Stream!Closed \in Watches
    BY BoundsAssumption DEF Stream!Closed, Watches, JobRecords
  <2>. QED
    BY <2>1, BoundsAssumption DEF Stream!Init, StreamInv, JobRecords
<1>2. StreamInv /\ [Stream!Next]_(Stream!vars) => StreamInv'
  BY StreamKeeps DEF streamVars, Stream!vars
<1>. QED
  BY <1>1, <1>2, PTL DEF Stream!Spec

-----------------------------------------------------------------------------
(* Visitor analytics.                                                      *)

LEMMA HasEarliest ==
  ASSUME NEW days \in SUBSET Nat, days # {}
  PROVE  \E d \in days : \A e \in days : d <= e
<1>1. PICK d \in days : \A e \in days : <<e, d>> \notin OpToRel(<, Nat)
  BY WFMin, NatLessThanWellFounded, Zenon
<1>2. \A e \in days : ~(e < d)
  BY <1>1, Zenon DEF OpToRel
<1>. QED
  BY <1>2

Audiences == {"none", "anonymous", "signed in"}
ActivityRows == [audience : Audiences, sessions : Nat, views : Nat]
Columns == [Visitors -> ActivityRows]
Stages == {"session", "audience", "view", "opened", "expire"}
PingRecords ==
  {Analytics!NoPing} \cup [pc : Stages, visitor : Visitors, day : Analytics!Days,
                           audience : {"anonymous", "signed in"}, opens : BOOLEAN]
SyncRecords ==
  [pc : {"none", "pick", "read", "commit", "delete"}, days : SUBSET Analytics!Days, day : 0 .. LastDay, rows : Columns]

(* A sync is about days that are over, and at a day once it has picked one. *)
AboutThePast(r, day) ==
  /\ \A d \in r.days : d < day
  /\ r.pc \in {"read", "commit", "delete"} => r.day \in Analytics!Days /\ r.day < day

AnalyticsInv ==
  /\ today \in Analytics!Days /\ visiting \subseteq Visitors /\ started \in 0 .. MaxSyncs
  /\ hashes \in [Analytics!Days -> Columns] /\ activity \in [Analytics!Days -> Columns]
  /\ firstSeen \in [Visitors -> 0 .. LastDay]
  /\ touched \in [Analytics!Days -> 0 .. LastDay] /\ visited \in [Analytics!Days -> SUBSET Visitors]
  /\ ping \in [Pings -> PingRecords]
  /\ sync \in [Requests -> SyncRecords] /\ \A s \in Requests : AboutThePast(sync[s], today)
  /\ DOMAIN stats = Analytics!Days /\ \A d \in Analytics!Days : stats[d].saved => d < today

(* Counters stay counters: cited where a leaf mixes sums with records.     *)
LEMMA SumsAreNatural == \A m, n \in Nat : m + n \in Nat /\ m + 1 \in Nat
OBVIOUS

LEMMA NobodyTyped == Analytics!Nobody \in ActivityRows /\ [v \in Visitors |-> Analytics!Nobody] \in Columns
BY DEF Analytics!Nobody, ActivityRows, Audiences, Columns

LEMMA NoSyncTyped == Analytics!NoSync \in SyncRecords /\ \A d : AboutThePast(Analytics!NoSync, d)
BY NobodyTyped, BoundsAssumption DEF Analytics!NoSync, Analytics!Empty, SyncRecords, AboutThePast, Analytics!Never

(* A sync takes a step by itself.                                          *)
LEMMA SyncSteps ==
  ASSUME AnalyticsInv, NEW s \in Requests, NEW new \in SyncRecords, AboutThePast(new, today),
         Analytics!Step(s, new)
  PROVE  sync' \in [Requests -> SyncRecords] /\ \A r \in Requests : AboutThePast(sync'[r], today)
<1>1. sync' = [sync EXCEPT ![s] = new] /\ sync \in [Requests -> SyncRecords]
  BY DEF Analytics!Step, AnalyticsInv
<1>2. sync' \in [Requests -> SyncRecords] /\ \A r \in Requests : sync'[r] = new \/ sync'[r] = sync[r]
  BY <1>1
<1>. QED
  BY <1>2 DEF AnalyticsInv

(* A command of the pipeline writes one row of one day, and the ping goes  *)
(* on to its next stage.                                                   *)
Writes(p, v0, d0, row, stage) ==
  /\ v0 = ping[p].visitor /\ d0 = ping[p].day
  /\ hashes' = [hashes EXCEPT ![d0] = [hashes[d0] EXCEPT ![v0] = row]]
  /\ ping' = [ping EXCEPT ![p] = [ping[p] EXCEPT !.pc = stage]]

LEMMA CommandsWrite ==
  ASSUME AnalyticsInv, NEW p \in Pings,
         Analytics!WriteAudience(p) \/ Analytics!CountView(p) \/ Analytics!CountSession(p)
  PROVE  \E v0 \in Visitors, d0 \in Analytics!Days, row \in ActivityRows, stage \in Stages : Writes(p, v0, d0, row, stage)
<1>1. ping[p].pc \in {"audience", "view", "opened"}
  BY DEF Analytics!WriteAudience, Analytics!CountView, Analytics!CountSession
<1>2. PICK v0 \in Visitors, d0 \in Analytics!Days :
        v0 = ping[p].visitor /\ d0 = ping[p].day /\ ping[p].audience \in {"anonymous", "signed in"}
  <2>1. ping[p] \in PingRecords /\ Analytics!NoPing.pc = "none"
    BY DEF AnalyticsInv, Analytics!NoPing
  <2>. QED
    BY <1>1, <2>1 DEF PingRecords
<1>3. PICK old \in ActivityRows : old = hashes[d0][v0]
  BY DEF AnalyticsInv, Columns
<1>4. old.sessions + 1 \in Nat /\ old.views + 1 \in Nat
  BY SumsAreNatural DEF ActivityRows
<1>5. CASE Analytics!WriteAudience(p)
  <2>1. PICK audience \in Audiences : audience = IF old.audience = "signed in" THEN old.audience ELSE ping[p].audience
    BY <1>2 DEF ActivityRows, Audiences
  <2>2. PICK row \in ActivityRows : row = [old EXCEPT !.audience = audience]
    BY DEF ActivityRows
  <2>3. hashes' = [hashes EXCEPT ![d0][v0].audience = IF @ = "signed in" THEN @ ELSE ping[p].audience]
    BY <1>2, <1>5, Zenon DEF Analytics!WriteAudience
  <2>4. hashes' = [hashes EXCEPT ![d0] = [hashes[d0] EXCEPT ![v0] = row]]
    BY <1>3, <2>1, <2>2, <2>3
  <2>5. ping' = [ping EXCEPT ![p] = [ping[p] EXCEPT !.pc = "view"]]
    BY <1>5 DEF Analytics!WriteAudience
  <2>. QED
    BY <1>2, <2>4, <2>5 DEF Writes, Stages
<1>6. CASE Analytics!CountView(p)
  <2>1. PICK row \in ActivityRows : row = [old EXCEPT !.views = old.views + 1]
    BY <1>4 DEF ActivityRows
  <2>2. hashes' = [hashes EXCEPT ![d0][v0].views = @ + 1]
    BY <1>2, <1>6, Zenon DEF Analytics!CountView
  <2>3. hashes' = [hashes EXCEPT ![d0] = [hashes[d0] EXCEPT ![v0] = row]]
    BY <1>3, <2>1, <2>2
  <2>4. PICK stage \in Stages : stage = IF ping[p].opens THEN "opened" ELSE "expire"
    BY DEF Stages
  <2>5. ping' = [ping EXCEPT ![p] = [ping[p] EXCEPT !.pc = stage]]
    BY <1>6, <2>4 DEF Analytics!CountView
  <2>. QED
    BY <1>2, <2>3, <2>5 DEF Writes
<1>7. CASE Analytics!CountSession(p)
  <2>1. PICK row \in ActivityRows : row = [old EXCEPT !.sessions = old.sessions + 1]
    BY <1>4 DEF ActivityRows
  <2>2. hashes' = [hashes EXCEPT ![d0][v0].sessions = @ + 1]
    BY <1>2, <1>7, Zenon DEF Analytics!CountSession
  <2>3. hashes' = [hashes EXCEPT ![d0] = [hashes[d0] EXCEPT ![v0] = row]]
    BY <1>3, <2>1, <2>2
  <2>4. ping' = [ping EXCEPT ![p] = [ping[p] EXCEPT !.pc = "expire"]]
    BY <1>7 DEF Analytics!CountSession
  <2>. QED
    BY <1>2, <2>3, <2>4 DEF Writes, Stages
<1>. QED
  BY <1>5, <1>6, <1>7

LEMMA DaysBounded == Analytics!Days \subseteq 0 .. LastDay
<1>1. LastDay \in Nat
  BY BoundsAssumption
<1>2. \A d \in 1 .. LastDay : d \in 0 .. LastDay
  BY <1>1
<1>. QED
  BY <1>2 DEF Analytics!Days

LEMMA PingKeeps ==
  ASSUME AnalyticsInv, NEW p \in Pings,
         \/ \E v \in Visitors, audience \in {"anonymous", "signed in"} : Analytics!ReceivePing(p, v, audience)
         \/ Analytics!ClaimSession(p) \/ Analytics!WriteAudience(p) \/ Analytics!CountView(p) \/ Analytics!CountSession(p)
         \/ Analytics!ExpireKeys(p) \/ Analytics!LosePing(p)
  PROVE  AnalyticsInv'
<1>1. UNCHANGED <<today, activity, firstSeen, stats, sync, started>>
  BY DEF Analytics!ReceivePing, Analytics!ClaimSession, Analytics!WriteAudience, Analytics!CountView, Analytics!CountSession,
     Analytics!ExpireKeys, Analytics!LosePing, Analytics!redis, Analytics!postgres
<1>2. ASSUME NEW new \in PingRecords, ping' = [ping EXCEPT ![p] = new],
             hashes' \in [Analytics!Days -> Columns], visiting' \subseteq Visitors,
             touched' \in [Analytics!Days -> 0 .. LastDay], visited' \in [Analytics!Days -> SUBSET Visitors]
      PROVE  AnalyticsInv'
  BY <1>1, <1>2 DEF AnalyticsInv
<1>3. PICK r \in PingRecords : r = ping[p]
  BY DEF AnalyticsInv
<1>4. ASSUME NEW v \in Visitors, NEW audience \in {"anonymous", "signed in"}, Analytics!ReceivePing(p, v, audience)
      PROVE  AnalyticsInv'
  <2>1. today \in Analytics!Days /\ FALSE \in BOOLEAN
    BY DEF AnalyticsInv
  <2>2. PICK new : new = [pc |-> "session", visitor |-> v, day |-> today, audience |-> audience, opens |-> FALSE]
    OBVIOUS
  <2>3. new \in PingRecords
    BY <2>1, <2>2 DEF PingRecords, Stages
  <2>4. ping' = [ping EXCEPT ![p] = new] /\ UNCHANGED <<hashes, touched, visiting, visited>>
    BY <1>4, <2>2 DEF Analytics!ReceivePing, Analytics!redis, Analytics!history
  <2>. QED
    BY <1>2, <2>3, <2>4 DEF AnalyticsInv
<1>5. ASSUME r.pc # "none"
      PROVE  r.visitor \in Visitors /\ r.day \in Analytics!Days
             /\ (\A stage \in Stages : [r EXCEPT !.pc = stage] \in PingRecords)
             /\ \A stage \in Stages, opens \in BOOLEAN : [r EXCEPT !.pc = stage, !.opens = opens] \in PingRecords
  <2>1. Analytics!NoPing.pc = "none"
    BY DEF Analytics!NoPing
  <2>2. r \in [pc : Stages, visitor : Visitors, day : Analytics!Days, audience : {"anonymous", "signed in"}, opens : BOOLEAN]
    BY <1>5, <2>1 DEF PingRecords
  <2>. QED
    BY <2>2 DEF PingRecords
<1>6. CASE Analytics!ClaimSession(p)
  <2>1. r.pc = "session"
    BY <1>3, <1>6 DEF Analytics!ClaimSession
  <2>2. PICK opens \in BOOLEAN : opens = (r.visitor \notin visiting)
    BY Zenon
  <2>3. PICK new : new = [r EXCEPT !.pc = "audience", !.opens = opens]
    OBVIOUS
  <2>4. new \in PingRecords
    BY <1>5, <2>1, <2>3 DEF Stages
  <2>5. ping' = [ping EXCEPT ![p].pc = "audience", ![p].opens = r.visitor \notin visiting]
    BY <1>3, <1>6 DEF Analytics!ClaimSession
  <2>6. ping' = [ping EXCEPT ![p] = new]
    BY <1>3, <2>2, <2>3, <2>5
  <2>7. visiting' \subseteq Visitors /\ UNCHANGED <<hashes, touched, visited>>
    BY <1>3, <1>5, <1>6, <2>1 DEF Analytics!ClaimSession, Analytics!history, AnalyticsInv
  <2>. QED
    BY <1>2, <2>4, <2>6, <2>7 DEF AnalyticsInv
<1>7. CASE Analytics!WriteAudience(p) \/ Analytics!CountView(p) \/ Analytics!CountSession(p)
  <2>1. PICK v0 \in Visitors, d0 \in Analytics!Days, row \in ActivityRows, stage \in Stages : Writes(p, v0, d0, row, stage)
    BY <1>7, CommandsWrite
  <2>2. PICK column \in Columns : column = hashes[d0]
    BY DEF AnalyticsInv
  <2>3. [column EXCEPT ![v0] = row] \in Columns
    BY DEF Columns
  <2>4. hashes' \in [Analytics!Days -> Columns]
    BY <2>1, <2>2, <2>3 DEF AnalyticsInv, Writes
  <2>5. r.pc # "none"
    BY <1>3, <1>7 DEF Analytics!WriteAudience, Analytics!CountView, Analytics!CountSession
  <2>6. PICK new \in PingRecords : new = [r EXCEPT !.pc = stage]
    BY <1>5, <2>5
  <2>7. ping' = [ping EXCEPT ![p] = new]
    BY <1>3, <2>1, <2>6 DEF Writes
  <2>8. visited' \in [Analytics!Days -> SUBSET Visitors]
    <3>1. visited' = visited \/ visited' = [visited EXCEPT ![d0] = @ \cup {v0}]
      BY <1>7, <2>1 DEF Analytics!WriteAudience, Analytics!CountView, Analytics!CountSession, Writes
    <3>2. visited \in [Analytics!Days -> SUBSET Visitors] /\ visited[d0] \cup {v0} \in SUBSET Visitors
      BY DEF AnalyticsInv
    <3>. QED
      BY <3>1, <3>2
  <2>9. UNCHANGED <<touched, visiting>>
    BY <1>7 DEF Analytics!WriteAudience, Analytics!CountView, Analytics!CountSession
  <2>. QED
    BY <1>2, <2>4, <2>7, <2>8, <2>9 DEF AnalyticsInv
<1>8. CASE Analytics!LosePing(p) \/ Analytics!ExpireKeys(p)
  <2>1. ping' = [ping EXCEPT ![p] = Analytics!NoPing] /\ UNCHANGED <<hashes, visiting, visited>>
    BY <1>8 DEF Analytics!LosePing, Analytics!ExpireKeys, Analytics!redis, Analytics!history
  <2>2. touched' \in [Analytics!Days -> 0 .. LastDay]
    <3>1. touched' = touched \/ touched' = [touched EXCEPT ![r.day] = today]
      BY <1>3, <1>8 DEF Analytics!LosePing, Analytics!ExpireKeys, Analytics!redis
    <3>2. today \in 0 .. LastDay
      BY DaysBounded DEF AnalyticsInv
    <3>. QED
      BY <3>1, <3>2 DEF AnalyticsInv
  <2>3. Analytics!NoPing \in PingRecords
    BY DEF PingRecords
  <2>. QED
    BY <1>2, <2>1, <2>2, <2>3 DEF AnalyticsInv
<1>. QED
  BY <1>4, <1>6, <1>7, <1>8

LEMMA SyncKeeps ==
  ASSUME AnalyticsInv, NEW s \in Requests,
         \/ Analytics!StartSync(s) \/ Analytics!PickDay(s) \/ Analytics!ReadHashes(s)
         \/ Analytics!CommitDay(s) \/ Analytics!DeleteKeys(s) \/ Analytics!SyncFails(s)
  PROVE  AnalyticsInv'
<1>1. UNCHANGED <<today, visiting, ping, visited>>
  BY DEF Analytics!StartSync, Analytics!PickDay, Analytics!ReadHashes, Analytics!CommitDay, Analytics!DeleteKeys,
     Analytics!SyncFails, Analytics!redis, Analytics!history
<1>0. touched' \in [Analytics!Days -> 0 .. LastDay]
  <2>1. touched' = touched \/ touched' = [touched EXCEPT ![sync[s].day] = 0]
    BY DEF Analytics!StartSync, Analytics!PickDay, Analytics!ReadHashes, Analytics!CommitDay, Analytics!DeleteKeys,
       Analytics!SyncFails, Analytics!redis, Analytics!Never
  <2>. QED
    BY <2>1, BoundsAssumption DEF AnalyticsInv
<1>2. ASSUME NEW new \in SyncRecords, AboutThePast(new, today), Analytics!Step(s, new),
             started' \in 0 .. MaxSyncs, hashes' \in [Analytics!Days -> Columns],
             UNCHANGED <<activity, firstSeen, stats>>
      PROVE  AnalyticsInv'
  BY <1>0, <1>1, <1>2, SyncSteps DEF AnalyticsInv
<1>3. PICK r \in SyncRecords : r = sync[s] /\ AboutThePast(r, today)
  BY DEF AnalyticsInv
<1>4. /\ started \in 0 .. MaxSyncs /\ hashes \in [Analytics!Days -> Columns] /\ activity \in [Analytics!Days -> Columns]
      /\ today \in Analytics!Days /\ Analytics!Days \subseteq Nat
  BY BoundsAssumption DEF AnalyticsInv, Analytics!Days
<1>5. CASE Analytics!StartSync(s)
  <2>1. PICK days \in SUBSET Analytics!Days : /\ days = {d \in Analytics!Days : d < today /\ Analytics!PresentOn(d) # {}}
    OBVIOUS
  <2>2. PICK idle \in SyncRecords : idle = Analytics!NoSync
    BY NoSyncTyped
  <2>3. PICK new \in SyncRecords : new = [idle EXCEPT !.pc = "pick", !.days = days]
    BY DEF SyncRecords
  <2>4. new.pc = "pick" /\ new.days = days
    BY <2>3 DEF SyncRecords
  <2>5. AboutThePast(new, today)
    BY <2>1, <2>4 DEF AboutThePast
  <2>6. Analytics!Step(s, new) /\ UNCHANGED <<hashes, activity, firstSeen, stats>>
    BY <1>5, <2>1, <2>2, <2>3 DEF Analytics!StartSync, Analytics!redis, Analytics!postgres
  <2>7. started' \in 0 .. MaxSyncs
    BY <1>4, <1>5, BoundsAssumption DEF Analytics!StartSync
  <2>. QED
    BY <1>2, <1>4, <2>5, <2>6, <2>7
<1>6. CASE Analytics!PickDay(s)
  <2>1. UNCHANGED <<started, hashes, activity, firstSeen, stats>>
    BY <1>6 DEF Analytics!PickDay, Analytics!redis, Analytics!postgres
  <2>2. CASE r.days = {}
    BY <1>2, <1>3, <1>4, <1>6, <2>1, <2>2, NoSyncTyped DEF Analytics!PickDay
  <2>3. CASE r.days # {}
    <3>1. PICK d : d = Analytics!NextDay(r.days)
      OBVIOUS
    <3>2. d \in r.days /\ r.days \subseteq Analytics!Days
      <4>1. r.days \in SUBSET Nat /\ r.days \subseteq Analytics!Days
        BY <1>4 DEF SyncRecords
      <4>2. \E e \in r.days : \A f \in r.days : e <= f
        BY <2>3, <4>1, HasEarliest
      <4>. QED
        BY <3>1, <4>1, <4>2 DEF Analytics!NextDay
    <3>3. PICK rest \in SUBSET Analytics!Days : rest = r.days \ {d}
      BY <3>2
    <3>4. d \in 0 .. LastDay
      BY <3>2 DEF Analytics!Days
    <3>5. PICK new \in SyncRecords : new = [r EXCEPT !.pc = "read", !.day = d, !.days = rest]
      BY <3>4 DEF SyncRecords
    <3>6. new.pc = "read" /\ new.day = d /\ new.days = rest
      BY <3>5 DEF SyncRecords
    <3>7. AboutThePast(new, today)
      BY <1>3, <3>2, <3>3, <3>6 DEF AboutThePast
    <3>8. Analytics!Step(s, new)
      BY <1>3, <1>6, <2>3, <3>1, <3>3, <3>5 DEF Analytics!PickDay
    <3>. QED
      BY <1>2, <1>4, <2>1, <3>7, <3>8
  <2>. QED
    BY <2>2, <2>3
<1>7. CASE Analytics!ReadHashes(s)
  <2>1. r.pc = "read" /\ r.day \in Analytics!Days /\ r.day < today
    BY <1>3, <1>7 DEF Analytics!ReadHashes, AboutThePast
  <2>2. PICK rows \in Columns : rows = hashes[r.day]
    BY <1>4, <2>1
  <2>3. PICK new \in SyncRecords : new = [r EXCEPT !.pc = "commit", !.rows = rows]
    BY DEF SyncRecords
  <2>4. new.pc = "commit" /\ new.day = r.day /\ new.days = r.days
    BY <2>3 DEF SyncRecords
  <2>5. AboutThePast(new, today)
    BY <1>3, <2>1, <2>4 DEF AboutThePast
  <2>6. Analytics!Step(s, new) /\ UNCHANGED <<started, hashes, activity, firstSeen, stats>>
    BY <1>3, <1>7, <2>2, <2>3 DEF Analytics!ReadHashes, Analytics!redis, Analytics!postgres
  <2>. QED
    BY <1>2, <1>4, <2>5, <2>6
<1>8. CASE Analytics!CommitDay(s)
  <2>1. r.pc = "commit" /\ r.day \in Analytics!Days /\ r.day < today
    BY <1>3, <1>8 DEF Analytics!CommitDay, AboutThePast
  <2>2. r.rows \in Columns /\ r.day \in 0 .. LastDay
    BY DEF SyncRecords
  <2>3. PICK new \in SyncRecords : new = [r EXCEPT !.pc = "delete"]
    BY DEF SyncRecords
  <2>4. new.pc = "delete" /\ new.day = r.day /\ new.days = r.days
    BY <2>3 DEF SyncRecords
  <2>5. AboutThePast(new, today)
    BY <1>3, <2>1, <2>4 DEF AboutThePast
  <2>6. Analytics!Step(s, new) /\ UNCHANGED <<started, hashes>>
    BY <1>3, <1>8, <2>3 DEF Analytics!CommitDay, Analytics!redis
  <2>7. sync' \in [Requests -> SyncRecords] /\ \A q \in Requests : AboutThePast(sync'[q], today)
    BY <2>5, <2>6, SyncSteps
  <2>8. PICK present : present = {v \in Visitors : r.rows[v].audience # "none"}
    OBVIOUS
  <2>9. firstSeen' \in [Visitors -> 0 .. LastDay]
    <3>1. firstSeen' = [v \in Visitors |-> IF v \in present THEN Analytics!Least(firstSeen[v], r.day) ELSE firstSeen[v]]
      BY <1>3, <1>8, <2>8 DEF Analytics!CommitDay
    <3>2. \A v \in Visitors : firstSeen[v] \in 0 .. LastDay
      BY DEF AnalyticsInv
    <3>. QED
      BY <2>2, <3>1, <3>2 DEF Analytics!Least
  <2>10. activity' \in [Analytics!Days -> Columns]
    <3>1. PICK old \in Columns : old = activity[r.day]
      BY <1>4, <2>1
    <3>2. PICK column : column = [v \in Visitors |-> IF v \in present THEN r.rows[v] ELSE old[v]]
      OBVIOUS
    <3>3. column \in Columns
      BY <2>2, <3>2 DEF Columns
    <3>4. activity' = [activity EXCEPT ![r.day] = column]
      BY <1>3, <1>8, <2>8, <3>1, <3>2 DEF Analytics!CommitDay, Analytics!Upsert
    <3>. QED
      BY <1>4, <3>3, <3>4
  <2>11. DOMAIN stats' = Analytics!Days /\ \A d \in Analytics!Days : stats'[d].saved => d < today
    <3>1. PICK row : stats' = [stats EXCEPT ![r.day] = row]
      BY <1>3, <1>8 DEF Analytics!CommitDay
    <3>2. \A d \in Analytics!Days : d # r.day => stats'[d] = stats[d]
      BY <3>1 DEF AnalyticsInv
    <3>. QED
      BY <2>1, <3>1, <3>2 DEF AnalyticsInv
  <2>. QED
    BY <1>0, <1>1, <2>6, <2>7, <2>9, <2>10, <2>11 DEF AnalyticsInv
<1>9. CASE Analytics!DeleteKeys(s)
  <2>1. PICK empty \in Columns : empty = [v \in Visitors |-> Analytics!Nobody]
    BY NobodyTyped
  <2>2. hashes' = [hashes EXCEPT ![r.day] = empty]
    BY <1>3, <1>9, <2>1 DEF Analytics!DeleteKeys, Analytics!Empty
  <2>3. Analytics!NoSync.rows = empty /\ 0 \in 0 .. LastDay
    BY <2>1, BoundsAssumption DEF Analytics!NoSync, Analytics!Empty
  <2>4. PICK new \in SyncRecords : new = [r EXCEPT !.pc = "pick", !.day = 0, !.rows = empty]
    BY <2>3 DEF SyncRecords
  <2>5. new.pc = "pick" /\ new.days = r.days
    BY <2>4 DEF SyncRecords
  <2>6. AboutThePast(new, today)
    BY <1>3, <2>5 DEF AboutThePast
  <2>7. Analytics!Step(s, new) /\ UNCHANGED <<started, activity, firstSeen, stats>>
    BY <1>3, <1>9, <2>3, <2>4 DEF Analytics!DeleteKeys, Analytics!postgres, Analytics!Never
  <2>. QED
    BY <1>2, <1>4, <2>2, <2>6, <2>7
<1>10. CASE Analytics!SyncFails(s)
  BY <1>2, <1>4, <1>10, NoSyncTyped DEF Analytics!SyncFails, Analytics!redis, Analytics!postgres
<1>. QED
  BY <1>5, <1>6, <1>7, <1>8, <1>9, <1>10

(* Hashes, rows, visits and syncs keep their types, and a sync is always   *)
(* about a day that is over (syncDay).                                     *)
THEOREM AnalyticsTyped == Analytics!Spec => []AnalyticsInv
<1>1. Analytics!Init => AnalyticsInv
  <2>. SUFFICES ASSUME Analytics!Init PROVE AnalyticsInv
    OBVIOUS
  <2>1. 1 \in Analytics!Days /\ 0 \in 0 .. MaxSyncs /\ 0 \in 0 .. LastDay
    BY BoundsAssumption DEF Analytics!Days
  <2>2. hashes \in [Analytics!Days -> Columns] /\ activity \in [Analytics!Days -> Columns]
    BY NobodyTyped DEF Analytics!Init, Analytics!Empty
  <2>3. \A s \in Requests : sync[s] = Analytics!NoSync
    BY DEF Analytics!Init
  <2>4. sync \in [Requests -> SyncRecords] /\ \A s \in Requests : AboutThePast(sync[s], today)
    BY <2>3, NoSyncTyped DEF Analytics!Init
  <2>5. DOMAIN stats = Analytics!Days /\ \A d \in Analytics!Days : stats[d].saved = FALSE
    BY DEF Analytics!Init, Analytics!NoStats
  <2>. QED
    BY <2>1, <2>2, <2>4, <2>5 DEF Analytics!Init, AnalyticsInv, PingRecords, Analytics!Never
<1>2. AnalyticsInv /\ [Analytics!Next]_(Analytics!vars) => AnalyticsInv'
  <2>. SUFFICES ASSUME AnalyticsInv, [Analytics!Next]_analyticsVars PROVE AnalyticsInv'
    BY DEF analyticsVars, Analytics!vars, Analytics!redis, Analytics!postgres, Analytics!history
  <2>1. CASE UNCHANGED analyticsVars \/ \E v \in Visitors : Analytics!SessionExpires(v)
    BY <2>1 DEF analyticsVars, AnalyticsInv, Analytics!SessionExpires, Analytics!postgres, Analytics!history
  <2>3. CASE \E d \in Analytics!Days : Analytics!DayExpires(d)
    <3>1. PICK d \in Analytics!Days : Analytics!DayExpires(d)
      BY <2>3
    <3>2. PICK empty \in Columns : empty = Analytics!Empty
      BY NobodyTyped DEF Analytics!Empty
    <3>3. hashes' = [hashes EXCEPT ![d] = empty] /\ touched' = [touched EXCEPT ![d] = 0] /\ 0 \in 0 .. LastDay
      BY <3>1, <3>2, BoundsAssumption DEF Analytics!DayExpires, Analytics!Never
    <3>4. UNCHANGED <<today, visiting, activity, firstSeen, stats, ping, sync, started, visited>>
      BY <3>1 DEF Analytics!DayExpires, Analytics!postgres
    <3>5. hashes' \in [Analytics!Days -> Columns] /\ touched' \in [Analytics!Days -> 0 .. LastDay]
      BY <3>3 DEF AnalyticsInv
    <3>. QED
      BY <3>4, <3>5 DEF AnalyticsInv
  <2>2. CASE Analytics!Midnight
    <3>1. today' = today + 1 /\ today < LastDay /\ today \in Analytics!Days
      BY <2>2 DEF Analytics!Midnight, AnalyticsInv
    <3>2. today' \in Analytics!Days /\ \A d \in Analytics!Days : d < today => d < today'
      BY <3>1, BoundsAssumption DEF Analytics!Days
    <3>3. UNCHANGED <<hashes, touched, visiting, activity, firstSeen, stats, ping, sync, started, visited>>
      BY <2>2 DEF Analytics!Midnight, Analytics!redis, Analytics!postgres, Analytics!history
    <3>4. \A s \in Requests : sync[s].days \subseteq Analytics!Days
      BY DEF AnalyticsInv, SyncRecords
    <3>5. \A s \in Requests : AboutThePast(sync[s], today')
      BY <3>2, <3>4 DEF AnalyticsInv, AboutThePast
    <3>. QED
      BY <3>2, <3>3, <3>5 DEF AnalyticsInv
  <2>. QED
    BY <2>1, <2>2, <2>3, PingKeeps, SyncKeeps DEF Analytics!Next
<1>. QED
  BY <1>1, <1>2, PTL DEF Analytics!Spec

-----------------------------------------------------------------------------
(* Background: a behaviour of the whole is one of each part.               *)

(* What each part does in the composition, with the others standing still, *)
(* it may do alone: a theorem about a part holds of the composition.       *)
THEOREM PartsRunAlone ==
  BackgroundSpec => Spec /\ Board!Spec /\ Recommend!Spec /\ Analytics!Spec /\ Stream!Spec /\ Email!Spec
<1>1. BackgroundInit => Init /\ Board!Init /\ Recommend!Init /\ Analytics!Init /\ Stream!Init /\ Email!Init
  BY DEF BackgroundInit
<1>2. [BackgroundNext]_allVars => [Next]_vars
  BY DEF BackgroundNext, allVars, paymentVars, vars, payVars, ledgerVars
<1>3. [BackgroundNext]_allVars => [Board!Next]_(Board!vars)
  BY DEF BackgroundNext, allVars, boardVars, Board!vars
<1>4. [BackgroundNext]_allVars => [Recommend!Next]_(Recommend!vars)
  BY DEF BackgroundNext, allVars, recommendVars, Recommend!vars, Recommend!world, Recommend!told
<1>5. [BackgroundNext]_allVars => [Analytics!Next]_(Analytics!vars)
  BY DEF BackgroundNext, allVars, analyticsVars, Analytics!vars, Analytics!redis, Analytics!postgres, Analytics!history
<1>6. [BackgroundNext]_allVars => [Stream!Next]_(Stream!vars)
  BY DEF BackgroundNext, allVars, streamVars, Stream!vars
<1>7. [BackgroundNext]_allVars => [Email!Next]_(Email!vars)
  BY DEF BackgroundNext, allVars, emailVars, Email!vars
<1>. QED
  BY <1>1, <1>2, <1>3, <1>4, <1>5, <1>6, <1>7, PTL
     DEF BackgroundSpec, Spec, Board!Spec, Recommend!Spec, Analytics!Spec, Stream!Spec, Email!Spec

(* Every variable of every part keeps its type: no email has more attempts *)
(* than it may, no day that is not over is synced, no call to invalidate   *)
(* goes beyond its bound.                                                  *)
THEOREM BackgroundTyped == BackgroundSpec => []BackgroundTypeOK
<1>1. BoardInv => Board!TypeOK
  <2>. SUFFICES ASSUME BoardInv PROVE Board!TypeOK
    OBVIOUS
  <2>1. version \in 0 .. MaxVersion
    BY FS_CardinalityType, BoundsAssumption DEF BoardInv, BoardTyped
  <2>2. \A c \in Clients : call[c].pc \in {"idle"} \cup Asked
    BY DEF BoardInv, BoardTyped, CallRecords, AskedRecords, Board!Idle
  <2>. QED
    BY <2>1, <2>2 DEF BoardInv, BoardTyped, Board!TypeOK, Rankings, Asked
<1>2. RecommendInv => Recommend!TypeOK
  BY DEF RecommendInv, WorldTyped, RunsInv, PassesTyped, ToldInv, ToldTyped, Recommend!TypeOK, PassRecords, RunRecords,
     Pcs, Statuses
<1>3. AnalyticsInv => Analytics!TypeOK
  <2>. SUFFICES ASSUME AnalyticsInv PROVE Analytics!TypeOK
    OBVIOUS
  <2>1. \A p \in Pings : ping[p].pc \in {"none", "session", "audience", "view", "opened", "expire"}
    <3>1. Analytics!NoPing.pc = "none"
      BY DEF Analytics!NoPing
    <3>2. \A r \in PingRecords : r.pc \in {"none", "session", "audience", "view", "opened", "expire"}
      BY <3>1 DEF PingRecords, Stages
    <3>. QED
      BY <3>2 DEF AnalyticsInv
  <2>2. \A s \in Requests : sync[s].pc \in {"none", "pick", "read", "commit", "delete"}
    BY DEF AnalyticsInv, SyncRecords
  <2>3. Analytics!Rows(hashes) /\ Analytics!Rows(activity)
    BY DEF AnalyticsInv, Analytics!Rows, Columns, ActivityRows, Audiences
  <2>. QED
    BY <2>1, <2>2, <2>3 DEF AnalyticsInv, Analytics!TypeOK
<1>4. StreamInv => Stream!TypeOK
  <2>. SUFFICES ASSUME StreamInv PROVE Stream!TypeOK
    OBVIOUS
  <2>1. \A n \in DOMAIN signals : signals[n] \in Events
    BY DEF StreamInv
  <2>2. \A w \in Watchers : watch[w].pc \in {"closed", "job", "state", "live", "ended"}
    BY DEF StreamInv, Watches
  <2>. QED
    BY <2>1, <2>2 DEF StreamInv, Stream!TypeOK, JobRecords, Events, Types
<1>5. EmailInv => Email!TypeOK
  BY DEF EmailInv, Email!TypeOK
<1>6. TypeOK /\ Board!TypeOK /\ Recommend!TypeOK /\ Analytics!TypeOK /\ Stream!TypeOK /\ Email!TypeOK => BackgroundTypeOK
  BY DEF BackgroundTypeOK
<1>. QED
  BY <1>1, <1>2, <1>3, <1>4, <1>5, <1>6, PartsRunAlone, TypeCorrect, BoardInvariant, RecommendInvariant,
     AnalyticsTyped, StreamTyped, EmailTyped, PTL

-----------------------------------------------------------------------------
(* The visitor report.  While nothing was counted after its day had been   *)
(* synced (missed = {}), each day is told right by Redis until it is synced  *)
(* and by Postgres from then on; a sync in progress holds rows that are    *)
(* right or were deleted by one that had saved them, and days are saved in *)
(* their order, which makes first_seen_on the first day of each visitor.   *)

(* Nobody was counted on that day.                                         *)
Unvisited(d) == visited[d] = {}
(* Nothing of that day is waiting for a sync.                              *)
Told(d) == stats[d].saved \/ Unvisited(d)

(* Rows that say what was counted.                                         *)
Truthful(column, d) ==
  \A v \in Visitors :
    /\ column[v].views = counted[d][v] /\ column[v].sessions = entered[d][v]
    /\ column[v].audience = "none" <=> v \notin visited[d]
    /\ column[v] = Analytics!Nobody <=> v \notin visited[d]
Blank(column) == \A v \in Visitors : column[v] = Analytics!Nobody

(* Rows of Redis: right, or deleted when Postgres had them.                *)
Kept(column, d) == Truthful(column, d) \/ (stats[d].saved /\ Blank(column))

CountsInv ==
  /\ counted \in [Analytics!Days -> [Visitors -> Nat]] /\ entered \in [Analytics!Days -> [Visitors -> Nat]]
  /\ \A d \in Analytics!Days, v \in Visitors : v \notin visited[d] => counted[d][v] = 0 /\ entered[d][v] = 0
  /\ \A d \in Analytics!Days : d > today => Unvisited(d)
  /\ \A p \in Pings : ping[p].pc # "none" => ping[p].day \in today - 1 .. today
  /\ \A p \in Pings : ping[p].pc \in {"view", "opened", "expire"} => ping[p].visitor \in visited[ping[p].day]

HashesKept == \A d \in Analytics!Days : Kept(hashes[d], d)

(* A sync has every earlier day that is waiting before it.                 *)
InOrder(r) ==
  \A d \in r.days \cup {r.day} : \A e \in Analytics!Days : e < d => e \in r.days \/ e = r.day \/ Told(e)
SyncKept(r) ==
  /\ r.pc \in {"none", "pick"} => r.day = 0
  /\ r.pc \in {"read", "commit", "delete"} => \A e \in r.days : r.day < e
  /\ r.pc = "commit" => Kept(r.rows, r.day)
  /\ r.pc = "delete" => stats[r.day].saved
  /\ InOrder(r)
SyncsKept == \A s \in Requests : SyncKept(sync[s])

(* A saved day, and one that is not.                                       *)
Right(d) ==
  /\ Truthful(activity[d], d) /\ stats[d].visitors = visited[d]
  /\ stats[d].sessions = SumFunctionOnSet(entered[d], Visitors)
  /\ stats[d].views = SumFunctionOnSet(counted[d], Visitors)
Untouched(d) == Blank(activity[d]) /\ stats[d] = Analytics!NoStats
DaysRight ==
  \A d \in Analytics!Days :
    IF stats[d].saved THEN Right(d) /\ \A e \in Analytics!Days : e < d => Told(e) ELSE Untouched(d)

(* first_seen_on is of a saved day, and no later than any.                 *)
FirstsRight ==
  /\ \A d \in Analytics!Days : stats[d].new = {v \in Visitors : firstSeen[v] = d}
  /\ \A v \in Visitors : firstSeen[v] # 0 => stats[firstSeen[v]].saved /\ v \in visited[firstSeen[v]]
  /\ \A d \in Analytics!Days, v \in Visitors :
       stats[d].saved /\ v \in visited[d] => firstSeen[v] # 0 /\ firstSeen[v] <= d

AllKept == HashesKept /\ SyncsKept /\ DaysRight /\ FirstsRight
HistoryInv == CountsInv /\ (missed = {} => AllKept)

(* What is kept stays so as days are saved.                                *)
LEMMA Monotone ==
  ASSUME UNCHANGED <<visited, counted, entered>>,
         \A d \in Analytics!Days : stats[d].saved => stats'[d].saved
  PROVE  /\ \A d \in Analytics!Days : Told(d) => Told(d)'
         /\ \A column, d : d \in Analytics!Days /\ Kept(column, d) => Kept(column, d)'
<1>1. \A column, d : Truthful(column, d) = Truthful(column, d)' 
  BY DEF Truthful
<1>2. \A d : Unvisited(d) = Unvisited(d)'
  BY DEF Unvisited
<1>. QED
  BY <1>1, <1>2 DEF Told, Kept, Blank

(* So does a sync in progress.                                             *)
LEMMA SyncMonotone ==
  ASSUME UNCHANGED <<visited, counted, entered>>, NEW r \in SyncRecords,
         \A d \in Analytics!Days : stats[d].saved => stats'[d].saved,
         r.pc \in {"read", "commit", "delete"} => r.day \in Analytics!Days,
         SyncKept(r)
  PROVE  SyncKept(r)'
<1>1. \A d \in Analytics!Days : Told(d) => Told(d)'
  BY Monotone
<1>2. InOrder(r)'
  BY <1>1 DEF SyncKept, InOrder
<1>3. r.pc = "commit" => Kept(r.rows, r.day)'
  BY Monotone DEF SyncKept
<1>. QED
  BY <1>2, <1>3 DEF SyncKept

(* Pages that are not counted leave everything that is.                    *)
LEMMA NothingCounted ==
  ASSUME UNCHANGED <<visited, counted, entered, stats, missed, hashes, activity, firstSeen, sync>>, missed = {} => AllKept
  PROVE  missed' = {} => AllKept'
<1>1. \A column, d : Truthful(column, d) = Truthful(column, d)' 
  BY DEF Truthful
<1>2. \A d : Unvisited(d) = Unvisited(d)'
  BY DEF Unvisited
<1>3. \A d : Told(d) = Told(d)'
  BY <1>2 DEF Told
<1>4. \A column, d : Kept(column, d) = Kept(column, d)' 
  BY <1>1 DEF Kept, Blank
<1>5. HashesKept => HashesKept'
  BY <1>4 DEF HashesKept
<1>6. \A r : SyncKept(r) => SyncKept(r)'
  BY <1>3, <1>4 DEF SyncKept, InOrder
<1>7. SyncsKept => SyncsKept'
  BY <1>6 DEF SyncsKept
<1>8. DaysRight => DaysRight'
  BY <1>1, <1>3 DEF DaysRight, Right, Untouched, Blank
<1>9. FirstsRight => FirstsRight'
  BY DEF FirstsRight
<1>. QED
  BY <1>5, <1>7, <1>8, <1>9 DEF AllKept

(* A sync is at a day that is over, once it is at one.                     *)
LEMMA SyncDays ==
  ASSUME AnalyticsInv, NEW s \in Requests
  PROVE  /\ sync[s] \in SyncRecords /\ sync[s].days \subseteq Analytics!Days
         /\ \A d \in sync[s].days : d < today
         /\ sync[s].pc \in {"read", "commit", "delete"} => sync[s].day \in Analytics!Days /\ sync[s].day < today
BY DEF AnalyticsInv, AboutThePast, SyncRecords

(* A ping in progress is of a visitor and a day.                           *)
LEMMA PingIs ==
  ASSUME AnalyticsInv, NEW p \in Pings, ping[p].pc # "none"
  PROVE  ping[p].visitor \in Visitors /\ ping[p].day \in Analytics!Days
         /\ ping[p].audience \in {"anonymous", "signed in"}
<1>1. Analytics!NoPing.pc = "none" /\ ping[p] \in PingRecords
  BY DEF Analytics!NoPing, AnalyticsInv
<1>. QED
  BY <1>1 DEF PingRecords

(* What a command of the pipeline changes.                                 *)
Written(v0, d0, view, opened) ==
  /\ d0 \in today - 1 .. today
  /\ missed' = {} => missed = {} /\ ~stats[d0].saved /\ \A s \in Requests : sync[s].day # d0
  /\ \A d \in Analytics!Days, v \in Visitors : d # d0 \/ v # v0 =>
       counted'[d][v] = counted[d][v] /\ entered'[d][v] = entered[d][v] /\ hashes'[d][v] = hashes[d][v]
  /\ counted'[d0][v0] = counted[d0][v0] + view /\ entered'[d0][v0] = entered[d0][v0] + opened
  /\ hashes'[d0][v0].views = hashes[d0][v0].views + view
  /\ hashes'[d0][v0].sessions = hashes[d0][v0].sessions + opened
  /\ hashes'[d0][v0].audience = "none" => v0 \in visited[d0] /\ hashes[d0][v0].audience = "none"
  /\ visited'[d0] = visited[d0] \cup {v0}
  /\ \A d \in Analytics!Days : d # d0 =>
       visited'[d] = visited[d] /\ counted'[d] = counted[d] /\ entered'[d] = entered[d] /\ hashes'[d] = hashes[d]
  /\ counted' \in [Analytics!Days -> [Visitors -> Nat]] /\ entered' \in [Analytics!Days -> [Visitors -> Nat]]

LEMMA CommandWritten ==
  ASSUME AnalyticsInv, CountsInv, NEW p \in Pings,
         Analytics!WriteAudience(p) \/ Analytics!CountView(p) \/ Analytics!CountSession(p)
  PROVE  \E v0 \in Visitors, d0 \in Analytics!Days, view \in {0, 1}, opened \in {0, 1} :
           /\ v0 = ping[p].visitor /\ d0 = ping[p].day /\ ping[p].pc # "none"
           /\ Written(v0, d0, view, opened)
<1>1. PICK v0 \in Visitors, d0 \in Analytics!Days :
        v0 = ping[p].visitor /\ d0 = ping[p].day /\ ping[p].pc # "none" /\ ping[p].audience # "none"
  BY PingIs DEF Analytics!WriteAudience, Analytics!CountView, Analytics!CountSession
<1>2. PICK old : old = hashes[d0][v0] /\ old \in ActivityRows
  BY DEF AnalyticsInv, Columns
<1>3. /\ counted \in [Analytics!Days -> [Visitors -> Nat]] /\ entered \in [Analytics!Days -> [Visitors -> Nat]]
      /\ d0 \in today - 1 .. today /\ visited \in [Analytics!Days -> SUBSET Visitors]
  BY <1>1 DEF CountsInv, AnalyticsInv
<1>4. hashes \in [Analytics!Days -> [Visitors -> ActivityRows]]
  BY DEF AnalyticsInv, Columns
<1>5. missed' = {} => missed = {} /\ ~stats[d0].saved /\ \A s \in Requests : sync[s].day # d0
  BY <1>1 DEF Analytics!WriteAudience, Analytics!CountView, Analytics!CountSession, Analytics!Miss
<1>6. ASSUME NEW row, hashes' = [hashes EXCEPT ![d0][v0] = row],
             NEW view \in {0, 1}, NEW opened \in {0, 1},
             counted' = [counted EXCEPT ![d0][v0] = @ + view], entered' = [entered EXCEPT ![d0][v0] = @ + opened],
             row.views = old.views + view, row.sessions = old.sessions + opened,
             row.audience = "none" => v0 \in visited[d0] /\ old.audience = "none",
             visited' = [visited EXCEPT ![d0] = @ \cup {v0}]
      PROVE  Written(v0, d0, view, opened)
  <2>1. /\ \A d \in Analytics!Days, v \in Visitors : d # d0 \/ v # v0 => hashes'[d][v] = hashes[d][v]
        /\ \A d \in Analytics!Days : d # d0 => hashes'[d] = hashes[d]
        /\ hashes'[d0][v0] = row
    BY <1>4, <1>6
  <2>2. /\ \A d \in Analytics!Days, v \in Visitors : d # d0 \/ v # v0 =>
             counted'[d][v] = counted[d][v] /\ entered'[d][v] = entered[d][v]
        /\ \A d \in Analytics!Days : d # d0 => counted'[d] = counted[d] /\ entered'[d] = entered[d]
        /\ counted'[d0][v0] = counted[d0][v0] + view /\ entered'[d0][v0] = entered[d0][v0] + opened
        /\ counted' \in [Analytics!Days -> [Visitors -> Nat]] /\ entered' \in [Analytics!Days -> [Visitors -> Nat]]
    BY <1>3, <1>6
  <2>3. visited'[d0] = visited[d0] \cup {v0} /\ \A d \in Analytics!Days : d # d0 => visited'[d] = visited[d]
    BY <1>3, <1>6
  <2>4. \A d \in Analytics!Days, v \in Visitors : d # d0 \/ v # v0 =>
          counted'[d][v] = counted[d][v] /\ entered'[d][v] = entered[d][v] /\ hashes'[d][v] = hashes[d][v]
    BY <2>1, <2>2
  <2>5. \A d \in Analytics!Days : d # d0 =>
          visited'[d] = visited[d] /\ counted'[d] = counted[d] /\ entered'[d] = entered[d] /\ hashes'[d] = hashes[d]
    BY <2>1, <2>2, <2>3
  <2>6. /\ hashes'[d0][v0].views = hashes[d0][v0].views + view
        /\ hashes'[d0][v0].sessions = hashes[d0][v0].sessions + opened
        /\ hashes'[d0][v0].audience = "none" => v0 \in visited[d0] /\ hashes[d0][v0].audience = "none"
    BY <1>2, <1>6, <2>1
  <2>. QED
    BY <1>3, <1>5, <2>2, <2>3, <2>4, <2>5, <2>6, Zenon DEF Written
<1>7. ASSUME NEW f \in [Analytics!Days -> [Visitors -> Nat]] PROVE f = [f EXCEPT ![d0][v0] = @ + 0]
  OBVIOUS
<1>8. CASE Analytics!WriteAudience(p)
  <2>1. PICK audience : audience = (IF old.audience = "signed in" THEN old.audience ELSE ping[p].audience)
    OBVIOUS
  <2>2. PICK row : row = [old EXCEPT !.audience = audience]
    OBVIOUS
  <2>3. hashes' = [hashes EXCEPT ![d0][v0].audience = IF @ = "signed in" THEN @ ELSE ping[p].audience]
    BY <1>1, <1>8, Zenon DEF Analytics!WriteAudience
  <2>4. hashes' = [hashes EXCEPT ![d0][v0] = row]
    BY <1>2, <1>4, <2>1, <2>2, <2>3
  <2>5. row.views = old.views /\ row.sessions = old.sessions /\ row.audience = audience /\ audience # "none"
    BY <1>1, <1>2, <2>1, <2>2 DEF ActivityRows
  <2>6. old.views + 0 = old.views /\ old.sessions + 0 = old.sessions
    BY <1>2 DEF ActivityRows
  <2>7. counted' = counted /\ entered' = entered /\ visited' = [visited EXCEPT ![d0] = @ \cup {v0}]
    BY <1>1, <1>8 DEF Analytics!WriteAudience
  <2>8. Written(v0, d0, 0, 0)
    BY <1>3, <1>6, <1>7, <2>4, <2>5, <2>6, <2>7
  <2>. QED
    BY <1>1, <2>8
<1>9. ASSUME ping[p].pc \in {"view", "opened"}, visited' = visited
      PROVE  v0 \in visited[d0] /\ visited' = [visited EXCEPT ![d0] = @ \cup {v0}]
  <2>1. v0 \in visited[d0]
    BY <1>1, <1>9 DEF CountsInv
  <2>2. visited[d0] \cup {v0} = visited[d0]
    BY <2>1
  <2>. QED
    BY <1>3, <1>9, <2>1, <2>2
<1>10. CASE Analytics!CountView(p)
  <2>1. PICK views : views = old.views + 1
    OBVIOUS
  <2>2. PICK row : row = [old EXCEPT !.views = views]
    OBVIOUS
  <2>3. hashes' = [hashes EXCEPT ![d0][v0].views = @ + 1]
    BY <1>1, <1>10, Zenon DEF Analytics!CountView
  <2>4. hashes' = [hashes EXCEPT ![d0][v0] = row]
    BY <1>2, <1>4, <2>1, <2>2, <2>3
  <2>5. row.views = old.views + 1 /\ row.sessions = old.sessions /\ row.audience = old.audience
    BY <1>2, <2>1, <2>2 DEF ActivityRows
  <2>6. old.sessions + 0 = old.sessions
    BY <1>2 DEF ActivityRows
  <2>7. /\ counted' = [counted EXCEPT ![d0][v0] = @ + 1] /\ entered' = entered
        /\ visited' = visited /\ ping[p].pc \in {"view", "opened"}
    BY <1>1, <1>10 DEF Analytics!CountView
  <2>8. Written(v0, d0, 1, 0)
    BY <1>3, <1>6, <1>7, <1>9, <2>4, <2>5, <2>6, <2>7
  <2>. QED
    BY <1>1, <2>8
<1>11. CASE Analytics!CountSession(p)
  <2>1. PICK sessions : sessions = old.sessions + 1
    OBVIOUS
  <2>2. PICK row : row = [old EXCEPT !.sessions = sessions]
    OBVIOUS
  <2>3. hashes' = [hashes EXCEPT ![d0][v0].sessions = @ + 1]
    BY <1>1, <1>11, Zenon DEF Analytics!CountSession
  <2>4. hashes' = [hashes EXCEPT ![d0][v0] = row]
    BY <1>2, <1>4, <2>1, <2>2, <2>3
  <2>5. row.sessions = old.sessions + 1 /\ row.views = old.views /\ row.audience = old.audience
    BY <1>2, <2>1, <2>2 DEF ActivityRows
  <2>6. old.views + 0 = old.views
    BY <1>2 DEF ActivityRows
  <2>7. /\ entered' = [entered EXCEPT ![d0][v0] = @ + 1] /\ counted' = counted
        /\ visited' = visited /\ ping[p].pc \in {"view", "opened"}
    BY <1>1, <1>11 DEF Analytics!CountSession
  <2>8. Written(v0, d0, 0, 1)
    BY <1>3, <1>6, <1>7, <1>9, <2>4, <2>5, <2>6, <2>7
  <2>. QED
    BY <1>1, <2>8
<1>. QED
  BY <1>8, <1>10, <1>11

LEMMA WriteKeeps ==
  ASSUME AnalyticsInv, HistoryInv, NEW p \in Pings,
         Analytics!WriteAudience(p) \/ Analytics!CountView(p) \/ Analytics!CountSession(p)
  PROVE  missed' = {} => AllKept'
<1>. SUFFICES ASSUME missed' = {} PROVE AllKept'
  OBVIOUS
<1>1. UNCHANGED <<activity, firstSeen, stats, sync, today>>
  BY DEF Analytics!WriteAudience, Analytics!CountView, Analytics!CountSession, Analytics!postgres
<1>2. PICK v0 \in Visitors, d0 \in Analytics!Days, view \in {0, 1}, opened \in {0, 1} : Written(v0, d0, view, opened)
  BY CommandWritten DEF HistoryInv
<1>. USE <1>2 DEF Written
<1>3. missed = {} /\ ~stats[d0].saved /\ (\A s \in Requests : sync[s].day # d0) /\ AllKept
  BY <1>2 DEF HistoryInv
<1>4. today \in Nat /\ Analytics!Days \subseteq Nat
  BY BoundsAssumption DEF AnalyticsInv, Analytics!Days
<1>5. \A d \in Analytics!Days : d # d0 => Unvisited(d)' = Unvisited(d) /\ Told(d)' = Told(d)
  BY <1>1, <1>2 DEF Unvisited, Told
<1>6. \A column, d : d \in Analytics!Days /\ d # d0 => (Truthful(column, d)' <=> Truthful(column, d))
  BY <1>2 DEF Truthful
<1>7. \A column, d : d \in Analytics!Days /\ d # d0 => (Kept(column, d)' <=> Kept(column, d))
  BY <1>1, <1>6 DEF Kept, Blank
<1>8. HashesKept'
  <2>1. \A d \in Analytics!Days : d # d0 => Kept(hashes[d], d)'
    BY <1>2, <1>3, <1>7 DEF AllKept, HashesKept
  <2>2. Truthful(hashes[d0], d0)
    BY <1>3 DEF AllKept, HashesKept, Kept
  <2>3. Truthful(hashes[d0], d0)'
    <3>. SUFFICES ASSUME NEW v \in Visitors
                  PROVE  /\ hashes'[d0][v].views = counted'[d0][v] /\ hashes'[d0][v].sessions = entered'[d0][v]
                         /\ hashes'[d0][v].audience = "none" <=> v \notin visited'[d0]
                         /\ hashes'[d0][v] = Analytics!Nobody <=> v \notin visited'[d0]
      BY DEF Truthful
    <3>1. /\ hashes[d0][v].views = counted[d0][v] /\ hashes[d0][v].sessions = entered[d0][v]
          /\ hashes[d0][v].audience = "none" <=> v \notin visited[d0]
          /\ hashes[d0][v] = Analytics!Nobody <=> v \notin visited[d0]
      BY <2>2 DEF Truthful
    <3>2. Analytics!Nobody.audience = "none"
      BY DEF Analytics!Nobody
    <3>3. CASE v # v0
      BY <1>2, <3>1, <3>3
    <3>4. CASE v = v0
      BY <1>2, <3>1, <3>2, <3>4
    <3>. QED
      BY <3>3, <3>4
  <2>. QED
    BY <2>1, <2>3 DEF HashesKept, Kept
<1>9. SyncsKept'
  <2>. SUFFICES ASSUME NEW s \in Requests PROVE SyncKept(sync[s])'
    BY <1>1 DEF SyncsKept
  <2>1. SyncKept(sync[s])
    BY <1>3 DEF AllKept, SyncsKept
  <2>2. sync'[s] = sync[s] /\ sync[s].day # d0
    BY <1>1, <1>3
  <2>3. InOrder(sync[s])'
    <3>. SUFFICES ASSUME NEW d \in sync[s].days \cup {sync[s].day}, NEW e \in Analytics!Days, e < d
                  PROVE  e \in sync[s].days \/ e = sync[s].day \/ Told(e)'
      BY <2>2 DEF InOrder
    <3>1. e \in sync[s].days \/ e = sync[s].day \/ Told(e)
      BY <2>1 DEF SyncKept, InOrder
    <3>2. d < today /\ d \in Nat
      <4>1. CASE d \in sync[s].days
        BY <1>4, <4>1, SyncDays
      <4>2. CASE d = sync[s].day /\ sync[s].pc \in {"read", "commit", "delete"}
        BY <1>4, <4>2, SyncDays
      <4>3. CASE d = sync[s].day /\ sync[s].pc \in {"none", "pick"}
        BY <1>4, <2>1, <4>3 DEF SyncKept, Analytics!Days
      <4>. QED
        BY <4>1, <4>2, <4>3, SyncDays DEF SyncRecords
    <3>. QED
      BY <1>2, <1>4, <1>5, <3>1, <3>2
  <2>4. sync[s].pc = "commit" => Kept(sync[s].rows, sync[s].day)'
    BY <1>7, <2>1, <2>2, SyncDays DEF SyncKept
  <2>. QED
    BY <1>1, <2>1, <2>2, <2>3, <2>4 DEF SyncKept
<1>10. DaysRight'
  <2>. SUFFICES ASSUME NEW d \in Analytics!Days
                PROVE  IF stats[d].saved THEN Right(d)' /\ \A e \in Analytics!Days : e < d => Told(e)' ELSE Untouched(d)'
    BY <1>1 DEF DaysRight
  <2>1. CASE stats[d].saved
    <3>1. d # d0 /\ d < today /\ Right(d) /\ \A e \in Analytics!Days : e < d => Told(e)
      BY <1>3, <2>1 DEF AllKept, DaysRight, AnalyticsInv
    <3>2. \A e \in Analytics!Days : e < d => Told(e)'
      BY <1>2, <1>4, <1>5, <3>1
    <3>3. Right(d)'
      <4>1. counted'[d] = counted[d] /\ entered'[d] = entered[d]
        BY <1>2, <3>1
      <4>2. Truthful(activity[d], d)'
        BY <1>1, <1>6, <3>1 DEF Right
      <4>. QED
        BY <1>1, <1>2, <3>1, <4>1, <4>2 DEF Right
    <3>. QED
      BY <2>1, <3>2, <3>3
  <2>2. CASE ~stats[d].saved
    BY <1>1, <1>3, <2>2 DEF AllKept, DaysRight, Untouched, Blank
  <2>. QED
    BY <2>1, <2>2
<1>11. FirstsRight'
  <2>1. \A d \in Analytics!Days : stats[d].saved => visited'[d] = visited[d]
    BY <1>2, <1>3
  <2>2. FirstsRight
    BY <1>3 DEF AllKept
  <2>3. \A v \in Visitors : firstSeen[v] # 0 => firstSeen[v] \in Analytics!Days
    BY BoundsAssumption DEF AnalyticsInv, Analytics!Days
  <2>. QED
    BY <1>1, <2>1, <2>2, <2>3 DEF FirstsRight
<1>. QED
  BY <1>8, <1>9, <1>10, <1>11 DEF AllKept

-----------------------------------------------------------------------------
(* A sync.                                                                 *)

(* One sync changes its record; nothing else that matters does.            *)
LEMMA OneSyncSteps ==
  ASSUME UNCHANGED <<visited, counted, entered, stats, missed, hashes, activity, firstSeen>>, missed = {} => AllKept,
         sync \in [Requests -> SyncRecords], NEW s \in Requests, NEW new, Analytics!Step(s, new),
         missed = {} => SyncKept(new)
  PROVE  missed' = {} => AllKept'
<1>. SUFFICES ASSUME missed = {} PROVE AllKept'
  OBVIOUS
<1>1. \A column, d : Truthful(column, d) = Truthful(column, d)'
  BY DEF Truthful
<1>2. \A d : Unvisited(d) = Unvisited(d)'
  BY DEF Unvisited
<1>3. \A d : Told(d) = Told(d)'
  BY <1>2 DEF Told
<1>4. \A column, d : Kept(column, d) = Kept(column, d)'
  BY <1>1 DEF Kept, Blank
<1>5. HashesKept'
  BY <1>4 DEF AllKept, HashesKept
<1>6. \A r : SyncKept(r) => SyncKept(r)'
  BY <1>3, <1>4 DEF SyncKept, InOrder
<1>7. SyncsKept'
  <2>1. \A r \in Requests : sync'[r] = new \/ sync'[r] = sync[r]
    BY DEF Analytics!Step
  <2>. QED
    BY <1>6, <2>1 DEF AllKept, SyncsKept
<1>8. DaysRight'
  BY <1>1, <1>3 DEF AllKept, DaysRight, Right, Untouched, Blank
<1>9. FirstsRight'
  BY DEF AllKept, FirstsRight
<1>. QED
  BY <1>5, <1>7, <1>8, <1>9 DEF AllKept

(* A sync that is not running waits for nothing.                           *)
LEMMA NoSyncKept == SyncKept(Analytics!NoSync)
<1>1. Analytics!NoSync.pc = "none" /\ Analytics!NoSync.day = 0 /\ Analytics!NoSync.days = {}
  BY DEF Analytics!NoSync, Analytics!Never
<1>2. \A e \in Analytics!Days : ~(e < 0)
  BY BoundsAssumption DEF Analytics!Days
<1>. QED
  BY <1>1, <1>2 DEF SyncKept, InOrder

LEMMA StartKeeps ==
  ASSUME AnalyticsInv, HistoryInv, NEW s \in Requests, Analytics!StartSync(s)
  PROVE  missed' = {} => AllKept'
<1>1. PICK new : new = [Analytics!NoSync EXCEPT !.pc = "pick",
                          !.days = {d \in Analytics!Days : d < today /\ Analytics!PresentOn(d) # {}}]
  OBVIOUS
<1>2. /\ new.pc = "pick" /\ new.day = 0
      /\ new.days = {d \in Analytics!Days : d < today /\ Analytics!PresentOn(d) # {}}
  BY <1>1 DEF Analytics!NoSync, Analytics!Never
<1>3. Analytics!Step(s, new) /\ UNCHANGED <<visited, counted, entered, stats, missed, hashes, activity, firstSeen>>
  BY <1>1 DEF Analytics!StartSync, Analytics!redis, Analytics!postgres, Analytics!history
<1>4. ASSUME missed = {} PROVE SyncKept(new)
  <2>1. HashesKept /\ DaysRight
    BY <1>4 DEF HistoryInv, AllKept
  <2>2. today \in Nat /\ Analytics!Days \subseteq Nat /\ \A e \in Analytics!Days : ~(e < 0)
    BY BoundsAssumption DEF AnalyticsInv, Analytics!Days
  <2>3. ASSUME NEW e \in Analytics!Days, e < today, e \notin new.days PROVE Told(e)
    <3>1. Analytics!PresentOn(e) = {}
      BY <1>2, <2>3
    <3>2. (\A v \in Visitors : hashes[e][v].audience = "none") /\ Kept(hashes[e], e) /\ visited[e] \subseteq Visitors
      BY <2>1, <3>1 DEF Analytics!PresentOn, HashesKept, AnalyticsInv
    <3>. QED
      BY <3>2 DEF Kept, Truthful, Told, Unvisited
  <2>4. InOrder(new)
    <3>. SUFFICES ASSUME NEW d \in new.days \cup {new.day}, NEW e \in Analytics!Days, e < d
                  PROVE  e \in new.days \/ e = new.day \/ Told(e)
      BY DEF InOrder
    <3>1. d \in new.days /\ d < today /\ d \in Nat
      BY <1>2, <2>2
    <3>. QED
      BY <2>2, <2>3, <3>1
  <2>. QED
    BY <1>2, <2>4 DEF SyncKept
<1>. QED
  BY <1>3, <1>4, OneSyncSteps DEF HistoryInv, AnalyticsInv

LEMMA PickKeeps ==
  ASSUME AnalyticsInv, HistoryInv, NEW s \in Requests, Analytics!PickDay(s)
  PROVE  missed' = {} => AllKept'
<1>1. UNCHANGED <<visited, counted, entered, stats, missed, hashes, activity, firstSeen>> /\ sync \in [Requests -> SyncRecords]
  BY DEF Analytics!PickDay, Analytics!redis, Analytics!postgres, Analytics!history, AnalyticsInv
<1>2. PICK r \in SyncRecords : r = sync[s]
  BY <1>1
<1>3. r.pc = "pick"
  BY <1>2 DEF Analytics!PickDay
<1>4. CASE r.days = {}
  <2>1. Analytics!Step(s, Analytics!NoSync)
    BY <1>2, <1>4 DEF Analytics!PickDay
  <2>. QED
    BY <1>1, <2>1, NoSyncKept, OneSyncSteps DEF HistoryInv
<1>5. CASE r.days # {}
  <2>1. PICK d : d = Analytics!NextDay(r.days)
    OBVIOUS
  <2>2. r.days \subseteq Nat /\ r.days \subseteq Analytics!Days
    BY BoundsAssumption DEF SyncRecords, Analytics!Days
  <2>3. d \in r.days /\ \A e \in r.days : d <= e
    <3>1. \E e \in r.days : \A f \in r.days : e <= f
      BY <1>5, <2>2, HasEarliest
    <3>. QED
      BY <2>1, <3>1 DEF Analytics!NextDay
  <2>4. PICK new : new = [r EXCEPT !.pc = "read", !.day = d, !.days = @ \ {d}]
    OBVIOUS
  <2>5. new.pc = "read" /\ new.day = d /\ new.days = r.days \ {d}
    BY <2>4 DEF SyncRecords
  <2>6. Analytics!Step(s, new)
    BY <1>2, <1>5, <2>1, <2>4 DEF Analytics!PickDay
  <2>7. ASSUME missed = {} PROVE SyncKept(new)
    <3>1. SyncKept(r)
      BY <1>2, <2>7 DEF HistoryInv, AllKept, SyncsKept
    <3>2. r.day = 0
      BY <1>3, <3>1 DEF SyncKept
    <3>3. InOrder(new)
      <4>1. ASSUME NEW c \in new.days \cup {new.day}, NEW e \in Analytics!Days, e < c
            PROVE  e \in new.days \/ e = new.day \/ Told(e)
        <5>1. c \in r.days
          BY <2>3, <2>5
        <5>2. e \in r.days \/ e = 0 \/ Told(e)
          BY <3>1, <3>2, <4>1, <5>1 DEF SyncKept, InOrder
        <5>. QED
          BY <2>5, <5>2, BoundsAssumption DEF Analytics!Days
      <4>. QED
        BY <4>1 DEF InOrder
    <3>4. \A e \in new.days : new.day < e
      BY <2>2, <2>3, <2>5
    <3>. QED
      BY <2>5, <3>3, <3>4 DEF SyncKept
  <2>. QED
    BY <1>1, <2>6, <2>7, OneSyncSteps DEF HistoryInv
<1>. QED
  BY <1>4, <1>5

LEMMA ReadKeeps ==
  ASSUME AnalyticsInv, HistoryInv, NEW s \in Requests, Analytics!ReadHashes(s)
  PROVE  missed' = {} => AllKept'
<1>1. UNCHANGED <<visited, counted, entered, stats, missed, hashes, activity, firstSeen>> /\ sync \in [Requests -> SyncRecords]
  BY DEF Analytics!ReadHashes, Analytics!redis, Analytics!postgres, Analytics!history, AnalyticsInv
<1>2. PICK r \in SyncRecords : r = sync[s]
  BY <1>1
<1>3. r.pc = "read" /\ r.day \in Analytics!Days
  BY <1>2, SyncDays DEF Analytics!ReadHashes
<1>4. PICK new : new = [r EXCEPT !.pc = "commit", !.rows = hashes[r.day]]
  OBVIOUS
<1>5. new.pc = "commit" /\ new.day = r.day /\ new.days = r.days /\ new.rows = hashes[r.day]
  BY <1>4 DEF SyncRecords
<1>6. Analytics!Step(s, new)
  BY <1>2, <1>4 DEF Analytics!ReadHashes
<1>7. ASSUME missed = {} PROVE SyncKept(new)
  <2>1. SyncKept(r) /\ HashesKept
    BY <1>2, <1>7 DEF HistoryInv, AllKept, SyncsKept
  <2>2. InOrder(new)
    BY <1>5, <2>1 DEF SyncKept, InOrder
  <2>3. Kept(new.rows, new.day)
    BY <1>3, <1>5, <2>1 DEF HashesKept
  <2>. QED
    BY <1>3, <1>5, <2>1, <2>2, <2>3 DEF SyncKept
<1>. QED
  BY <1>1, <1>6, <1>7, OneSyncSteps DEF HistoryInv

LEMMA FailKeeps ==
  ASSUME AnalyticsInv, HistoryInv, NEW s \in Requests, Analytics!SyncFails(s)
  PROVE  missed' = {} => AllKept'
<1>1. UNCHANGED <<visited, counted, entered, stats, missed, hashes, activity, firstSeen>> /\ sync \in [Requests -> SyncRecords]
  BY DEF Analytics!SyncFails, Analytics!redis, Analytics!postgres, Analytics!history, AnalyticsInv
<1>2. Analytics!Step(s, Analytics!NoSync)
  BY DEF Analytics!SyncFails
<1>. QED
  BY <1>1, <1>2, NoSyncKept, OneSyncSteps DEF HistoryInv

LEMMA DeleteKeeps ==
  ASSUME AnalyticsInv, HistoryInv, NEW s \in Requests, Analytics!DeleteKeys(s)
  PROVE  missed' = {} => AllKept'
<1>. SUFFICES ASSUME missed' = {} PROVE AllKept'
  OBVIOUS
<1>1. UNCHANGED <<visited, counted, entered, stats, missed, activity, firstSeen>> /\ sync \in [Requests -> SyncRecords]
  BY DEF Analytics!DeleteKeys, Analytics!postgres, Analytics!history, AnalyticsInv
<1>2. PICK r \in SyncRecords : r = sync[s]
  BY <1>1
<1>3. r.pc = "delete" /\ r.day \in Analytics!Days
  BY <1>2, SyncDays DEF Analytics!DeleteKeys
<1>4. AllKept /\ SyncKept(r) /\ stats[r.day].saved
  BY <1>1, <1>2, <1>3 DEF HistoryInv, AllKept, SyncsKept, SyncKept
<1>5. PICK new : new = [r EXCEPT !.pc = "pick", !.day = 0, !.rows = Analytics!NoSync.rows]
  OBVIOUS
<1>6. new.pc = "pick" /\ new.day = 0 /\ new.days = r.days
  BY <1>5 DEF SyncRecords
<1>7. Analytics!Step(s, new)
  BY <1>2, <1>5 DEF Analytics!DeleteKeys, Analytics!Never
<1>8. \A column, d : Truthful(column, d) = Truthful(column, d)'
  BY <1>1 DEF Truthful
<1>9. \A d : Unvisited(d) = Unvisited(d)'
  BY <1>1 DEF Unvisited
<1>10. \A d : Told(d) = Told(d)'
  BY <1>1, <1>9 DEF Told
<1>11. \A column, d : Kept(column, d) = Kept(column, d)'
  BY <1>1, <1>8 DEF Kept, Blank
<1>12. HashesKept'
  <2>1. hashes' = [hashes EXCEPT ![r.day] = [v \in Visitors |-> Analytics!Nobody]]
    BY <1>2 DEF Analytics!DeleteKeys, Analytics!Empty
  <2>2. hashes \in [Analytics!Days -> Columns]
    BY DEF AnalyticsInv
  <2>3. Kept(hashes'[r.day], r.day)
    BY <1>3, <1>4, <2>1, <2>2 DEF Kept, Blank
  <2>4. \A d \in Analytics!Days : d # r.day => hashes'[d] = hashes[d]
    BY <2>1, <2>2
  <2>. QED
    BY <1>4, <1>11, <2>3, <2>4 DEF AllKept, HashesKept
<1>13. SyncsKept'
  <2>1. InOrder(new)
    <3>1. ASSUME NEW c \in new.days \cup {new.day}, NEW e \in Analytics!Days, e < c
          PROVE  e \in new.days \/ e = new.day \/ Told(e)
      <4>1. c \in r.days
        BY <1>6, <3>1, BoundsAssumption DEF Analytics!Days
      <4>2. e \in r.days \/ e = r.day \/ Told(e)
        BY <1>4, <3>1, <4>1 DEF SyncKept, InOrder
      <4>. QED
        BY <1>4, <1>6, <4>2 DEF Told
    <3>. QED
      BY <3>1 DEF InOrder
  <2>2. SyncKept(new)
    BY <1>6, <2>1 DEF SyncKept
  <2>3. \A q : SyncKept(q) => SyncKept(q)'
    BY <1>1, <1>10, <1>11 DEF SyncKept, InOrder
  <2>4. \A q \in Requests : sync'[q] = new \/ sync'[q] = sync[q]
    BY <1>1, <1>7 DEF Analytics!Step
  <2>. QED
    BY <1>4, <2>2, <2>3, <2>4 DEF AllKept, SyncsKept
<1>14. DaysRight'
  BY <1>1, <1>4, <1>8, <1>10 DEF AllKept, DaysRight, Right, Untouched, Blank
<1>15. FirstsRight'
  BY <1>1, <1>4 DEF AllKept, FirstsRight
<1>. QED
  BY <1>12, <1>13, <1>14, <1>15 DEF AllKept

(* The sums of the models, as instances of Functions and as those of Sums. *)
LEMMA AnalyticsSums == \A f : Analytics!SumFunction(f) = SumFunctionOnSet(f, DOMAIN f)
BY DEF Analytics!SumFunction, Analytics!SumFunctionOnSet, Analytics!FoldFunctionOnSet, Analytics!MapThenFoldSet,
       SumFunctionOnSet, FoldFunctionOnSet, MapThenFoldSet

LEMMA AnalyticsCardinality == \A S : Analytics!Cardinality(S) = Cardinality(S)
BY DEF Analytics!Cardinality, Cardinality, Analytics!IsFiniteSet, IsFiniteSet

(* What a committed day says of that day: the rows it was read from, or,   *)
(* when those were gone, what an earlier commit made of them.              *)
LEMMA CommittedDay ==
  ASSUME AnalyticsInv, HistoryInv, missed = {}, NEW s \in Requests, Analytics!CommitDay(s),
         NEW d \in Analytics!Days, d = sync[s].day
  PROVE  /\ Truthful(activity'[d], d)
         /\ \A v \in Visitors : sync[s].rows[v].audience # "none" => v \in visited[d]
         /\ \A v \in Visitors : v \in visited[d] => sync[s].rows[v].audience # "none" \/ stats[d].saved
<1>1. PICK r \in SyncRecords : r = sync[s] /\ r.day = d /\ r.pc = "commit"
  BY DEF AnalyticsInv, Analytics!CommitDay
<1>2. Kept(r.rows, d) /\ DaysRight
  BY <1>1 DEF HistoryInv, AllKept, SyncsKept, SyncKept
<1>3. PICK column : column = [v \in Visitors |-> IF r.rows[v].audience # "none" THEN r.rows[v] ELSE activity[d][v]]
  OBVIOUS
<1>4. activity'[d] = column
  <2>1. activity' = [activity EXCEPT ![d] = column]
    BY <1>1, <1>3 DEF Analytics!CommitDay, Analytics!Upsert
  <2>. QED
    BY <2>1 DEF AnalyticsInv
<1>5. Analytics!Nobody.audience = "none"
  BY DEF Analytics!Nobody
<1>6. CASE Truthful(r.rows, d)
  <2>1. \A v \in Visitors : column[v] = r.rows[v]
    <3>. SUFFICES ASSUME NEW v \in Visitors, r.rows[v].audience = "none" PROVE activity[d][v] = r.rows[v]
      BY <1>3
    <3>1. v \notin visited[d] /\ r.rows[v] = Analytics!Nobody
      BY <1>6 DEF Truthful
    <3>. QED
      BY <1>2, <3>1 DEF DaysRight, Right, Untouched, Truthful, Blank
  <2>2. Truthful(column, d)
    BY <1>6, <2>1 DEF Truthful
  <2>. QED
    BY <1>1, <1>4, <1>5, <1>6, <2>2 DEF Truthful
<1>7. CASE stats[d].saved /\ Blank(r.rows)
  <2>1. \A v \in Visitors : column[v] = activity[d][v]
    BY <1>3, <1>5, <1>7 DEF Blank
  <2>2. Truthful(activity[d], d)
    BY <1>2, <1>7 DEF DaysRight, Right
  <2>3. Truthful(column, d)
    BY <2>1, <2>2 DEF Truthful
  <2>. QED
    BY <1>1, <1>4, <1>5, <1>7, <2>3 DEF Blank
<1>. QED
  BY <1>2, <1>6, <1>7 DEF Kept

(* What the statistics of a day are when its activity is what happened.    *)
LEMMA StatsAreRight ==
  ASSUME AnalyticsInv, CountsInv, NEW d \in Analytics!Days, Truthful(activity'[d], d)
  PROVE  /\ Analytics!StatsOf(d).saved /\ Analytics!StatsOf(d).visitors = visited[d]
         /\ Analytics!StatsOf(d).new = {v \in Visitors : firstSeen'[v] = d}
         /\ Analytics!StatsOf(d).sessions = SumFunctionOnSet(entered[d], Visitors)
         /\ Analytics!StatsOf(d).views = SumFunctionOnSet(counted[d], Visitors)
<1>1. Analytics!StatsOf(d).visitors = visited[d]
  <2>1. \A v \in Visitors : activity'[d][v] # Analytics!Nobody <=> v \in visited[d]
    BY DEF Truthful
  <2>2. visited[d] \subseteq Visitors
    BY DEF AnalyticsInv
  <2>. QED
    BY <2>1, <2>2 DEF Analytics!StatsOf, Analytics!Active
<1>2. PICK f, g : f = [v \in Visitors |-> activity'[d][v].sessions] /\ g = [v \in Visitors |-> activity'[d][v].views]
  OBVIOUS
<1>3. DOMAIN f = Visitors /\ DOMAIN g = Visitors /\ \A v \in Visitors : f[v] = entered[d][v] /\ g[v] = counted[d][v]
  BY <1>2 DEF Truthful
<1>4. /\ Analytics!StatsOf(d).sessions = SumFunctionOnSet(f, Visitors)
      /\ Analytics!StatsOf(d).views = SumFunctionOnSet(g, Visitors)
  BY <1>2, <1>3, AnalyticsSums DEF Analytics!StatsOf
<1>5. /\ SumFunctionOnSet(f, Visitors) = SumFunctionOnSet(entered[d], Visitors)
      /\ SumFunctionOnSet(g, Visitors) = SumFunctionOnSet(counted[d], Visitors)
  BY <1>3, SumOfEquals, VisitorsAssumption
<1>6. Analytics!StatsOf(d).saved /\ Analytics!StatsOf(d).new = {v \in Visitors : firstSeen'[v] = d}
  BY DEF Analytics!StatsOf
<1>. QED
  BY <1>1, <1>4, <1>5, <1>6

LEMMA CommitKeeps ==
  ASSUME AnalyticsInv, HistoryInv, NEW s \in Requests, Analytics!CommitDay(s)
  PROVE  missed' = {} => AllKept'
<1>. SUFFICES ASSUME missed' = {} PROVE AllKept'
  OBVIOUS
<1>1. UNCHANGED <<visited, counted, entered, missed, hashes>> /\ sync \in [Requests -> SyncRecords]
  BY DEF Analytics!CommitDay, Analytics!redis, Analytics!history, AnalyticsInv
<1>2. PICK r \in SyncRecords : r = sync[s]
  BY <1>1
<1>3. r.pc = "commit" /\ r.day \in Analytics!Days
  BY <1>2, SyncDays DEF Analytics!CommitDay
<1>4. PICK d0 \in Analytics!Days : d0 = r.day
  BY <1>3
<1>5. AllKept /\ SyncKept(r) /\ CountsInv /\ missed = {}
  BY <1>1, <1>2 DEF HistoryInv, AllKept, SyncsKept
<1>6. Truthful(activity'[d0], d0)
      /\ (\A v \in Visitors : r.rows[v].audience # "none" => v \in visited[d0])
      /\ (\A v \in Visitors : v \in visited[d0] => r.rows[v].audience # "none" \/ stats[d0].saved)
  BY <1>2, <1>4, <1>5, CommittedDay
<1>7. stats' = [stats EXCEPT ![d0] = Analytics!StatsOf(d0)]
  BY <1>2, <1>4 DEF Analytics!CommitDay
<1>8. stats'[d0] = Analytics!StatsOf(d0) /\ \A d \in Analytics!Days : d # d0 => stats'[d] = stats[d]
  BY <1>7 DEF AnalyticsInv
<1>9. stats'[d0].saved /\ \A d \in Analytics!Days : stats[d].saved => stats'[d].saved
  BY <1>5, <1>6, <1>8, StatsAreRight
<1>10. /\ \A d \in Analytics!Days : Told(d) => Told(d)'
       /\ \A column, d : d \in Analytics!Days /\ Kept(column, d) => Kept(column, d)'
  BY <1>1, <1>9, Monotone
<1>11. \A d \in Analytics!Days : d # d0 => activity'[d] = activity[d]
  <2>1. PICK column : activity' = [activity EXCEPT ![d0] = column]
    BY <1>2, <1>4 DEF Analytics!CommitDay
  <2>. QED
    BY <2>1 DEF AnalyticsInv
<1>12. HashesKept'
  BY <1>1, <1>5, <1>10 DEF AllKept, HashesKept
<1>13. SyncsKept'
  <2>1. PICK new \in SyncRecords : new = [r EXCEPT !.pc = "delete"]
    BY DEF SyncRecords
  <2>2. new.pc = "delete" /\ new.day = r.day /\ new.days = r.days
    BY <2>1 DEF SyncRecords
  <2>3. \A q \in Requests : sync'[q] = new \/ sync'[q] = sync[q]
    BY <1>1, <1>2, <2>1 DEF Analytics!CommitDay, Analytics!Step
  <2>4. SyncKept(new)'
    <3>1. InOrder(new)'
      BY <1>5, <1>10, <2>2 DEF SyncKept, InOrder
    <3>. QED
      BY <1>3, <1>4, <1>5, <1>9, <2>2, <3>1 DEF SyncKept
  <2>5. ASSUME NEW q \in Requests PROVE \A o : o = sync[q] => SyncKept(o)'
    <3>. SUFFICES ASSUME NEW o, o = sync[q] PROVE SyncKept(o)'
      OBVIOUS
    <3>1. SyncKept(o) /\ o \in SyncRecords /\ (o.pc \in {"read", "commit", "delete"} => o.day \in Analytics!Days)
      BY <1>5, SyncDays DEF AllKept, SyncsKept
    <3>. QED
      BY <1>1, <1>9, <3>1, SyncMonotone
  <2>6. ASSUME NEW q \in Requests PROVE \A o : o = sync'[q] => SyncKept(o)'
    BY <2>3, <2>4, <2>5
  <2>. QED
    BY <2>6 DEF SyncsKept
<1>14. DaysRight'
  <2>. SUFFICES ASSUME NEW d \in Analytics!Days
                PROVE  (IF stats[d].saved THEN Right(d) /\ \A e \in Analytics!Days : e < d => Told(e) ELSE Untouched(d))'
    BY DEF DaysRight
  <2>1. CASE d # d0
    <3>1. stats'[d] = stats[d] /\ activity'[d] = activity[d]
      BY <1>8, <1>11, <2>1
    <3>2. IF stats[d].saved THEN Right(d) /\ \A e \in Analytics!Days : e < d => Told(e) ELSE Untouched(d)
      BY <1>5 DEF AllKept, DaysRight
    <3>3. Right(d) => Right(d)'
      BY <1>1, <3>1 DEF Right, Truthful
    <3>4. Untouched(d) => Untouched(d)'
      BY <3>1 DEF Untouched, Blank
    <3>. QED
      BY <1>10, <3>1, <3>2, <3>3, <3>4
  <2>2. CASE d = d0
    <3>1. Right(d)'
      <4>1. /\ stats'[d].visitors = visited[d]
            /\ stats'[d].sessions = SumFunctionOnSet(entered[d], Visitors)
            /\ stats'[d].views = SumFunctionOnSet(counted[d], Visitors)
        BY <1>5, <1>6, <1>8, <2>2, StatsAreRight
      <4>2. Truthful(activity[d], d)'
        BY <1>1, <1>6, <2>2 DEF Truthful
      <4>. QED
        BY <1>1, <4>1, <4>2 DEF Right
    <3>2. \A e \in Analytics!Days : e < d => Told(e)'
      <4>. SUFFICES ASSUME NEW e \in Analytics!Days, e < d PROVE Told(e)
        BY <1>10
      <4>1. e \in r.days \/ e = r.day \/ Told(e)
        BY <1>4, <1>5, <2>2 DEF SyncKept, InOrder
      <4>2. \A c \in r.days : r.day < c
        BY <1>3, <1>5 DEF SyncKept
      <4>3. e \in Nat /\ d \in Nat
        BY BoundsAssumption DEF Analytics!Days
      <4>. QED
        BY <1>4, <2>2, <4>1, <4>2, <4>3
    <3>. QED
      BY <1>9, <2>2, <3>1, <3>2
  <2>. QED
    BY <2>1, <2>2
<1>15. FirstsRight'
  <2>1. FirstsRight
    BY <1>5 DEF AllKept
  <2>2. firstSeen' = [v \in Visitors |-> IF r.rows[v].audience # "none" THEN Analytics!Least(firstSeen[v], d0)
                                         ELSE firstSeen[v]]
    BY <1>2, <1>4 DEF Analytics!CommitDay
  <2>3. \A v \in Visitors : firstSeen[v] \in Nat /\ counted[d0][v] \in Nat
    BY <1>5, BoundsAssumption DEF AnalyticsInv, CountsInv
  <2>4. d0 \in Nat /\ d0 # 0 /\ Analytics!Days \subseteq Nat /\ 0 \notin Analytics!Days
    BY BoundsAssumption DEF Analytics!Days
  <2>5. \A v \in Visitors : firstSeen'[v] = firstSeen[v] \/ (firstSeen'[v] = d0 /\ r.rows[v].audience # "none")
    BY <2>2 DEF Analytics!Least
  <2>6. ASSUME NEW v \in Visitors PROVE firstSeen[v] # 0 => firstSeen'[v] # 0 /\ firstSeen'[v] <= firstSeen[v]
    BY <2>2, <2>3, <2>4 DEF Analytics!Least, Analytics!Never
  <2>7. \A v \in Visitors : firstSeen[v] # 0 => firstSeen[v] \in Analytics!Days
    BY BoundsAssumption DEF AnalyticsInv, Analytics!Days
  <2>8. ASSUME NEW v \in Visitors, firstSeen[v] # 0, firstSeen'[v] # firstSeen[v] PROVE FALSE
    <3>1. firstSeen'[v] = d0 /\ d0 < firstSeen[v] /\ v \in visited[d0]
      BY <1>6, <2>3, <2>4, <2>5, <2>6, <2>8
    <3>2. stats[firstSeen[v]].saved
      BY <2>1, <2>8 DEF FirstsRight
    <3>3. Told(d0)
      BY <1>5, <2>7, <2>8, <3>1, <3>2 DEF AllKept, DaysRight
    <3>4. stats[d0].saved
      BY <2>3, <3>1, <3>3 DEF Told, Unvisited
    <3>5. firstSeen[v] <= d0
      BY <2>1, <3>1, <3>4 DEF FirstsRight
    <3>. QED
      BY <2>3, <2>4, <3>1, <3>5
  <2>9. ASSUME NEW d \in Analytics!Days PROVE stats'[d].new = {v \in Visitors : firstSeen'[v] = d}
    <3>1. CASE d = d0
      BY <1>5, <1>6, <1>8, <3>1, StatsAreRight
    <3>2. CASE d # d0
      <4>1. stats'[d].new = {v \in Visitors : firstSeen[v] = d}
        BY <1>8, <2>1, <3>2 DEF FirstsRight
      <4>2. \A v \in Visitors : firstSeen'[v] = d <=> firstSeen[v] = d
        BY <2>4, <2>5, <2>8, <3>2
      <4>. QED
        BY <4>1, <4>2
    <3>. QED
      BY <3>1, <3>2
  <2>10. ASSUME NEW v \in Visitors, firstSeen'[v] # 0
         PROVE  stats'[firstSeen'[v]].saved /\ v \in visited[firstSeen'[v]]
    <3>1. CASE firstSeen'[v] = firstSeen[v]
      BY <1>9, <2>1, <2>7, <2>10, <3>1 DEF FirstsRight
    <3>2. CASE firstSeen'[v] = d0 /\ r.rows[v].audience # "none"
      BY <1>6, <1>9, <3>2
    <3>. QED
      BY <2>5, <3>1, <3>2
  <2>11. ASSUME NEW d \in Analytics!Days, NEW v \in Visitors, stats'[d].saved, v \in visited[d]
         PROVE  firstSeen'[v] # 0 /\ firstSeen'[v] <= d
    <3>1. CASE stats[d].saved
      <4>1. firstSeen[v] # 0 /\ firstSeen[v] <= d
        BY <2>1, <2>11, <3>1 DEF FirstsRight
      <4>. QED
        BY <2>8, <4>1
    <3>2. CASE ~stats[d].saved
      <4>1. d = d0 /\ r.rows[v].audience # "none"
        BY <1>6, <1>8, <2>11, <3>2
      <4>2. firstSeen'[v] = Analytics!Least(firstSeen[v], d0)
        BY <2>2, <4>1
      <4>. QED
        BY <2>3, <2>4, <4>1, <4>2 DEF Analytics!Least, Analytics!Never
    <3>. QED
      BY <3>1, <3>2
  <2>. QED
    BY <1>1, <2>9, <2>10, <2>11 DEF FirstsRight
<1>. QED
  BY <1>12, <1>13, <1>14, <1>15 DEF AllKept

(* Nobody is counted on a day to come, a ping still underway came today or *)
(* yesterday, and once it has written its audience its visitor is counted. *)
LEMMA CountsKept ==
  ASSUME AnalyticsInv, CountsInv, [Analytics!Next]_analyticsVars
  PROVE  CountsInv'
<1>. DEFINE Later(r) == r.pc \in {"view", "opened", "expire"}
<1>1. today \in Nat /\ Analytics!Days \subseteq Nat
  BY BoundsAssumption DEF AnalyticsInv, Analytics!Days
<1>2. \A p \in Pings : ping[p].pc # "none" => ping[p].day \in today - 1 .. today /\ ping[p].day \in Nat
  BY <1>1, PingIs DEF CountsInv
<1>3. ASSUME UNCHANGED <<visited, counted, entered, today>>,
             \A p \in Pings : ping'[p].pc # "none" => ping'[p].day = today \/ (ping[p].pc # "none" /\ ping'[p].day = ping[p].day),
             \A p \in Pings : Later(ping'[p]) => ping'[p] = ping[p]
      PROVE  CountsInv'
  <2>1. \A d : Unvisited(d) <=> Unvisited(d)'
    BY <1>3 DEF Unvisited
  <2>. QED
    BY <1>1, <1>2, <1>3, <2>1 DEF CountsInv
<1>4. ASSUME NEW p \in Pings, NEW new, ping' = [ping EXCEPT ![p] = new]
      PROVE  /\ ping'[p] = new /\ \A q \in Pings : q # p => ping'[q] = ping[q]
  BY <1>4 DEF AnalyticsInv
<1>5. Analytics!NoPing.pc = "none"
  BY DEF Analytics!NoPing
<1>6. CASE UNCHANGED ping /\ UNCHANGED <<visited, counted, entered, today>>
  BY <1>3, <1>6
<1>7. ASSUME NEW p \in Pings, NEW v \in Visitors, NEW audience \in {"anonymous", "signed in"},
             Analytics!ReceivePing(p, v, audience)
      PROVE  CountsInv'
  <2>1. PICK new : new = [pc |-> "session", visitor |-> v, day |-> today, audience |-> audience, opens |-> FALSE]
    OBVIOUS
  <2>2. ping' = [ping EXCEPT ![p] = new] /\ UNCHANGED <<visited, counted, entered, today>>
    BY <1>7, <2>1 DEF Analytics!ReceivePing, Analytics!history
  <2>3. new.day = today /\ ~Later(new)
    BY <2>1
  <2>4. ping'[p] = new /\ \A q \in Pings : q # p => ping'[q] = ping[q]
    BY <1>4, <2>2
  <2>. QED
    BY <1>3, <2>2, <2>3, <2>4
<1>8. ASSUME NEW p \in Pings, Analytics!ClaimSession(p) PROVE CountsInv'
  <2>1. PICK r : r = ping[p] /\ r.pc = "session"
    BY <1>8 DEF Analytics!ClaimSession
  <2>2. PICK opens : opens = (r.visitor \notin visiting)
    OBVIOUS
  <2>3. PICK new : new = [r EXCEPT !.pc = "audience", !.opens = opens]
    OBVIOUS
  <2>4. r \in [pc : Stages, visitor : Visitors, day : Analytics!Days, audience : {"anonymous", "signed in"}, opens : BOOLEAN]
    BY <1>5, <2>1 DEF AnalyticsInv, PingRecords
  <2>5. new.day = r.day /\ ~Later(new)
    BY <2>3, <2>4
  <2>6. ping' = [ping EXCEPT ![p].pc = "audience", ![p].opens = r.visitor \notin visiting]
    BY <1>8, <2>1 DEF Analytics!ClaimSession
  <2>7. ping' = [ping EXCEPT ![p] = new]
    BY <2>1, <2>2, <2>3, <2>6
  <2>8. UNCHANGED <<visited, counted, entered, today>>
    BY <1>8 DEF Analytics!ClaimSession, Analytics!history
  <2>9. ping'[p] = new /\ \A q \in Pings : q # p => ping'[q] = ping[q]
    BY <1>4, <2>7
  <2>. QED
    BY <1>3, <2>1, <2>5, <2>8, <2>9
<1>9. ASSUME NEW p \in Pings, Analytics!LosePing(p) \/ Analytics!ExpireKeys(p) PROVE CountsInv'
  <2>1. ping' = [ping EXCEPT ![p] = Analytics!NoPing] /\ UNCHANGED <<visited, counted, entered, today>>
    BY <1>9 DEF Analytics!LosePing, Analytics!ExpireKeys, Analytics!history
  <2>2. ping'[p] = Analytics!NoPing /\ \A q \in Pings : q # p => ping'[q] = ping[q]
    BY <1>4, <2>1
  <2>. QED
    BY <1>3, <1>5, <2>1, <2>2
<1>10. ASSUME NEW p \in Pings, Analytics!WriteAudience(p) \/ Analytics!CountView(p) \/ Analytics!CountSession(p)
       PROVE  CountsInv'
  <2>1. PICK v0 \in Visitors, d0 \in Analytics!Days, view \in {0, 1}, opened \in {0, 1} :
          v0 = ping[p].visitor /\ d0 = ping[p].day /\ ping[p].pc # "none" /\ Written(v0, d0, view, opened)
    BY <1>10, CommandWritten
  <2>2. /\ ping'[p].visitor = v0 /\ ping'[p].day = d0 /\ \A q \in Pings : q # p => ping'[q] = ping[q]
        /\ today' = today
    <3>1. PICK stage : ping' = [ping EXCEPT ![p] = [ping[p] EXCEPT !.pc = stage]]
      BY <1>10, CommandsWrite DEF Writes
    <3>2. PICK r : r = ping[p] /\ r \in [pc : Stages, visitor : Visitors, day : Analytics!Days,
                                         audience : {"anonymous", "signed in"}, opens : BOOLEAN]
      BY <1>5, <2>1 DEF AnalyticsInv, PingRecords
    <3>3. ping'[p] = [r EXCEPT !.pc = stage] /\ \A q \in Pings : q # p => ping'[q] = ping[q]
      BY <1>4, <3>1, <3>2
    <3>4. today' = today
      BY <1>10 DEF Analytics!WriteAudience, Analytics!CountView, Analytics!CountSession
    <3>. QED
      BY <2>1, <3>2, <3>3, <3>4
  <2>3. \A d \in Analytics!Days : d > today => Unvisited(d)'
    <3>1. \A d \in Analytics!Days : d > today => d # d0 /\ Unvisited(d)
      BY <1>1, <2>1 DEF CountsInv, Written
    <3>. QED
      BY <2>1, <3>1 DEF Unvisited, Written
  <2>4. \A q \in Pings : ping'[q].pc # "none" => ping'[q].day \in today - 1 .. today
    <3>1. d0 \in today - 1 .. today
      BY <2>1 DEF Written
    <3>. QED
      BY <1>2, <2>2, <3>1
  <2>5. counted' \in [Analytics!Days -> [Visitors -> Nat]] /\ entered' \in [Analytics!Days -> [Visitors -> Nat]]
    BY <2>1 DEF Written
  <2>6. \A d \in Analytics!Days : visited[d] \subseteq visited'[d]
    BY <2>1 DEF Written
  <2>7. \A d \in Analytics!Days, v \in Visitors : v \notin visited'[d] => counted'[d][v] = 0 /\ entered'[d][v] = 0
    <3>. SUFFICES ASSUME NEW d \in Analytics!Days, NEW v \in Visitors, v \notin visited'[d]
                  PROVE  counted'[d][v] = 0 /\ entered'[d][v] = 0
      OBVIOUS
    <3>1. d # d0 \/ v # v0
      BY <2>1 DEF Written
    <3>2. counted'[d][v] = counted[d][v] /\ entered'[d][v] = entered[d][v]
      BY <2>1, <3>1 DEF Written
    <3>3. v \notin visited[d]
      BY <2>6
    <3>. QED
      BY <3>2, <3>3 DEF CountsInv
  <2>8. \A q \in Pings : Later(ping'[q]) => ping'[q].visitor \in visited'[ping'[q].day]
    <3>1. v0 \in visited'[d0]
      BY <2>1 DEF Written
    <3>2. \A q \in Pings : q # p /\ Later(ping[q]) => ping[q].visitor \in visited'[ping[q].day]
      BY <2>6, PingIs DEF CountsInv
    <3>. QED
      BY <2>2, <3>1, <3>2
  <2>. QED
    BY <2>2, <2>3, <2>4, <2>5, <2>7, <2>8 DEF CountsInv
<1>11. CASE Analytics!Midnight
  <2>1. today' = today + 1 /\ \A p \in Pings : ping[p].pc # "none" => ping[p].day = today
    BY <1>11 DEF Analytics!Midnight
  <2>2. UNCHANGED <<ping, visited, counted, entered>>
    BY <1>11 DEF Analytics!Midnight, Analytics!history
  <2>3. \A d : Unvisited(d) <=> Unvisited(d)'
    BY <2>2 DEF Unvisited
  <2>4. \A d \in Analytics!Days : d > today' => d > today
    <3>1. \A d, e \in Nat : d > e + 1 => d > e
      OBVIOUS
    <3>. QED
      BY <1>1, <2>1, <3>1
  <2>. QED
    BY <1>1, <2>1, <2>2, <2>3, <2>4 DEF CountsInv
<1>12. CASE UNCHANGED analyticsVars
  BY <1>6, <1>12 DEF analyticsVars
<1>13. CASE (\E v \in Visitors : Analytics!SessionExpires(v)) \/ \E d \in Analytics!Days : Analytics!DayExpires(d)
  BY <1>6, <1>13 DEF Analytics!SessionExpires, Analytics!DayExpires, Analytics!history
<1>14. CASE \E s \in Requests :
              \/ Analytics!StartSync(s) \/ Analytics!PickDay(s) \/ Analytics!ReadHashes(s)
              \/ Analytics!CommitDay(s) \/ Analytics!DeleteKeys(s) \/ Analytics!SyncFails(s)
  BY <1>6, <1>14 DEF Analytics!StartSync, Analytics!PickDay, Analytics!ReadHashes, Analytics!CommitDay, Analytics!DeleteKeys,
     Analytics!SyncFails, Analytics!history
<1>. QED
  BY <1>7, <1>8, <1>9, <1>10, <1>11, <1>12, <1>13, <1>14 DEF Analytics!Next

(* Keys that expire are those of a saved day, or missed.                   *)
LEMMA ExpiryKeeps ==
  ASSUME AnalyticsInv, HistoryInv, NEW d0 \in Analytics!Days, Analytics!DayExpires(d0)
  PROVE  missed' = {} => AllKept'
<1>. SUFFICES ASSUME missed' = {} PROVE AllKept'
  OBVIOUS
<1>1. UNCHANGED <<visited, counted, entered, stats, activity, firstSeen, sync>>
  BY DEF Analytics!DayExpires, Analytics!postgres
<1>2. hashes \in [Analytics!Days -> Columns] /\ DOMAIN hashes[d0] = Visitors
  BY DEF AnalyticsInv, Columns
<1>3. stats[d0].saved /\ missed = {}
  <2>1. \E v \in Visitors : hashes[d0][v] # Analytics!Nobody
    <3>1. hashes[d0] # [v \in Visitors |-> Analytics!Nobody] /\ hashes[d0] \in Columns
      BY <1>2 DEF Analytics!DayExpires, Analytics!Due, Analytics!Empty
    <3>. QED
      BY <3>1 DEF Columns
  <2>. QED
    BY <2>1 DEF Analytics!DayExpires
<1>4. AllKept
  BY <1>3 DEF HistoryInv
<1>5. \A column, d : Kept(column, d) = Kept(column, d)'
  BY <1>1 DEF Kept, Truthful, Blank
<1>6. HashesKept'
  <2>1. hashes' = [hashes EXCEPT ![d0] = [v \in Visitors |-> Analytics!Nobody]]
    BY DEF Analytics!DayExpires, Analytics!Empty
  <2>2. Kept(hashes'[d0], d0)
    BY <1>2, <1>3, <2>1 DEF Kept, Blank
  <2>3. \A d \in Analytics!Days : d # d0 => hashes'[d] = hashes[d]
    BY <1>2, <2>1
  <2>. QED
    BY <1>4, <1>5, <2>2, <2>3 DEF AllKept, HashesKept
<1>7. \A d : Told(d) = Told(d)'
  BY <1>1 DEF Told, Unvisited
<1>8. SyncsKept'
  <2>1. \A r : SyncKept(r) => SyncKept(r)'
    BY <1>1, <1>5, <1>7 DEF SyncKept, InOrder
  <2>. QED
    BY <1>1, <1>4, <2>1 DEF AllKept, SyncsKept
<1>9. DaysRight'
  <2>1. \A column, d : Truthful(column, d) = Truthful(column, d)'
    BY <1>1 DEF Truthful
  <2>. QED
    BY <1>1, <1>4, <1>7, <2>1 DEF AllKept, DaysRight, Right, Untouched, Blank
<1>10. FirstsRight'
  BY <1>1, <1>4 DEF AllKept, FirstsRight
<1>. QED
  BY <1>6, <1>8, <1>9, <1>10 DEF AllKept

(* As long as nothing was counted after its day had been synced and no day *)
(* expired before it was, each day is told right: by Redis until it is     *)
(* synced, by Postgres from then on.                                       *)
THEOREM HistoryIsKept == Analytics!Spec => []HistoryInv
<1>1. Analytics!Init => HistoryInv
  <2>. SUFFICES ASSUME Analytics!Init PROVE HistoryInv
    OBVIOUS
  <2>1. /\ today = 1 /\ hashes = [d \in Analytics!Days |-> [v \in Visitors |-> Analytics!Nobody]] /\ activity = hashes
        /\ firstSeen = [v \in Visitors |-> 0] /\ stats = [d \in Analytics!Days |-> Analytics!NoStats]
        /\ counted = [d \in Analytics!Days |-> [v \in Visitors |-> 0]] /\ entered = counted
        /\ visited = [d \in Analytics!Days |-> {}]
        /\ \A p \in Pings : ping[p] = Analytics!NoPing
        /\ \A s \in Requests : sync[s] = Analytics!NoSync
    BY DEF Analytics!Init, Analytics!Never, Analytics!Empty
  <2>2. Analytics!NoPing.pc = "none" /\ Analytics!NoStats.saved = FALSE /\ Analytics!NoStats.new = {}
    BY DEF Analytics!NoPing, Analytics!NoStats
  <2>3. 0 \notin Analytics!Days
    BY BoundsAssumption DEF Analytics!Days
  <2>4. CountsInv
    BY <2>1, <2>2 DEF CountsInv, Unvisited
  <2>5. \A d \in Analytics!Days : Truthful(hashes[d], d) /\ Blank(hashes[d]) /\ Blank(activity[d])
    BY <2>1 DEF Truthful, Blank, Analytics!Nobody
  <2>6. HashesKept
    BY <2>5 DEF HashesKept, Kept
  <2>7. SyncsKept
    BY <2>1, NoSyncKept DEF SyncsKept
  <2>8. DaysRight
    BY <2>1, <2>2, <2>5 DEF DaysRight, Untouched
  <2>9. FirstsRight
    BY <2>1, <2>2, <2>3 DEF FirstsRight
  <2>. QED
    BY <2>4, <2>6, <2>7, <2>8, <2>9 DEF HistoryInv, AllKept
<1>2. AnalyticsInv /\ HistoryInv /\ [Analytics!Next]_(Analytics!vars) => HistoryInv'
  <2>. SUFFICES ASSUME AnalyticsInv, HistoryInv, [Analytics!Next]_analyticsVars PROVE HistoryInv'
    BY DEF analyticsVars, Analytics!vars, Analytics!redis, Analytics!postgres, Analytics!history
  <2>1. CountsInv'
    BY CountsKept DEF HistoryInv
  <2>2. ASSUME UNCHANGED <<visited, counted, entered, stats, missed, hashes, activity, firstSeen, sync>> PROVE missed' = {} => AllKept'
    BY <2>2, NothingCounted DEF HistoryInv
  <2>3. missed' = {} => AllKept'
    <3>1. CASE UNCHANGED analyticsVars
      BY <2>2, <3>1 DEF analyticsVars
    <3>2. CASE \E p \in Pings : \/ \E v \in Visitors, audience \in {"anonymous", "signed in"} : Analytics!ReceivePing(p, v, audience)
                                \/ Analytics!ClaimSession(p) \/ Analytics!ExpireKeys(p) \/ Analytics!LosePing(p)
      BY <2>2, <3>2 DEF Analytics!ReceivePing, Analytics!ClaimSession, Analytics!ExpireKeys, Analytics!LosePing,
         Analytics!redis, Analytics!postgres, Analytics!history
    <3>3. CASE \E v \in Visitors : Analytics!SessionExpires(v)
      BY <2>2, <3>3 DEF Analytics!SessionExpires, Analytics!postgres, Analytics!history
    <3>4. CASE Analytics!Midnight
      BY <2>2, <3>4 DEF Analytics!Midnight, Analytics!redis, Analytics!postgres, Analytics!history
    <3>7. CASE \E d \in Analytics!Days : Analytics!DayExpires(d)
      BY <3>7, ExpiryKeeps
    <3>5. CASE \E p \in Pings : Analytics!WriteAudience(p) \/ Analytics!CountView(p) \/ Analytics!CountSession(p)
      BY <3>5, WriteKeeps
    <3>6. CASE \E s \in Requests :
                \/ Analytics!StartSync(s) \/ Analytics!PickDay(s) \/ Analytics!ReadHashes(s)
                \/ Analytics!CommitDay(s) \/ Analytics!DeleteKeys(s) \/ Analytics!SyncFails(s)
      BY <3>6, StartKeeps, PickKeeps, ReadKeeps, CommitKeeps, DeleteKeeps, FailKeeps
    <3>. QED
      BY <3>1, <3>2, <3>3, <3>4, <3>5, <3>6, <3>7 DEF Analytics!Next
  <2>. QED
    BY <2>1, <2>3 DEF HistoryInv
<1>. QED
  BY <1>1, <1>2, AnalyticsTyped, PTL DEF Analytics!Spec

-----------------------------------------------------------------------------
(* The report.                                                             *)

(* Every earlier day has been synced, and nothing was counted after that.  *)
AllSynced == missed = {} /\ \A d \in 1 .. (today - 1) : Analytics!PresentOn(d) = {}

LEMMA CalendarTyped ==
  ASSUME AnalyticsInv
  PROVE  /\ today \in Nat \ {0} /\ today \in Analytics!Days /\ Analytics!Days \subseteq Nat
         /\ \A d \in Nat : d # 0 /\ d <= today => d \in Analytics!Days
         /\ \A d \in Analytics!Days : d # 0 /\ d <= LastDay /\ LastDay \in Nat
BY BoundsAssumption DEF AnalyticsInv, Analytics!Days

(* The days before, in Postgres.                                           *)
LEMMA EarlierDays ==
  ASSUME AnalyticsInv, HistoryInv, AllSynced, NEW d \in Analytics!Days, d < today
  PROVE  /\ \A v \in Visitors : activity[d][v] # Analytics!Nobody <=> v \in visited[d]
         /\ stats[d].visitors = visited[d]
         /\ stats[d].sessions = SumFunctionOnSet(entered[d], Visitors)
         /\ stats[d].views = SumFunctionOnSet(counted[d], Visitors)
         /\ stats[d].new = {v \in Visitors : firstSeen[v] = d}
         /\ ~stats[d].saved => Unvisited(d)
<1>1. AllKept /\ CountsInv /\ missed = {}
  BY DEF HistoryInv, AllSynced
<1>2. visited[d] \subseteq Visitors
  BY DEF AnalyticsInv
<1>3. stats[d].new = {v \in Visitors : firstSeen[v] = d}
  BY <1>1 DEF AllKept, FirstsRight
<1>4. CASE stats[d].saved
  <2>1. Right(d)
    BY <1>1, <1>4 DEF AllKept, DaysRight
  <2>2. \A v \in Visitors : activity[d][v] # Analytics!Nobody <=> v \in visited[d]
    BY <2>1 DEF Right, Truthful
  <2>. QED
    BY <1>3, <1>4, <2>1, <2>2 DEF Right
<1>5. CASE ~stats[d].saved
  <2>1. Untouched(d)
    BY <1>1, <1>5 DEF AllKept, DaysRight
  <2>2. Analytics!PresentOn(d) = {}
    BY CalendarTyped DEF AllSynced
  <2>3. Truthful(hashes[d], d) /\ \A v \in Visitors : hashes[d][v].audience = "none"
    BY <1>1, <1>5, <2>2 DEF Analytics!PresentOn, AllKept, HashesKept, Kept
  <2>8. visited[d] = {}
    BY <1>2, <2>3 DEF Truthful
  <2>4. \A v \in Visitors : counted[d][v] = 0 /\ entered[d][v] = 0
    BY <1>1, <2>8 DEF CountsInv
  <2>5. SumFunctionOnSet(entered[d], Visitors) = 0 /\ SumFunctionOnSet(counted[d], Visitors) = 0
    BY <2>4, SumOfZeros, VisitorsAssumption
  <2>6. stats[d].visitors = {} /\ stats[d].sessions = 0 /\ stats[d].views = 0
    BY <2>1 DEF Untouched, Analytics!NoStats
  <2>7. \A v \in Visitors : activity[d][v] # Analytics!Nobody <=> v \in visited[d]
    BY <2>1, <2>8 DEF Untouched, Blank
  <2>. QED
    BY <1>3, <1>5, <2>5, <2>6, <2>7, <2>8 DEF Unvisited
<1>. QED
  BY <1>4, <1>5

(* Today, in Redis.                                                        *)
LEMMA TodayIsTruthful ==
  ASSUME AnalyticsInv, HistoryInv, AllSynced
  PROVE  /\ Truthful(hashes[today], today)
         /\ Analytics!Live = visited[today] /\ visited[today] \subseteq Visitors
<1>1. AllKept /\ CountsInv /\ today \in Analytics!Days
  BY DEF HistoryInv, AllSynced, AnalyticsInv
<1>2. ~stats[today].saved
  BY CalendarTyped DEF AnalyticsInv
<1>3. Truthful(hashes[today], today)
  BY <1>1, <1>2 DEF AllKept, HashesKept, Kept
<1>4. visited[today] \subseteq Visitors
  BY <1>1 DEF AnalyticsInv
<1>. QED
  BY <1>3, <1>4 DEF Truthful, Analytics!Live, Analytics!PresentOn

(* first_seen_on is the first of the days before.                          *)
LEMMA FirstSeenIsFirst ==
  ASSUME AnalyticsInv, HistoryInv, AllSynced, NEW v \in Visitors
  PROVE  /\ firstSeen[v] \in Nat
         /\ firstSeen[v] # 0 => /\ firstSeen[v] \in Analytics!Days /\ firstSeen[v] < today
                                /\ v \in visited[firstSeen[v]]
         /\ \A d \in Analytics!Days : d < today /\ v \in visited[d] => firstSeen[v] # 0 /\ firstSeen[v] <= d
<1>1. AllKept
  BY DEF HistoryInv, AllSynced
<1>2. firstSeen[v] \in 0 .. LastDay
  BY DEF AnalyticsInv
<1>3. firstSeen[v] \in Nat /\ (firstSeen[v] # 0 => firstSeen[v] \in Analytics!Days)
  BY <1>2, BoundsAssumption DEF Analytics!Days
<1>4. firstSeen[v] # 0 => firstSeen[v] < today /\ v \in visited[firstSeen[v]]
  BY <1>1, <1>3 DEF AllKept, FirstsRight, AnalyticsInv
<1>5. \A d \in Analytics!Days : d < today /\ v \in visited[d] => stats[d].saved
  BY EarlierDays DEF Unvisited
<1>. QED
  BY <1>1, <1>3, <1>4, <1>5 DEF AllKept, FirstsRight

(* countWindow: everybody counted since a day.                             *)
LEMMA WindowIsExact ==
  ASSUME AnalyticsInv, HistoryInv, AllSynced, NEW from \in Nat, from <= today
  PROVE  Analytics!ActiveBetween(activity, from, today - 1) \cup Analytics!Live = Analytics!SeenBetween(from, today)
<1>1. \A v : v \in Analytics!ActiveBetween(activity, from, today - 1) <=>
               v \in Visitors /\ \E d \in Analytics!Days \cap (from .. (today - 1)) : v \in visited[d]
  BY EarlierDays, CalendarTyped DEF Analytics!ActiveBetween, Analytics!Active
<1>2. \A d \in Analytics!Days : d \in from .. today <=> d = today \/ d \in from .. (today - 1)
  BY CalendarTyped
<1>3. today \in Analytics!Days
  BY CalendarTyped
<1>4. \A v : v \in Analytics!SeenBetween(from, today) <=>
               v \in Visitors /\ (v \in visited[today] \/ \E d \in Analytics!Days \cap (from .. (today - 1)) : v \in visited[d])
  BY <1>2, <1>3 DEF Analytics!SeenBetween
<1>. QED
  BY <1>1, <1>4, TodayIsTruthful

(* A window that ends before today.                                        *)
LEMMA PastWindowIsExact ==
  ASSUME AnalyticsInv, HistoryInv, AllSynced, NEW from \in Int, NEW to \in Int, to < today
  PROVE  Analytics!ActiveBetween(activity, from, to) = Analytics!SeenBetween(from, to)
BY EarlierDays, CalendarTyped DEF Analytics!ActiveBetween, Analytics!Active, Analytics!SeenBetween

(* Sums of the days before, of today, and of all of them.                  *)
LEMMA TotalsAreExact ==
  ASSUME AnalyticsInv, HistoryInv, AllSynced, NEW from \in Nat, from <= today, NEW table, NEW column, NEW present,
         table \in [Analytics!Days -> [Visitors -> Nat]], DOMAIN present = Visitors,
         \A d \in Analytics!Days : d < today => column[d] = SumFunctionOnSet(table[d], Visitors),
         \A v \in Visitors : present[v] = table[today][v]
  PROVE  Analytics!SumFunction([d \in Analytics!Synced(from) |-> column[d]]) + Analytics!SumFunction(present)
           = Analytics!SumSince(from, table)
<1>. DEFINE D == Analytics!Days \cap (from .. today)
            f == [d \in D |-> Analytics!SumFunction(table[d])]
            g == [d \in Analytics!Synced(from) |-> column[d]]
<1>1. Analytics!Synced(from) = D \ {today} /\ today \in D /\ \A d \in D \ {today} : d \in Analytics!Days /\ d < today
  <2>1. today \in D
    BY CalendarTyped
  <2>2. \A d \in Analytics!Days : d \in from .. (today - 1) <=> d \in from .. today /\ d # today
    <3>1. \A d, e \in Nat : d \in from .. (e - 1) <=> d \in from .. e /\ d # e
      OBVIOUS
    <3>. QED
      BY CalendarTyped, <3>1
  <2>3. \A d \in D \ {today} : d < today
    BY CalendarTyped
  <2>. QED
    BY <2>1, <2>2, <2>3 DEF Analytics!Synced
<1>2. IsFiniteSet(D) /\ IsFiniteSet(D \ {today})
  <2>1. IsFiniteSet(from .. today)
    BY CalendarTyped, FS_Interval
  <2>. QED
    BY <2>1, FS_Subset
<1>3. \A d \in Analytics!Days : DOMAIN table[d] = Visitors /\ \A v \in Visitors : table[d][v] \in Nat
  OBVIOUS
<1>4. \A d \in Analytics!Days : Analytics!SumFunction(table[d]) = SumFunctionOnSet(table[d], Visitors)
  BY <1>3, AnalyticsSums
<1>5. \A d \in Analytics!Days : SumFunctionOnSet(table[d], Visitors) \in Nat
  BY <1>3, SumIsNat, VisitorsAssumption
<1>6. Analytics!SumSince(from, table) = SumFunctionOnSet(f, D)
  BY AnalyticsSums DEF Analytics!SumSince
<1>7. \A d \in D : f[d] = SumFunctionOnSet(table[d], Visitors) /\ f[d] \in Int
  BY <1>4, <1>5
<1>8. Analytics!SumFunction(g) = SumFunctionOnSet(g, D \ {today})
  BY <1>1, AnalyticsSums
<1>9. \A d \in D \ {today} : g[d] = f[d]
  BY <1>1, <1>7
<1>10. Analytics!SumFunction(present) = f[today]
  <2>1. Analytics!SumFunction(present) = SumFunctionOnSet(present, Visitors)
    BY AnalyticsSums
  <2>2. SumFunctionOnSet(present, Visitors) = SumFunctionOnSet(table[today], Visitors)
    BY SumOfEquals, VisitorsAssumption
  <2>. QED
    BY <1>1, <1>7, <2>1, <2>2
<1>. HIDE DEF f, g
<1>11. SumFunctionOnSet(g, D \ {today}) = SumFunctionOnSet(f, D \ {today})
  BY <1>2, <1>9, SumOfEquals
<1>12. SumFunctionOnSet(f, D) = f[today] + SumFunctionOnSet(f, D \ {today})
  BY <1>1, <1>2, <1>7, SumTakeOut
<1>13. SumFunctionOnSet(f, D \ {today}) \in Int /\ f[today] \in Int
  BY <1>1, <1>2, <1>7, SumIsInt
<1>. QED
  BY <1>6, <1>8, <1>10, <1>11, <1>12, <1>13 DEF g

(* Of the visitors counted since a day, the new ones are those whose first *)
(* day it is, and those of today that Postgres has never visited.             *)
LEMMA NewVisitorsAreExact ==
  ASSUME AnalyticsInv, HistoryInv, AllSynced, NEW from \in Nat \ {0}, from <= today
  PROVE  Analytics!HistoryTotals(from).newVisitors + Analytics!Cardinality(Analytics!NewLiveVisitors)
           = Analytics!Cardinality(Analytics!SeenBetween(from, today) \ Analytics!SeenBetween(1, from - 1))
<1>. DEFINE D == Analytics!Synced(from)
            F == [d \in D |-> {v \in Visitors : firstSeen[v] = d}]
            f == [d \in D |-> Analytics!Cardinality(stats[d].new)]
            Old == {v \in Visitors : firstSeen[v] \in D}
            New == Analytics!NewLiveVisitors
<1>1. IsFiniteSet(D) /\ \A d \in D : d \in Analytics!Days /\ d < today
  <2>1. IsFiniteSet(from .. (today - 1))
    BY CalendarTyped, FS_Interval
  <2>. QED
    BY <2>1, FS_Subset, CalendarTyped DEF Analytics!Synced
<1>2. \A d \in D : f[d] = Cardinality(F[d])
  BY <1>1, EarlierDays, AnalyticsCardinality
<1>3. \A d \in D : IsFiniteSet(F[d])
  BY FS_Subset, VisitorsAssumption
<1>4. \A d, e \in D : d # e => F[d] \cap F[e] = {}
  OBVIOUS
<1>5. UNION {F[d] : d \in D} = Old
  OBVIOUS
<1>6. Analytics!HistoryTotals(from).newVisitors = SumFunctionOnSet(f, D)
  BY AnalyticsSums DEF Analytics!HistoryTotals
<1>7. SumFunctionOnSet(f, D) = Cardinality(Old)
  <2>. HIDE DEF D, F, f, Old
  <2>. QED
    BY <1>1, <1>2, <1>3, <1>4, <1>5, SumOfCardinalities
<1>8. New = {v \in Visitors : v \in visited[today] /\ firstSeen[v] = 0}
  BY TodayIsTruthful DEF Analytics!NewLiveVisitors, Analytics!Never
<1>9. Old \cap New = {}
  BY <1>1, <1>8, CalendarTyped
<1>10. IsFiniteSet(Old) /\ IsFiniteSet(New)
  BY <1>8, FS_Subset, VisitorsAssumption
<1>11. Cardinality(Old \cup New) = Cardinality(Old) + Cardinality(New)
  <2>1. PICK A, B : A = Old /\ B = New
    OBVIOUS
  <2>2. Cardinality(A \cup B) = Cardinality(A) + Cardinality(B) - Cardinality(A \cap B)
    BY <1>10, <2>1, FS_Union
  <2>3. Cardinality(A \cap B) = 0 /\ Cardinality(A) \in Nat /\ Cardinality(B) \in Nat
    BY <1>9, <1>10, <2>1, FS_EmptySet, FS_CardinalityType
  <2>. QED
    BY <2>1, <2>2, <2>3
<1>12. Old \cup New = Analytics!SeenBetween(from, today) \ Analytics!SeenBetween(1, from - 1)
  <2>. SUFFICES ASSUME NEW v \in Visitors
                PROVE  firstSeen[v] \in D \/ (v \in visited[today] /\ firstSeen[v] = 0)
                         <=> /\ \E d \in Analytics!Days \cap (from .. today) : v \in visited[d]
                             /\ ~\E d \in Analytics!Days \cap (1 .. (from - 1)) : v \in visited[d]
    BY <1>8 DEF Analytics!SeenBetween
  <2>1. /\ firstSeen[v] \in Nat
        /\ firstSeen[v] # 0 => firstSeen[v] \in Analytics!Days /\ firstSeen[v] < today /\ v \in visited[firstSeen[v]]
        /\ \A d \in Analytics!Days : d < today /\ v \in visited[d] => firstSeen[v] # 0 /\ firstSeen[v] <= d
    BY FirstSeenIsFirst
  <2>2. \A d \in Analytics!Days : d \in Nat \ {0}
    BY CalendarTyped
  <2>3. today \in Analytics!Days /\ today \in Nat
    BY CalendarTyped
  <2>4. firstSeen[v] \in D <=> firstSeen[v] # 0 /\ from <= firstSeen[v]
    BY <2>1, <2>2, <2>3 DEF Analytics!Synced
  <2>5. ASSUME firstSeen[v] # 0, from <= firstSeen[v]
        PROVE  /\ \E d \in Analytics!Days \cap (from .. today) : v \in visited[d]
               /\ ~\E d \in Analytics!Days \cap (1 .. (from - 1)) : v \in visited[d]
    BY <2>1, <2>2, <2>3, <2>5
  <2>6. ASSUME v \in visited[today], firstSeen[v] = 0
        PROVE  /\ \E d \in Analytics!Days \cap (from .. today) : v \in visited[d]
               /\ ~\E d \in Analytics!Days \cap (1 .. (from - 1)) : v \in visited[d]
    BY <2>1, <2>2, <2>3, <2>6
  <2>7. ASSUME NEW d \in Analytics!Days \cap (from .. today), v \in visited[d],
               ~\E e \in Analytics!Days \cap (1 .. (from - 1)) : v \in visited[e]
        PROVE  (firstSeen[v] # 0 /\ from <= firstSeen[v]) \/ (v \in visited[today] /\ firstSeen[v] = 0)
    <3>1. CASE firstSeen[v] # 0
      BY <2>1, <2>2, <2>3, <2>7, <3>1
    <3>2. CASE firstSeen[v] = 0
      BY <2>1, <2>2, <2>3, <2>7, <3>2
    <3>. QED
      BY <3>1, <3>2
  <2>. QED
    BY <2>4, <2>5, <2>6, <2>7
<1>. QED
  BY <1>6, <1>7, <1>11, <1>12, AnalyticsCardinality

(* Everybody Postgres knows and the new ones of today are everybody.       *)
LEMMA TotalVisitorsAreExact ==
  ASSUME AnalyticsInv, HistoryInv, AllSynced
  PROVE  Analytics!Cardinality({v \in Visitors : firstSeen[v] # 0}) + Analytics!Cardinality(Analytics!NewLiveVisitors)
           = Analytics!Cardinality(Analytics!SeenBetween(1, today))
<1>. DEFINE Old == {v \in Visitors : firstSeen[v] # 0}
            New == Analytics!NewLiveVisitors
<1>1. New = {v \in Visitors : v \in visited[today] /\ firstSeen[v] = 0}
  BY TodayIsTruthful DEF Analytics!NewLiveVisitors, Analytics!Never
<1>2. Old \cup New = Analytics!SeenBetween(1, today)
  <2>. SUFFICES ASSUME NEW v \in Visitors
                PROVE  firstSeen[v] # 0 \/ (v \in visited[today] /\ firstSeen[v] = 0)
                         <=> \E d \in Analytics!Days \cap (1 .. today) : v \in visited[d]
    BY <1>1 DEF Analytics!SeenBetween
  <2>1. /\ firstSeen[v] \in Nat
        /\ firstSeen[v] # 0 => firstSeen[v] \in Analytics!Days /\ firstSeen[v] < today /\ v \in visited[firstSeen[v]]
        /\ \A d \in Analytics!Days : d < today /\ v \in visited[d] => firstSeen[v] # 0 /\ firstSeen[v] <= d
    BY FirstSeenIsFirst
  <2>2. \A d \in Analytics!Days : d \in Nat \ {0}
    BY CalendarTyped
  <2>3. today \in Analytics!Days /\ today \in Nat
    BY CalendarTyped
  <2>. QED
    BY <2>1, <2>2, <2>3
<1>3. Old \cap New = {} /\ IsFiniteSet(Old) /\ IsFiniteSet(New)
  BY <1>1, FS_Subset, VisitorsAssumption
<1>4. Cardinality(Old \cup New) = Cardinality(Old) + Cardinality(New)
  <2>1. PICK A, B : A = Old /\ B = New
    OBVIOUS
  <2>2. Cardinality(A \cup B) = Cardinality(A) + Cardinality(B) - Cardinality(A \cap B)
    BY <1>3, <2>1, FS_Union
  <2>3. Cardinality(A \cap B) = 0 /\ Cardinality(A) \in Nat /\ Cardinality(B) \in Nat
    BY <1>3, <2>1, FS_EmptySet, FS_CardinalityType
  <2>. QED
    BY <2>1, <2>2, <2>3
<1>. QED
  BY <1>2, <1>4, AnalyticsCardinality

-----------------------------------------------------------------------------
(* The calendar.                                                           *)

LEMMA SinceIsPast ==
  ASSUME NEW day \in Nat \ {0}, NEW length \in Nat \ {0}
  PROVE  Analytics!Since(day, length) \in Nat \ {0} /\ Analytics!Since(day, length) <= day
BY DEF Analytics!Since

LEMMA Multiples == \A k, a, b \in Nat : k * a \in Nat /\ (a < b => k * a + k <= k * b)
<1>. SUFFICES ASSUME NEW k \in Nat, NEW a \in Nat, NEW b \in Nat
              PROVE  k * a \in Nat /\ (a < b => k * a + k <= k * b)
  OBVIOUS
<1>1. k * a \in Nat
  OBVIOUS
<1>2. ASSUME a < b PROVE k * a + k <= k * b
  <2>1. PICK c \in Nat : b = a + 1 + c
    <3>1. b - a - 1 \in Nat /\ b = a + 1 + (b - a - 1)
      BY <1>2
    <3>. QED
      BY <3>1
  <2>2. k * b = k * a + k + k * c /\ k * c \in Nat
    BY <2>1
  <2>. QED
    BY <1>1, <2>2
<1>. QED
  BY <1>1, <1>2

(* A month is MonthLength days, counted from its first.                    *)
LEMMA MonthOf ==
  ASSUME NEW day \in Nat \ {0}
  PROVE  \E q \in Nat : /\ Analytics!FirstOfMonth(day) = MonthLength * q + 1
                        /\ MonthLength * q < day /\ day <= MonthLength * q + MonthLength
<1>1. day - 1 \in Nat /\ MonthLength \in Nat \ {0}
  BY CalendarAssumption
<1>2. PICK q \in Nat, r \in Nat : q = (day - 1) \div MonthLength /\ r = (day - 1) % MonthLength
  BY <1>1
<1>3. day - 1 = MonthLength * q + r /\ r < MonthLength
  BY <1>1, <1>2
<1>4. MonthLength * q \in Nat
  BY <1>1, Multiples
<1>5. Analytics!FirstOfMonth(day) = day - r
  BY <1>2 DEF Analytics!FirstOfMonth
<1>6. /\ Analytics!FirstOfMonth(day) = MonthLength * q + 1
      /\ MonthLength * q < day /\ day <= MonthLength * q + MonthLength
  BY <1>1, <1>3, <1>4, <1>5
<1>. QED
  BY <1>6

LEMMA YearStartsWithAMonth ==
  ASSUME AnalyticsInv
  PROVE  \E k \in Nat : Analytics!WindowStart("year") = MonthLength * k + 1
<1>1. PICK q \in Nat : Analytics!FirstOfMonth(today) = MonthLength * q + 1
  BY CalendarTyped, MonthOf
<1>2. PICK y \in Nat : y = YearMonths - 1
  BY CalendarAssumption
<1>3. MonthLength * q \in Nat /\ MonthLength * y \in Nat /\ y * MonthLength = MonthLength * y /\ MonthLength * 0 = 0
  BY Multiples, CalendarAssumption
<1>4. Analytics!WindowStart("year")
        = IF MonthLength * q + 1 < MonthLength * y + 1 THEN 1 ELSE MonthLength * q + 1 - (MonthLength * y + 1) + 1
  BY <1>1, <1>2, <1>3 DEF Analytics!WindowStart, Analytics!Since
<1>5. CASE q < y
  <2>1. MonthLength * q + MonthLength <= MonthLength * y /\ MonthLength \in Nat \ {0}
    BY <1>5, Multiples, CalendarAssumption
  <2>2. Analytics!WindowStart("year") = MonthLength * 0 + 1
    BY <1>3, <1>4, <2>1
  <2>. QED
    BY <2>2
<1>6. CASE y <= q
  <2>1. PICK k \in Nat : q = y + k
    <3>1. q - y \in Nat /\ q = y + (q - y)
      BY <1>6
    <3>. QED
      BY <3>1
  <2>2. MonthLength * q = MonthLength * y + MonthLength * k /\ MonthLength * k \in Nat
    BY <2>1, CalendarAssumption
  <2>3. Analytics!WindowStart("year") = MonthLength * k + 1
    BY <1>3, <1>4, <2>2
  <2>. QED
    BY <2>3
<1>. QED
  BY <1>5, <1>6

LEMMA WindowsArePast ==
  ASSUME AnalyticsInv, HistoryInv, AllSynced, NEW timeframe \in {"days", "year", "all"}
  PROVE  Analytics!WindowStart(timeframe) \in Nat \ {0} /\ Analytics!WindowStart(timeframe) <= today
<1>1. today \in Nat \ {0}
  BY CalendarTyped
<1>2. CASE timeframe = "days"
  BY <1>1, <1>2, SinceIsPast, CalendarAssumption DEF Analytics!WindowStart
<1>3. CASE timeframe = "year"
  <2>1. PICK q \in Nat : /\ Analytics!FirstOfMonth(today) = MonthLength * q + 1
                         /\ MonthLength * q < today
    BY <1>1, MonthOf
  <2>2. PICK length \in Nat \ {0} : length = (YearMonths - 1) * MonthLength + 1
    <3>1. YearMonths - 1 \in Nat /\ MonthLength \in Nat
      BY CalendarAssumption
    <3>2. (YearMonths - 1) * MonthLength \in Nat
      BY <3>1, Multiples
    <3>. QED
      BY <3>2
  <2>3. MonthLength * q \in Nat
    BY Multiples, CalendarAssumption
  <2>4. PICK first \in Nat \ {0} : first = Analytics!FirstOfMonth(today) /\ first <= today
    BY <1>1, <2>1, <2>3
  <2>5. Analytics!WindowStart(timeframe) = Analytics!Since(first, length)
    BY <1>3, <2>2, <2>4 DEF Analytics!WindowStart
  <2>6. Analytics!Since(first, length) \in Nat \ {0} /\ Analytics!Since(first, length) <= first
    BY SinceIsPast
  <2>. QED
    BY <1>1, <2>4, <2>5, <2>6
<1>4. CASE timeframe = "all"
  <2>1. PICK firsts : firsts = {firstSeen[v] : v \in Visitors} \ {0}
    OBVIOUS
  <2>2. \A d \in firsts : d \in Nat \ {0} /\ d < today
    <3>1. \A v \in Visitors : firstSeen[v] \in Nat /\ (firstSeen[v] # 0 => firstSeen[v] < today)
      BY FirstSeenIsFirst
    <3>. QED
      BY <2>1, <3>1
  <2>3. Analytics!WindowStart(timeframe) = IF firsts = {} THEN today ELSE CHOOSE d \in firsts : \A e \in firsts : d <= e
    BY <1>4, <2>1 DEF Analytics!WindowStart, Analytics!FirstOnRecord, Analytics!Never
  <2>4. firsts # {} => \E d \in firsts : \A e \in firsts : d <= e
    <3>1. firsts \in SUBSET Nat
      BY <2>2
    <3>. QED
      BY <3>1, HasEarliest
  <2>. QED
    BY <1>1, <2>2, <2>3, <2>4
<1>. QED
  BY <1>2, <1>3, <1>4

(* Every charted day: today from Redis, the days before as they were saved. *)
LEMMA DailySeriesIsExact ==
  ASSUME AnalyticsInv, HistoryInv, AllSynced, NEW from \in Nat \ {0}, from <= today
  PROVE  Analytics!DailySeries(from) =
           [d \in from .. today |->
              [dau |-> Analytics!SeenBetween(d, d),
               mau |-> Analytics!Cardinality(Analytics!SeenBetween(Analytics!Since(d, RollingWindow), d))]]
<1>. DEFINE expected(d) == [dau |-> Analytics!SeenBetween(d, d),
                            mau |-> Analytics!Cardinality(Analytics!SeenBetween(Analytics!Since(d, RollingWindow), d))]
            given(d) == IF d = today
                        THEN [dau |-> Analytics!Live,
                              mau |-> Analytics!CountWindow(Analytics!Since(today, RollingWindow))]
                        ELSE [dau |-> stats[d].visitors,
                              mau |-> Analytics!Cardinality(Analytics!ActiveBetween(activity, Analytics!Since(d, RollingWindow), d))]
<1>1. \A d \in Analytics!Days : Analytics!SeenBetween(d, d) = visited[d]
  BY CalendarTyped DEF Analytics!SeenBetween, AnalyticsInv
<1>2. ASSUME NEW d \in from .. today PROVE given(d) = expected(d)
  <2>1. d \in Nat \ {0} /\ d <= today /\ d \in Analytics!Days /\ today \in Nat
    BY CalendarTyped
  <2>2. PICK since \in Nat \ {0} : since = Analytics!Since(d, RollingWindow) /\ since <= d
    BY <2>1, SinceIsPast, CalendarAssumption
  <2>3. CASE d = today
    <3>1. Analytics!Live = Analytics!SeenBetween(d, d)
      BY <1>1, <2>1, <2>3, TodayIsTruthful
    <3>2. Analytics!CountWindow(since) = Analytics!Cardinality(Analytics!SeenBetween(since, d))
      BY <2>2, <2>3, WindowIsExact DEF Analytics!CountWindow
    <3>. QED
      BY <2>2, <2>3, <3>1, <3>2
  <2>4. CASE d # today
    <3>1. d < today
      BY <2>1, <2>4
    <3>2. stats[d].visitors = Analytics!SeenBetween(d, d)
      BY <1>1, <2>1, <3>1, EarlierDays
    <3>3. Analytics!ActiveBetween(activity, since, d) = Analytics!SeenBetween(since, d)
      BY <2>1, <3>1, PastWindowIsExact
    <3>. QED
      BY <2>2, <2>4, <3>2, <3>3
  <2>. QED
    BY <2>3, <2>4
<1>3. Analytics!DailySeries(from) = [d \in from .. today |-> given(d)]
  BY DEF Analytics!DailySeries
<1>. HIDE DEF given, expected
<1>4. [d \in from .. today |-> given(d)] = [d \in from .. today |-> expected(d)]
  BY <1>2
<1>. QED
  BY <1>3, <1>4 DEF expected

(* Every charted month is counted from its first day to its last, this one *)
(* to today.                                                               *)
LEMMA MonthlySeriesIsExact ==
  ASSUME AnalyticsInv, HistoryInv, AllSynced, NEW m \in DOMAIN Analytics!MonthlySeries(Analytics!WindowStart("year"))
  PROVE  Analytics!MonthlySeries(Analytics!WindowStart("year"))[m]
           = Analytics!Cardinality(Analytics!SeenBetween(m, m + MonthLength - 1))
<1>. DEFINE from == Analytics!WindowStart("year")
<1>1. today \in Nat \ {0} /\ from \in Nat \ {0} /\ from <= today
  BY CalendarTyped, WindowsArePast
<1>2. PICK d \in from .. today : m = Analytics!FirstOfMonth(d)
  BY DEF Analytics!MonthlySeries
<1>3. Analytics!MonthlySeries(from)[m] =
        IF m = Analytics!FirstOfMonth(today) THEN Analytics!CountWindow(m)
        ELSE Analytics!Cardinality(Analytics!ActiveBetween(activity, Analytics!Later(m, from), m + MonthLength - 1))
  BY <1>2 DEF Analytics!MonthlySeries
<1>4. d \in Nat \ {0} /\ d <= today /\ from <= d
  BY <1>1, <1>2
<1>5. PICK q \in Nat : m = MonthLength * q + 1 /\ MonthLength * q < d /\ d <= MonthLength * q + MonthLength
  BY <1>2, <1>4, MonthOf
<1>6. PICK t \in Nat : /\ Analytics!FirstOfMonth(today) = MonthLength * t + 1
                       /\ MonthLength * t < today /\ today <= MonthLength * t + MonthLength
  BY <1>1, MonthOf
<1>7. PICK k \in Nat : from = MonthLength * k + 1
  BY YearStartsWithAMonth
<1>. HIDE DEF from
<1>8. /\ MonthLength \in Nat \ {0} /\ MonthLength * q \in Nat /\ MonthLength * t \in Nat /\ MonthLength * k \in Nat
      /\ q < k => MonthLength * q + MonthLength <= MonthLength * k
      /\ q < t => MonthLength * q + MonthLength <= MonthLength * t
      /\ t < q => MonthLength * t + MonthLength <= MonthLength * q
      /\ k < q => MonthLength * k + MonthLength <= MonthLength * q
  BY Multiples, CalendarAssumption
<1>9. from <= m
  <2>1. ~(q < k)
    BY <1>4, <1>5, <1>7, <1>8
  <2>2. k = q \/ k < q
    BY <2>1
  <2>. QED
    BY <1>5, <1>7, <1>8, <2>2
<1>10. PICK mq \in Nat, mt \in Nat :
         /\ m = mq + 1 /\ mq < d /\ d <= mq + MonthLength
         /\ Analytics!FirstOfMonth(today) = mt + 1 /\ mt < today /\ today <= mt + MonthLength
         /\ (q = t => mq = mt) /\ (q < t => mq + MonthLength <= mt) /\ (t < q => mt + MonthLength <= mq)
  <2>1. PICK mq \in Nat, mt \in Nat : mq = MonthLength * q /\ mt = MonthLength * t
    BY <1>8
  <2>. QED
    BY <1>5, <1>6, <1>8, <2>1
<1>11. CASE m = Analytics!FirstOfMonth(today)
  <2>1. m \in Nat /\ m <= today /\ today <= m + MonthLength - 1
    BY <1>1, <1>8, <1>10, <1>11
  <2>2. Analytics!CountWindow(m) = Analytics!Cardinality(Analytics!SeenBetween(m, today))
    BY <2>1, WindowIsExact DEF Analytics!CountWindow
  <2>3. \A c \in Analytics!Days : c > today => Unvisited(c)
    BY DEF HistoryInv, CountsInv
  <2>4. Analytics!SeenBetween(m, today) = Analytics!SeenBetween(m, m + MonthLength - 1)
    <3>1. \A c \in Analytics!Days, v \in Visitors : v \in visited[c] => c <= today
      BY <1>1, <2>3, CalendarTyped DEF Unvisited
    <3>2. \A c \in Analytics!Days : c <= today => (c \in m .. today <=> c \in m .. (m + MonthLength - 1))
      BY <1>1, <1>8, <2>1, CalendarTyped
    <3>. QED
      BY <1>1, <1>8, <2>1, <3>1, <3>2, CalendarTyped DEF Analytics!SeenBetween
  <2>. QED
    BY <1>3, <1>11, <2>2, <2>4 DEF from
<1>12. CASE m # Analytics!FirstOfMonth(today)
  <2>1. ~(t < q) /\ q # t
    BY <1>1, <1>4, <1>8, <1>10, <1>12
  <2>2. m + MonthLength - 1 < today /\ m \in Nat
    BY <1>1, <1>8, <1>10, <2>1
  <2>3. Analytics!Later(m, from) = m
    BY <1>1, <1>9, <2>2 DEF Analytics!Later
  <2>4. m + MonthLength - 1 \in Int
    BY <1>8, <2>2
  <2>5. Analytics!ActiveBetween(activity, m, m + MonthLength - 1) = Analytics!SeenBetween(m, m + MonthLength - 1)
    BY <2>2, <2>4, PastWindowIsExact
  <2>. QED
    BY <1>3, <1>12, <2>3, <2>5 DEF from
<1>. QED
  BY <1>11, <1>12

(* The report of settled days is exact.                                    *)
LEMMA ReportOfTheKept ==
  ASSUME AnalyticsInv, HistoryInv
  PROVE  Analytics!ReportIsExact
<1>. SUFFICES ASSUME AllSynced
              PROVE  /\ \A timeframe \in {"days", "year", "all"} :
                          Analytics!Report(timeframe) =
                            [dau |-> Analytics!Cardinality(Analytics!SeenBetween(today, today)),
                             mau |-> Analytics!Cardinality(Analytics!SeenBetween(Analytics!Since(today, RollingWindow), today)),
                             newVisitors |-> Analytics!Cardinality(Analytics!SeenBetween(Analytics!WindowStart(timeframe), today)
                                                                   \ Analytics!SeenBetween(1, Analytics!WindowStart(timeframe) - 1)),
                             totalVisitors |-> Analytics!Cardinality(Analytics!SeenBetween(1, today)),
                             sessions |-> Analytics!SumSince(Analytics!WindowStart(timeframe), entered),
                             pageViews |-> Analytics!SumSince(Analytics!WindowStart(timeframe), counted)]
                     /\ Analytics!DailySeries(Analytics!WindowStart("days")) =
                          [d \in Analytics!WindowStart("days") .. today |->
                             [dau |-> Analytics!SeenBetween(d, d),
                              mau |-> Analytics!Cardinality(Analytics!SeenBetween(Analytics!Since(d, RollingWindow), d))]]
                     /\ \A m \in DOMAIN Analytics!MonthlySeries(Analytics!WindowStart("year")) :
                          Analytics!MonthlySeries(Analytics!WindowStart("year"))[m]
                            = Analytics!Cardinality(Analytics!SeenBetween(m, m + MonthLength - 1))
  BY Zenon DEF Analytics!ReportIsExact, AllSynced
<1>1. today \in Nat \ {0} /\ today \in Analytics!Days
  BY CalendarTyped
<1>2. ASSUME NEW timeframe \in {"days", "year", "all"}
      PROVE  Analytics!Report(timeframe) =
               [dau |-> Analytics!Cardinality(Analytics!SeenBetween(today, today)),
                mau |-> Analytics!Cardinality(Analytics!SeenBetween(Analytics!Since(today, RollingWindow), today)),
                newVisitors |-> Analytics!Cardinality(Analytics!SeenBetween(Analytics!WindowStart(timeframe), today)
                                                      \ Analytics!SeenBetween(1, Analytics!WindowStart(timeframe) - 1)),
                totalVisitors |-> Analytics!Cardinality(Analytics!SeenBetween(1, today)),
                sessions |-> Analytics!SumSince(Analytics!WindowStart(timeframe), entered),
                pageViews |-> Analytics!SumSince(Analytics!WindowStart(timeframe), counted)]
  <2>1. PICK from \in Nat \ {0} : from = Analytics!WindowStart(timeframe) /\ from <= today
    BY WindowsArePast
  <2>2. PICK since \in Nat \ {0} : since = Analytics!Since(today, RollingWindow) /\ since <= today
    BY <1>1, SinceIsPast, CalendarAssumption
  <2>3. Analytics!Live = Analytics!SeenBetween(today, today)
    BY <1>1, TodayIsTruthful DEF Analytics!SeenBetween
  <2>4. Analytics!CountWindow(since) = Analytics!Cardinality(Analytics!SeenBetween(since, today))
    BY <2>2, WindowIsExact DEF Analytics!CountWindow
  <2>5. Analytics!HistoryTotals(from).newVisitors + Analytics!Cardinality(Analytics!NewLiveVisitors)
          = Analytics!Cardinality(Analytics!SeenBetween(from, today) \ Analytics!SeenBetween(1, from - 1))
    BY <2>1, NewVisitorsAreExact
  <2>6. Analytics!Cardinality({v \in Visitors : firstSeen[v] # Analytics!Never}) + Analytics!Cardinality(Analytics!NewLiveVisitors)
          = Analytics!Cardinality(Analytics!SeenBetween(1, today))
    BY TotalVisitorsAreExact DEF Analytics!Never
  <2>7. counted \in [Analytics!Days -> [Visitors -> Nat]] /\ entered \in [Analytics!Days -> [Visitors -> Nat]]
    BY DEF HistoryInv, CountsInv
  <2>8. Analytics!HistoryTotals(from).sessions + Analytics!LiveSum("sessions") = Analytics!SumSince(from, entered)
    <3>1. PICK present : present = [v \in Visitors |-> hashes[today][v]["sessions"]]
      OBVIOUS
    <3>2. PICK column : column = [d \in Analytics!Days |-> stats[d].sessions]
      OBVIOUS
    <3>3. DOMAIN present = Visitors /\ \A v \in Visitors : present[v] = entered[today][v]
      BY <3>1, TodayIsTruthful DEF Truthful
    <3>4. \A d \in Analytics!Days : d < today => column[d] = SumFunctionOnSet(entered[d], Visitors)
      BY <3>2, EarlierDays
    <3>5. Analytics!SumFunction([d \in Analytics!Synced(from) |-> column[d]]) + Analytics!SumFunction(present)
            = Analytics!SumSince(from, entered)
      BY <2>1, <2>7, <3>3, <3>4, TotalsAreExact
    <3>6. Analytics!LiveSum("sessions") = Analytics!SumFunction(present)
      BY <3>1 DEF Analytics!LiveSum
    <3>7. [d \in Analytics!Synced(from) |-> column[d]] = [d \in Analytics!Synced(from) |-> stats[d].sessions]
      BY <3>2 DEF Analytics!Synced
    <3>8. Analytics!HistoryTotals(from).sessions = Analytics!SumFunction([d \in Analytics!Synced(from) |-> stats[d].sessions])
      BY DEF Analytics!HistoryTotals
    <3>. QED
      BY <3>5, <3>6, <3>7, <3>8
  <2>9. Analytics!HistoryTotals(from).pageViews + Analytics!LiveSum("views") = Analytics!SumSince(from, counted)
    <3>1. PICK present : present = [v \in Visitors |-> hashes[today][v]["views"]]
      OBVIOUS
    <3>2. PICK column : column = [d \in Analytics!Days |-> stats[d].views]
      OBVIOUS
    <3>3. DOMAIN present = Visitors /\ \A v \in Visitors : present[v] = counted[today][v]
      BY <3>1, TodayIsTruthful DEF Truthful
    <3>4. \A d \in Analytics!Days : d < today => column[d] = SumFunctionOnSet(counted[d], Visitors)
      BY <3>2, EarlierDays
    <3>5. Analytics!SumFunction([d \in Analytics!Synced(from) |-> column[d]]) + Analytics!SumFunction(present)
            = Analytics!SumSince(from, counted)
      BY <2>1, <2>7, <3>3, <3>4, TotalsAreExact
    <3>6. Analytics!LiveSum("views") = Analytics!SumFunction(present)
      BY <3>1 DEF Analytics!LiveSum
    <3>7. [d \in Analytics!Synced(from) |-> column[d]] = [d \in Analytics!Synced(from) |-> stats[d].views]
      BY <3>2 DEF Analytics!Synced
    <3>8. Analytics!HistoryTotals(from).pageViews = Analytics!SumFunction([d \in Analytics!Synced(from) |-> stats[d].views])
      BY DEF Analytics!HistoryTotals
    <3>. QED
      BY <3>5, <3>6, <3>7, <3>8
  <2>10. Analytics!Report(timeframe) =
           [dau |-> Analytics!Cardinality(Analytics!Live),
            mau |-> Analytics!CountWindow(since),
            newVisitors |-> Analytics!HistoryTotals(from).newVisitors + Analytics!Cardinality(Analytics!NewLiveVisitors),
            totalVisitors |-> Analytics!Cardinality({v \in Visitors : firstSeen[v] # Analytics!Never})
                                + Analytics!Cardinality(Analytics!NewLiveVisitors),
            sessions |-> Analytics!HistoryTotals(from).sessions + Analytics!LiveSum("sessions"),
            pageViews |-> Analytics!HistoryTotals(from).pageViews + Analytics!LiveSum("views")]
    BY <2>1, <2>2 DEF Analytics!Report
  <2>. QED
    BY <2>1, <2>2, <2>3, <2>4, <2>5, <2>6, <2>8, <2>9, <2>10, Zenon
<1>3. Analytics!WindowStart("days") \in Nat \ {0} /\ Analytics!WindowStart("days") <= today
  BY WindowsArePast
<1>. QED
  BY <1>2, <1>3, DailySeriesIsExact, MonthlySeriesIsExact

(* What the report says of settled days is what happened: its counts, its  *)
(* sums and both its series are those of the recorded history, as long as  *)
(* no day expired unsynced and nothing came after a day's sync; for any    *)
(* number of visitors, pings, syncs and days, any lifetime of the keys and *)
(* months of any one length (getReport).                                   *)
THEOREM ReportExact == BackgroundSpec => []ReportIsExact
<1>1. AnalyticsInv /\ HistoryInv => ReportIsExact
  BY ReportOfTheKept DEF ReportIsExact
<1>. QED
  BY <1>1, PartsRunAlone, AnalyticsTyped, HistoryIsKept, PTL
=============================================================================
