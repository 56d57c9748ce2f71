--------------------------- MODULE ScoringProofs ---------------------------
(***************************************************************************)
(* Theorems about the numbers of People, for any submissions, results,     *)
(* templates and bounds: the histories of the capability passport, and the *)
(* keys and scores of the tasks.                                           *)
(***************************************************************************)
EXTENDS People, Sums, SequenceTheorems

-----------------------------------------------------------------------------
(* Induction over numbers, for a property given as a set.                  *)

LEMMA LeastNumber ==
  ASSUME NEW n \in Nat, NEW C \in SUBSET (0..n), C # {}
  PROVE  \E k \in C : \A l \in C : k <= l
<1>. DEFINE Below == {0..k : k \in C}
<1>1. Below \subseteq SUBSET (0..n) /\ Below # {} /\ \A s \in Below : IsFiniteSet(s)
  <2>1. \A k \in C : IsFiniteSet(0..k)
    BY FS_Interval
  <2>2. \A k \in C : 0..k \in SUBSET (0..n)
    OBVIOUS
  <2>3. PICK k \in C : TRUE
    OBVIOUS
  <2>4. 0..k \in Below
    OBVIOUS
  <2>. QED
    BY <2>1, <2>2, <2>4
<1>2. PICK s \in Below : IsSmallest(s, Below)
  BY <1>1, SmallestSubset
<1>3. PICK k \in C : s = 0..k
  BY <1>2
<1>4. ASSUME NEW l \in C, l < k PROVE FALSE
  <2>1. k \in 0..k /\ k \notin 0..l /\ 0..l \subseteq 0..k
    BY <1>4
  <2>2. 0..l \notin Below
    BY <1>2, <1>3, <2>1 DEF IsSmallest
  <2>. QED
    BY <2>2
<1>. QED
  BY <1>4

LEMMA NumberInduction ==
  ASSUME NEW n \in Nat, NEW Good, 0 \in Good,
         \A k \in 0..n - 1 : k \in Good => k + 1 \in Good
  PROVE  \A k \in 0..n : k \in Good
<1>. DEFINE Bad == {k \in 0..n : k \notin Good}
<1>1. SUFFICES ASSUME Bad # {} PROVE FALSE
  OBVIOUS
<1>2. PICK k \in Bad : \A l \in Bad : k <= l
  BY <1>1, LeastNumber
<1>3. k \in 0..n /\ k \notin Good /\ k - 1 \in 0..n - 1 /\ k - 1 + 1 = k
  BY <1>2
<1>4. k - 1 \in Good
  BY <1>2, <1>3
<1>. QED
  BY <1>3, <1>4

-----------------------------------------------------------------------------
(* Selecting from a list.                                                  *)

(* f[k] is what is selected of the first k elements.                       *)
Takes(f, list, set, n) ==
  f = [k \in 0..n |-> IF k = 0 THEN <<>>
                      ELSE IF list[k] \in set THEN Append(f[k - 1], list[k]) ELSE f[k - 1]]

LEMMA TakesEach ==
  ASSUME NEW n \in Nat, NEW list, NEW set, NEW f, Takes(f, list, set, n)
  PROVE  \A k \in 0..n : f[k] = IF k = 0 THEN <<>>
                               ELSE IF list[k] \in set THEN Append(f[k - 1], list[k]) ELSE f[k - 1]
BY DEF Takes

LEMMA TakesExists ==
  ASSUME NEW n \in Nat, NEW list, NEW set
  PROVE  \E f : Takes(f, list, set, n)
<1>. DEFINE Good == {k \in Nat : \E f : Takes(f, list, set, k)}
<1>1. 0 \in Good
  <2>. DEFINE f == [k \in 0..0 |-> <<>>]
  <2>1. Takes(f, list, set, 0)
    BY DEF Takes
  <2>. QED
    BY <2>1
<1>2. ASSUME NEW k \in 0..n - 1, k \in Good PROVE k + 1 \in Good
  <2>1. PICK f : Takes(f, list, set, k)
    BY <1>2
  <2>. DEFINE step == IF list[k + 1] \in set THEN Append(f[k], list[k + 1]) ELSE f[k]
              g == [j \in 0..k + 1 |-> IF j = k + 1 THEN step ELSE f[j]]
  <2>2. \A j \in 0..k : g[j] = f[j]
    OBVIOUS
  <2>3. g[k + 1] = step
    OBVIOUS
  <2>4. \A j \in 0..k : f[j] = IF j = 0 THEN <<>>
                          ELSE IF list[j] \in set THEN Append(f[j - 1], list[j]) ELSE f[j - 1]
    BY <2>1 DEF Takes
  <2>5. \A j \in 0..k + 1 : g[j] = IF j = 0 THEN <<>>
                          ELSE IF list[j] \in set THEN Append(g[j - 1], list[j]) ELSE g[j - 1]
    <3>. TAKE j \in 0..k + 1
    <3>1. CASE j = k + 1
      BY <2>2, <2>3, <3>1
    <3>2. CASE j # k + 1
      <4>1. j \in 0..k /\ (j # 0 => j - 1 \in 0..k)
        BY <3>2
      <4>. HIDE DEF g
      <4>. QED
        BY <2>2, <2>4, <4>1
    <3>. QED
      BY <3>1, <3>2
  <2>6. Takes(g, list, set, k + 1)
    <3>1. g = [j \in 0..k + 1 |-> g[j]]
      OBVIOUS
    <3>. HIDE DEF g
    <3>. QED
      BY <2>5, <3>1 DEF Takes
  <2>. QED
    BY <2>6
<1>. HIDE DEF Good
<1>3. n \in Good
  BY <1>1, <1>2, NumberInduction
<1>. QED
  BY <1>3 DEF Good

(* out holds, in order, the elements of the first n that are in the set.   *)
IsSelection(out, list, set, n) ==
  /\ out \in Seq(set)
  /\ \E h \in [1..Len(out) -> 1..n] :
       /\ \A i \in 1..Len(out) : out[i] = list[h[i]]
       /\ \A i, j \in 1..Len(out) : i < j => h[i] < h[j]
       /\ \A k \in 1..n : list[k] \in set => \E i \in 1..Len(out) : h[i] = k

LEMMA SelectedIs ==
  ASSUME NEW S, NEW list \in Seq(S), NEW set
  PROVE  IsSelection(Passport!Selected(list, set), list, set, Len(list))
<1>. DEFINE f == CHOOSE f : Takes(f, list, set, Len(list))
<1>1. Len(list) \in Nat
  OBVIOUS
<1>2. Takes(f, list, set, Len(list))
  BY <1>1, TakesExists
<1>3. Passport!Selected(list, set) = f[Len(list)]
  BY DEF Passport!Selected, Takes
<1>. HIDE DEF f
<1>. DEFINE Good == {k \in 0..Len(list) : IsSelection(f[k], list, set, k)}
<1>4. 0 \in Good
  <2>1. f[0] = <<>>
    BY <1>1, <1>2 DEF Takes
  <2>. DEFINE h == [i \in {} |-> 0]
  <2>2. h \in [1..Len(<<>>) -> 1..0]
    OBVIOUS
  <2>3. <<>> \in Seq(set) /\ Len(<<>>) = 0
    OBVIOUS
  <2>. HIDE DEF h
  <2>4. IsSelection(<<>>, list, set, 0)
    <3>1. \A k \in 1..0 : FALSE
      OBVIOUS
    <3>. QED
      BY <2>2, <2>3, <3>1 DEF IsSelection
  <2>. QED
    BY <1>1, <2>1, <2>4
<1>5. ASSUME NEW k \in 0..Len(list) - 1, k \in Good PROVE k + 1 \in Good
  <2>. DEFINE out == f[k]
              e == list[k + 1]
  <2>1. f[k + 1] = IF e \in set THEN Append(out, e) ELSE out
    <3>1. k + 1 \in 0..Len(list) /\ k + 1 # 0 /\ k + 1 - 1 = k
      BY <1>1, <1>5
    <3>2. f[k + 1] = IF list[k + 1] \in set THEN Append(f[k + 1 - 1], list[k + 1]) ELSE f[k + 1 - 1]
      BY <1>1, <1>2, <3>1, TakesEach
    <3>. QED
      BY <3>1, <3>2
  <2>2. k \in Nat /\ k + 1 \in 0..Len(list) /\ out \in Seq(set)
    BY <1>1, <1>5 DEF IsSelection
  <2>3. PICK h \in [1..Len(out) -> 1..k] :
          /\ \A i \in 1..Len(out) : out[i] = list[h[i]]
          /\ \A i, j \in 1..Len(out) : i < j => h[i] < h[j]
          /\ \A l \in 1..k : list[l] \in set => \E i \in 1..Len(out) : h[i] = l
    BY <1>5 DEF IsSelection
  <2>. HIDE DEF out
  <2>4. CASE e \notin set
    <3>1. h \in [1..Len(out) -> 1..k + 1]
      BY <2>2, <2>3
    <3>2. \A l \in 1..k + 1 : list[l] \in set => \E i \in 1..Len(out) : h[i] = l
      BY <2>2, <2>3, <2>4
    <3>3. IsSelection(out, list, set, k + 1)
      BY <2>2, <2>3, <3>1, <3>2 DEF IsSelection
    <3>. QED
      BY <2>1, <2>2, <2>4, <3>3
  <2>5. CASE e \in set
    <3>. DEFINE more == Append(out, e)
                m == Len(out)
                g == [i \in 1..m + 1 |-> IF i <= m THEN h[i] ELSE k + 1]
    <3>1. /\ more \in Seq(set) /\ Len(more) = m + 1 /\ m \in Nat
          /\ \A i \in 1..m : more[i] = out[i]
          /\ more[m + 1] = e
      BY <2>2, <2>5
    <3>. HIDE DEF more, m
    <3>2. g \in [1..m + 1 -> 1..k + 1] /\ g[m + 1] = k + 1 /\ \A i \in 1..m : g[i] = h[i]
      BY <2>2, <2>3, <3>1 DEF m
    <3>. HIDE DEF g
    <3>3. \A i \in 1..m + 1 : more[i] = list[g[i]]
      BY <2>3, <3>1, <3>2 DEF m
    <3>4. \A i, j \in 1..m + 1 : i < j => g[i] < g[j]
      <4>. TAKE i, j \in 1..m + 1
      <4>. HAVE i < j
      <4>1. CASE j \in 1..m
        BY <2>3, <3>1, <3>2, <4>1 DEF m
      <4>2. CASE j = m + 1
        <5>1. i \in 1..m /\ g[j] = k + 1
          BY <3>1, <3>2, <4>2
        <5>2. g[i] = h[i] /\ h[i] \in 1..k
          BY <2>3, <3>2, <5>1 DEF m
        <5>. QED
          BY <2>2, <5>1, <5>2
      <4>. QED
        BY <3>1, <4>1, <4>2
    <3>5. \A l \in 1..k + 1 : list[l] \in set => \E i \in 1..m + 1 : g[i] = l
      <4>. SUFFICES ASSUME NEW l \in 1..k + 1, list[l] \in set PROVE \E i \in 1..m + 1 : g[i] = l
        OBVIOUS
      <4>1. CASE l = k + 1
        BY <3>1, <3>2, <4>1
      <4>2. CASE l # k + 1
        <5>. l \in 1..k
          BY <2>2, <4>2
        <5>1. PICK i \in 1..m : h[i] = l
          BY <2>3 DEF m
        <5>. QED
          BY <3>1, <3>2, <5>1
      <4>. QED
        BY <4>1, <4>2
    <3>6. IsSelection(more, list, set, k + 1)
      BY <3>1, <3>2, <3>3, <3>4, <3>5 DEF IsSelection
    <3>. QED
      BY <2>1, <2>2, <2>5, <3>6 DEF more
  <2>. QED
    BY <2>4, <2>5
<1>. HIDE DEF Good
<1>6. Len(list) \in Good
  <2>1. \A k \in 0..Len(list) - 1 : k \in Good => k + 1 \in Good
    BY <1>5
  <2>2. \A k \in 0..Len(list) : k \in Good
    BY <1>1, <1>4, <2>1, NumberInduction, Zenon
  <2>. QED
    BY <1>1, <2>2
<1>. QED
  BY <1>3, <1>6 DEF Good

LEMMA SelectedIsTaken ==
  \A list, set : Passport!Selected(list, set) = (CHOOSE f : Takes(f, list, set, Len(list)))[Len(list)]
BY DEF Passport!Selected, Takes

LEMMA SameSelected ==
  ASSUME NEW list, NEW n \in Nat, NEW A, NEW B, \A k \in 1..n : list[k] \in A <=> list[k] \in B
  PROVE  (CHOOSE f : Takes(f, list, A, n)) = (CHOOSE f : Takes(f, list, B, n))
<1>1. \A f : Takes(f, list, A, n) <=> Takes(f, list, B, n)
  <2>. TAKE f
  <2>1. [k \in 0..n |-> IF k = 0 THEN <<>>
                      ELSE IF list[k] \in A THEN Append(f[k - 1], list[k]) ELSE f[k - 1]]
        = [k \in 0..n |-> IF k = 0 THEN <<>>
                      ELSE IF list[k] \in B THEN Append(f[k - 1], list[k]) ELSE f[k - 1]]
    <3>1. \A k \in 0..n : k = 0 \/ k \in 1..n
      OBVIOUS
    <3>. QED
      BY <3>1
  <2>. QED
    BY <2>1 DEF Takes
<1>. QED
  BY <1>1


-----------------------------------------------------------------------------
(* CapabilityPassport: types, and scores out of a thousand.                *)

PassportTyped ==
  /\ now \in 0..MaxTime
  /\ order \in Seq(Tasks)
  /\ finishedAt \in [Tasks -> {NoTask} \cup 0..now]
  /\ \A i \in 1..Len(order) : finishedAt[order[i]] \in 0..now
  /\ \A i, j \in 1..Len(order) : i < j => /\ order[i] # order[j]
                                         /\ finishedAt[order[i]] <= finishedAt[order[j]]
  /\ \A s \in Tasks : finishedAt[s] # NoTask \/ scores[s] # NoTask => \E i \in 1..Len(order) : order[i] = s
  /\ status \in [Tasks -> {"PENDING", "GRADED", "DISQUALIFIED"}]
  /\ scores \in [Tasks -> Results \cup {NoTask}]
  /\ DOMAIN reader = Handlers
  /\ \A r \in Handlers : reader[r].pc \in {"idle", "loaded", "generate", "answered"}

LEMMA InitPassportTyped == Passport!Init => PassportTyped
<1>. SUFFICES ASSUME Passport!Init PROVE PassportTyped
  OBVIOUS
<1>1. /\ now = 0 /\ order = <<>> /\ finishedAt = [s \in Tasks |-> NoTask]
      /\ status = [s \in Tasks |-> "PENDING"] /\ scores = [s \in Tasks |-> NoTask]
      /\ reader = [r \in Handlers |-> [pc |-> "idle"]]
  BY DEF Passport!Init
<1>2. order \in Seq(Tasks) /\ Len(order) = 0
  BY <1>1
<1>. QED
  BY <1>1, <1>2, PassportAssumption DEF PassportTyped

(* What a submission sent again does to the order.                         *)
LEMMA OrderMoved ==
  ASSUME PassportTyped, NEW s \in Tasks, Passport!SubmitAnswers(s)
  PROVE  /\ order' \in Seq(Tasks)
         /\ finishedAt' = [finishedAt EXCEPT ![s] = now]
         /\ \A i \in 1..Len(order') : finishedAt'[order'[i]] \in 0..now
         /\ \A i, j \in 1..Len(order') : i < j => /\ order'[i] # order'[j]
                                                 /\ finishedAt'[order'[i]] <= finishedAt'[order'[j]]
         /\ \A t \in Tasks : t = s \/ (\E i \in 1..Len(order) : order[i] = t)
                            => \E i \in 1..Len(order') : order'[i] = t
<1>. DEFINE rest == Passport!Selected(order, Tasks \ {s})
            n == Len(order)
            m == Len(rest)
<1>1. order' = Append(rest, s) /\ finishedAt' = [finishedAt EXCEPT ![s] = now]
  BY DEF Passport!SubmitAnswers
<1>2. IsSelection(rest, order, Tasks \ {s}, n)
  BY SelectedIs DEF PassportTyped
<1>. HIDE DEF rest
<1>3. rest \in Seq(Tasks \ {s}) /\ m \in Nat /\ n \in Nat
  BY <1>2 DEF IsSelection, PassportTyped
<1>4. PICK h \in [1..m -> 1..n] :
        /\ \A i \in 1..m : rest[i] = order[h[i]]
        /\ \A i, j \in 1..m : i < j => h[i] < h[j]
        /\ \A k \in 1..n : order[k] \in Tasks \ {s} => \E i \in 1..m : h[i] = k
  BY <1>2 DEF IsSelection
<1>5. \A i \in 1..m : rest[i] \in Tasks /\ rest[i] # s
  BY <1>3
<1>6. /\ order' \in Seq(Tasks) /\ Len(order') = m + 1
      /\ \A i \in 1..m : order'[i] = rest[i]
      /\ order'[m + 1] = s
  <2>1. rest \in Seq(Tasks)
    BY <1>3
  <2>. QED
    BY <1>1, <2>1
<1>7. now \in 0..now /\ DOMAIN finishedAt = Tasks /\ now \in Nat
  BY PassportAssumption DEF PassportTyped
<1>8. finishedAt'[s] = now /\ \A i \in 1..m : /\ finishedAt'[rest[i]] = finishedAt[order[h[i]]]
                                           /\ finishedAt[order[h[i]]] \in 0..now
  BY <1>1, <1>4, <1>5, <1>7 DEF PassportTyped
<1>. HIDE DEF m, n
<1>9. \A i \in 1..Len(order') : finishedAt'[order'[i]] \in 0..now
  <2>. TAKE i \in 1..Len(order')
  <2>1. i \in 1..m \/ i = m + 1
    BY <1>3, <1>6
  <2>. QED
    BY <1>6, <1>7, <1>8, <2>1
<1>10. ASSUME NEW i \in 1..Len(order'), NEW j \in 1..Len(order'), i < j
       PROVE  order'[i] # order'[j] /\ finishedAt'[order'[i]] <= finishedAt'[order'[j]]
  <2>1. i \in 1..m
    BY <1>3, <1>6, <1>10
  <2>2. CASE j = m + 1
    BY <1>5, <1>6, <1>7, <1>8, <2>1, <2>2
  <2>3. CASE j # m + 1
    <3>1. j \in 1..m
      BY <1>3, <1>6, <2>3
    <3>2. h[i] \in 1..n /\ h[j] \in 1..n /\ h[i] < h[j]
      BY <1>4, <1>10, <2>1, <3>1
    <3>3. order[h[i]] # order[h[j]] /\ finishedAt[order[h[i]]] <= finishedAt[order[h[j]]]
      BY <3>2 DEF PassportTyped, n
    <3>. QED
      BY <1>4, <1>6, <1>8, <2>1, <3>1, <3>3
  <2>. QED
    BY <2>2, <2>3
<1>11. ASSUME NEW t \in Tasks, t = s \/ (\E i \in 1..n : order[i] = t)
       PROVE  \E i \in 1..Len(order') : order'[i] = t
  <2>1. CASE t = s
    BY <1>3, <1>6, <2>1
  <2>2. CASE t # s
    <3>1. PICK k \in 1..n : order[k] = t
      BY <1>11, <2>2
    <3>2. PICK i \in 1..m : h[i] = k
      BY <1>4, <2>2, <3>1
    <3>. QED
      BY <1>3, <1>4, <1>6, <3>1, <3>2
  <2>. QED
    BY <2>1, <2>2
<1>. QED
  BY <1>1, <1>6, <1>9, <1>10, <1>11 DEF n

LEMMA NextPassportTyped == PassportTyped /\ [Passport!Next]_(Passport!vars) => PassportTyped'
<1>. SUFFICES ASSUME PassportTyped, [Passport!Next]_(Passport!vars) PROVE PassportTyped'
  OBVIOUS
<1>1. CASE Passport!Tick
  <2>1. /\ now' = now + 1 /\ now < MaxTime /\ now \in 0..MaxTime /\ MaxTime \in Nat
        /\ UNCHANGED <<order, finishedAt, status, scores, reader>>
    BY <1>1, PassportAssumption DEF Passport!Tick, Passport!submitted, Passport!graded, PassportTyped
  <2>2. now' \in 0..MaxTime /\ \A k \in 0..now : k \in 0..now'
    BY <2>1
  <2>3. finishedAt \in [Tasks -> {NoTask} \cup 0..now']
    BY <2>2 DEF PassportTyped
  <2>. QED
    BY <2>1, <2>2, <2>3 DEF PassportTyped
<1>2. ASSUME NEW s \in Tasks, Passport!SubmitAnswers(s) PROVE PassportTyped'
  <2>1. now' = now /\ UNCHANGED <<status, scores, reader>>
    BY <1>2 DEF Passport!SubmitAnswers, Passport!graded
  <2>2. finishedAt' \in [Tasks -> {NoTask} \cup 0..now] /\ \A t \in Tasks \ {s} : finishedAt'[t] = finishedAt[t]
    <3>1. now \in 0..now
      BY PassportAssumption DEF PassportTyped
    <3>. QED
      BY <1>2, <3>1, OrderMoved DEF PassportTyped
  <2>3. \A t \in Tasks : finishedAt'[t] # NoTask \/ scores[t] # NoTask => \E i \in 1..Len(order') : order'[i] = t
    BY <1>2, <2>2, OrderMoved DEF PassportTyped
  <2>4. /\ order' \in Seq(Tasks)
        /\ \A i \in 1..Len(order') : finishedAt'[order'[i]] \in 0..now
        /\ \A i, j \in 1..Len(order') : i < j => /\ order'[i] # order'[j]
                                                /\ finishedAt'[order'[i]] <= finishedAt'[order'[j]]
    BY <1>2, OrderMoved
  <2>. QED
    BY <2>1, <2>2, <2>3, <2>4 DEF PassportTyped
<1>3. ASSUME NEW s \in Tasks, Passport!Grade(s) PROVE PassportTyped'
  <2>1. /\ UNCHANGED <<now, order, finishedAt, reader>> /\ finishedAt[s] # NoTask
        /\ status' = [status EXCEPT ![s] = "GRADED"]
    BY <1>3 DEF Passport!Grade, Passport!submitted
  <2>2. PICK r \in Results : scores' = [scores EXCEPT ![s] = r]
    BY <1>3 DEF Passport!Grade, PassportTyped
  <2>3. scores' \in [Tasks -> Results \cup {NoTask}] /\ \A t \in Tasks \ {s} : scores'[t] = scores[t]
    BY <2>2 DEF PassportTyped
  <2>4. status' \in [Tasks -> {"PENDING", "GRADED", "DISQUALIFIED"}]
    BY <2>1 DEF PassportTyped
  <2>. QED
    BY <2>1, <2>3, <2>4 DEF PassportTyped
<1>4. ASSUME NEW s \in Tasks, NEW uphold \in BOOLEAN, Passport!ReviewAntiCheatFlag(s, uphold)
      PROVE  PassportTyped'
  <2>1. /\ UNCHANGED <<now, order, finishedAt, scores, reader>>
        /\ status' = [status EXCEPT ![s] = IF uphold THEN "DISQUALIFIED" ELSE "PENDING"]
    BY <1>4 DEF Passport!ReviewAntiCheatFlag, Passport!submitted
  <2>2. status' \in [Tasks -> {"PENDING", "GRADED", "DISQUALIFIED"}]
    BY <2>1 DEF PassportTyped
  <2>. QED
    BY <2>1, <2>2 DEF PassportTyped
<1>5. CASE Passport!Publish \/ Passport!WorkerDies
  BY <1>5 DEF Passport!Publish, Passport!WorkerDies, Passport!submitted, PassportTyped
<1>6. ASSUME NEW r \in Handlers,
             \/ Passport!LoadGradedSubmissions(r) \/ Passport!GetNarrative(r)
             \/ Passport!GenerateNarrative(r) \/ Passport!NarrativeFails(r) \/ Passport!Done(r)
      PROVE  PassportTyped'
  <2>1. UNCHANGED <<now, order, finishedAt, status, scores>>
    BY <1>6 DEF Passport!LoadGradedSubmissions, Passport!GetNarrative, Passport!GenerateNarrative,
                Passport!NarrativeFails, Passport!Done, Passport!submitted, Passport!graded
  <2>. DEFINE Goal == /\ DOMAIN reader' = Handlers
                      /\ \A h \in Handlers : reader'[h].pc \in {"idle", "loaded", "generate", "answered"}
  <2>2. ASSUME NEW to, Passport!Step(r, to), to.pc \in {"idle", "loaded", "generate", "answered"}
        PROVE  Goal
    BY <2>2 DEF Passport!Step, PassportTyped
  <2>. HIDE DEF Goal
  <2>3. Goal
    <3>1. ASSUME NEW narrative, NEW failed, Passport!Answer(r, narrative, failed) PROVE Goal
      <4>. DEFINE to == [pc |-> "answered", numbers |-> reader[r].numbers,
                         narrative |-> narrative, failed |-> failed]
      <4>1. Passport!Step(r, to)
        BY <3>1 DEF Passport!Answer
      <4>2. to.pc = "answered"
        OBVIOUS
      <4>. HIDE DEF to
      <4>. QED
        BY <2>2, <4>1, <4>2
    <3>2. CASE Passport!LoadGradedSubmissions(r)
      <4>. DEFINE to == [pc |-> "loaded", numbers |-> Passport!NumbersOf(Passport!GradedSubmissions)]
      <4>1. Passport!Step(r, to)
        BY <3>2 DEF Passport!LoadGradedSubmissions
      <4>2. to.pc = "loaded"
        OBVIOUS
      <4>. HIDE DEF to
      <4>. QED
        BY <2>2, <4>1, <4>2
    <3>3. CASE Passport!GetNarrative(r)
      <4>. DEFINE to == [pc |-> "generate", numbers |-> reader[r].numbers, fallback |-> cached]
      <4>1. to.pc = "generate"
        OBVIOUS
      <4>2. Passport!Step(r, to) \/ Passport!Answer(r, cached, FALSE)
        BY <3>3 DEF Passport!GetNarrative
      <4>. HIDE DEF to
      <4>. QED
        BY <2>2, <3>1, <4>1, <4>2
    <3>4. CASE Passport!GenerateNarrative(r)
      BY <3>1, <3>4, Zenon DEF Passport!GenerateNarrative
    <3>5. CASE Passport!NarrativeFails(r)
      BY <3>1, <3>5, Zenon DEF Passport!NarrativeFails
    <3>6. CASE Passport!Done(r)
      <4>. DEFINE to == [pc |-> "idle"]
      <4>1. Passport!Step(r, to) /\ to.pc = "idle"
        BY <3>6 DEF Passport!Done
      <4>. HIDE DEF to
      <4>. QED
        BY <2>2, <4>1
    <3>. QED
      BY <1>6, <3>2, <3>3, <3>4, <3>5, <3>6
  <2>. QED
    BY <2>1, <2>3 DEF PassportTyped, Goal
<1>7. CASE UNCHANGED Passport!vars
  BY <1>7 DEF Passport!vars, Passport!submitted, Passport!graded, PassportTyped
<1>. QED
  BY <1>1, <1>2, <1>3, <1>4, <1>5, <1>6, <1>7 DEF Passport!Next

LEMMA PassportAlwaysTyped == Passport!Spec => []PassportTyped
BY InitPassportTyped, NextPassportTyped, PTL DEF Passport!Spec

-----------------------------------------------------------------------------
(* The passport and the page of one application agree.                     *)

LEMMA HistoriesMatch == PassportTyped => Passport!HistoriesAgree
<1>. SUFFICES ASSUME PassportTyped, NEW s \in Tasks,
                     \A i \in DOMAIN Passport!GradedSubmissions :
                        DomainOf[Passport!GradedSubmissions[i]] = DomainOf[s]
              PROVE  Passport!IsPrefix(Passport!CapabilityHistory(s),
                                       Passport!ScoreHistory(Passport!GradedSubmissions))
  BY DEF Passport!HistoriesAgree
<1>. DEFINE counting == {t \in Tasks : Passport!Counts(t)}
            shown == {t \in Tasks : /\ scores[t] # NoTask /\ status[t] # "DISQUALIFIED"
                                    /\ DomainOf[t] = DomainOf[s]}
            list == Passport!Selected(order, counting)
            history == Passport!ScoreHistory(list)
            n == Len(order)
<1>1. list = Passport!GradedSubmissions
  BY DEF Passport!GradedSubmissions
<1>2. order \in Seq(Tasks) /\ n \in Nat
  BY DEF PassportTyped
<1>3. IsSelection(list, order, counting, n)
  BY <1>2, SelectedIs
<1>4. DOMAIN list = 1..Len(list) /\ Len(list) \in Nat
  <2>1. list \in Seq(counting)
    BY <1>3 DEF IsSelection
  <2>. HIDE DEF list, counting
  <2>. QED
    BY <2>1
<1>5. \A k \in 1..n : order[k] \in counting <=> order[k] \in shown
  <2>. SUFFICES ASSUME NEW k \in 1..n, order[k] \in counting PROVE DomainOf[order[k]] = DomainOf[s]
    BY DEF Passport!Counts
  <2>1. PICK h \in [1..Len(list) -> 1..n] :
          /\ \A i \in 1..Len(list) : list[i] = order[h[i]]
          /\ \E i \in 1..Len(list) : h[i] = k
    BY <1>3 DEF IsSelection
  <2>2. PICK i \in 1..Len(list) : h[i] = k
    BY <2>1
  <2>3. list[i] = order[k] /\ i \in DOMAIN list
    BY <1>4, <2>1, <2>2, Zenon
  <2>. QED
    BY <1>1, <2>3, Zenon
<1>6. Passport!Selected(order, shown) = list
  BY <1>2, <1>5, SelectedIsTaken, SameSelected
<1>. HIDE DEF list, shown, counting
<1>7. DOMAIN history = 1..Len(list)
  BY <1>4 DEF Passport!ScoreHistory
<1>8. PICK upTo \in 0..Len(list) : Passport!CapabilityHistory(s) = SubSeq(history, 1, upTo)
  <2>. DEFINE I == {i \in 1..Len(list) : list[i] = s}
              upTo == IF I # {} THEN Passport!Min(I) ELSE 0
  <2>1. Passport!CapabilityHistory(s) = SubSeq(history, 1, upTo)
    BY <1>6 DEF Passport!CapabilityHistory, Passport!SelectInSeq, shown
  <2>2. I # {} => Passport!Min(I) \in I
    <3>. SUFFICES ASSUME I # {} PROVE Passport!Min(I) \in I
      OBVIOUS
    <3>. I \in SUBSET (0..Len(list))
      BY <1>4
    <3>1. \E k \in I : \A l \in I : k <= l
      BY <1>4, LeastNumber
    <3>. QED
      BY <3>1 DEF Passport!Min
  <2>3. upTo \in 0..Len(list)
    BY <1>4, <2>2
  <2>. QED
    BY <2>1, <2>3
<1>. HIDE DEF history
<1>9. /\ SubSeq(history, 1, upTo) = [i \in 1..upTo |-> history[i]]
      /\ Len(SubSeq(history, 1, upTo)) = upTo
      /\ Len(history) = Len(list)
  BY <1>4, <1>7, <1>8
<1>. QED
  BY <1>1, <1>4, <1>7, <1>8, <1>9 DEF Passport!IsPrefix, history

-----------------------------------------------------------------------------
(* Averages.                                                               *)

LEMMA ProductIsMonotone ==
  ASSUME NEW d \in Nat, NEW a \in Int, NEW b \in Int, a <= b
  PROVE  d * a <= d * b /\ d * a \in Int /\ d * b \in Int
<1>1. d * (b - a) \in Nat
  OBVIOUS
<1>2. d * b = d * a + d * (b - a)
  OBVIOUS
<1>. QED
  BY <1>1, <1>2

(* Rounding leaves a number between whole ones where it is.                *)
LEMMA RoundedIsBetween ==
  ASSUME NEW n \in Int, NEW d \in Nat \ {0}, NEW low \in Int, NEW high \in Int,
         d * low <= n, n <= d * high, NEW rounded, rounded = (2 * n + d) \div (2 * d)
  PROVE  rounded \in low..high
<1>. DEFINE q == (2 * n + d) \div (2 * d)
            r == (2 * n + d) % (2 * d)
<1>1. 2 * d \in Nat \ {0} /\ 2 * n + d \in Int
  OBVIOUS
<1>2. q \in Int /\ r \in 0..2 * d - 1 /\ 2 * n + d = (2 * d) * q + r
  BY <1>1
<1>. HIDE DEF q, r
<1>3. q <= high
  <2>. SUFFICES ASSUME q >= high + 1 PROVE FALSE
    BY <1>2
  <2>1. d * (high + 1) <= d * q
    BY <1>2, ProductIsMonotone
  <2>2. d * (high + 1) = d * high + d /\ d * high \in Int /\ (2 * d) * q = 2 * (d * q) /\ d * q \in Int
    BY <1>2
  <2>. QED
    BY <1>2, <2>1, <2>2
<1>4. low <= q
  <2>. SUFFICES ASSUME q <= low - 1 PROVE FALSE
    BY <1>2
  <2>1. d * q <= d * (low - 1)
    BY <1>2, ProductIsMonotone
  <2>2. d * (low - 1) = d * low - d /\ d * low \in Int /\ (2 * d) * q = 2 * (d * q) /\ d * q \in Int
    BY <1>2
  <2>. QED
    BY <1>2, <2>1, <2>2
<1>. QED
  BY <1>2, <1>3, <1>4 DEF q

(* A sum of values up to a bound is at most that many times the bound.     *)
LEMMA SumIsBounded ==
  ASSUME NEW S, IsFiniteSet(S), NEW high \in Nat, NEW f, \A x \in S : f[x] \in 0..high
  PROVE  SumFunctionOnSet(f, S) \in 0..high * Cardinality(S)
<1>. DEFINE one == [x \in S |-> 1]
            all == [x \in S |-> high]
<1>1. SumFunctionOnSet(one, S) = Cardinality(S)
  BY SumOfOnes
<1>2. SumFunctionOnSet(all, S) = high * SumFunctionOnSet(one, S)
  <2>1. \A x \in S : one[x] \in Int /\ all[x] = high * one[x]
    OBVIOUS
  <2>. HIDE DEF one, all
  <2>. QED
    BY <2>1, SumOfMultiples
<1>3. SumFunctionOnSet(f, S) <= SumFunctionOnSet(all, S)
  <2>1. \A x \in S : f[x] \in Int /\ all[x] \in Int /\ f[x] <= all[x]
    OBVIOUS
  <2>. HIDE DEF all
  <2>. QED
    BY <2>1, SumIsMonotone
<1>4. SumFunctionOnSet(f, S) \in Nat
  <2>1. \A x \in S : f[x] \in Nat
    OBVIOUS
  <2>. QED
    BY <2>1, SumIsNat
<1>5. high * Cardinality(S) \in Int
  BY FS_CardinalityType
<1>. QED
  BY <1>1, <1>2, <1>3, <1>4, <1>5

(* A weighted sum of values up to a bound is at most the bound times the   *)
(* weights.                                                                *)
LEMMA WeightedSumIsBounded ==
  ASSUME NEW S, IsFiniteSet(S), NEW high \in Nat, NEW w, NEW p, NEW f,
         \A x \in S : w[x] \in Nat /\ p[x] \in 0..high /\ f[x] = w[x] * p[x]
  PROVE  /\ SumFunctionOnSet(w, S) \in Nat
         /\ SumFunctionOnSet(f, S) \in 0..high * SumFunctionOnSet(w, S)
<1>. DEFINE most == [x \in S |-> high * w[x]]
<1>1. \A x \in S : f[x] \in Nat /\ most[x] \in Nat /\ f[x] <= most[x] /\ w[x] \in Int /\ most[x] = high * w[x]
  <2>. TAKE x \in S
  <2>1. w[x] \in Nat /\ p[x] \in Int /\ 0 <= p[x] /\ p[x] <= high /\ f[x] = w[x] * p[x]
    OBVIOUS
  <2>2. w[x] * p[x] <= w[x] * high /\ w[x] * 0 <= w[x] * p[x] /\ w[x] * p[x] \in Int
    BY <2>1, ProductIsMonotone
  <2>3. w[x] * high = high * w[x] /\ high * w[x] \in Nat /\ w[x] * 0 = 0
    BY <2>1
  <2>. QED
    BY <2>1, <2>2, <2>3
<1>. HIDE DEF most
<1>2. SumFunctionOnSet(w, S) \in Nat /\ SumFunctionOnSet(f, S) \in Nat
  BY <1>1, SumIsNat
<1>3. SumFunctionOnSet(f, S) <= SumFunctionOnSet(most, S)
  BY <1>1, SumIsMonotone
<1>4. SumFunctionOnSet(most, S) = high * SumFunctionOnSet(w, S)
  BY <1>1, SumOfMultiples
<1>. QED
  BY <1>2, <1>3, <1>4

-----------------------------------------------------------------------------
(* The capability score is out of a thousand.                              *)

LEMMA PassportSums == \A f : Passport!SumFunction(f) = SumFunctionOnSet(f, DOMAIN f)
BY DEF Passport!SumFunction, Passport!SumFunctionOnSet, Passport!FoldFunctionOnSet, Passport!MapThenFoldSet,
       SumFunctionOnSet, FoldFunctionOnSet, MapThenFoldSet

(* f[k] is two to the power of k.                                          *)
IsDoubling(f, n) == f = [k \in 0..n |-> IF k = 0 THEN 1 ELSE 2 * f[k - 1]]

LEMMA DoublingExists ==
  ASSUME NEW n \in Nat
  PROVE  \E f : IsDoubling(f, n)
<1>. DEFINE Good == {k \in Nat : \E f : IsDoubling(f, k)}
<1>1. 0 \in Good
  <2>. DEFINE f == [k \in 0..0 |-> 1]
  <2>1. IsDoubling(f, 0)
    BY DEF IsDoubling
  <2>. QED
    BY <2>1
<1>2. ASSUME NEW k \in 0..n - 1, k \in Good PROVE k + 1 \in Good
  <2>1. PICK f : IsDoubling(f, k)
    BY <1>2
  <2>. DEFINE g == [j \in 0..k + 1 |-> IF j = k + 1 THEN 2 * f[k] ELSE f[j]]
  <2>2. (\A j \in 0..k : g[j] = f[j]) /\ g[k + 1] = 2 * f[k] /\ g = [j \in 0..k + 1 |-> g[j]]
    OBVIOUS
  <2>3. \A j \in 0..k : f[j] = IF j = 0 THEN 1 ELSE 2 * f[j - 1]
    BY <2>1 DEF IsDoubling
  <2>. HIDE DEF g
  <2>4. \A j \in 0..k + 1 : g[j] = IF j = 0 THEN 1 ELSE 2 * g[j - 1]
    <3>. TAKE j \in 0..k + 1
    <3>1. CASE j = k + 1
      <4>1. k \in 0..k /\ j # 0 /\ j - 1 = k
        BY <3>1
      <4>2. g[j] = 2 * f[k] /\ g[j - 1] = f[k]
        BY <2>2, <3>1, <4>1
      <4>. QED
        BY <4>1, <4>2
    <3>2. CASE j # k + 1
      <4>1. j \in 0..k /\ (j # 0 => j - 1 \in 0..k)
        BY <3>2
      <4>2. g[j] = f[j] /\ (j # 0 => g[j - 1] = f[j - 1])
        BY <2>2, <4>1, Zenon
      <4>3. f[j] = IF j = 0 THEN 1 ELSE 2 * f[j - 1]
        BY <2>3, <4>1, Zenon
      <4>4. CASE j = 0
        BY <4>2, <4>3, <4>4
      <4>5. CASE j # 0
        <5>1. g[j] = 2 * f[j - 1] /\ g[j - 1] = f[j - 1]
          BY <4>2, <4>3, <4>5
        <5>. QED
          BY <5>1, <4>5
      <4>. QED
        BY <4>4, <4>5
    <3>. QED
      BY <3>1, <3>2
  <2>5. IsDoubling(g, k + 1)
    BY <2>2, <2>4 DEF IsDoubling
  <2>. QED
    BY <2>5
<1>. HIDE DEF Good
<1>3. n \in Good
  BY <1>1, <1>2, NumberInduction
<1>. QED
  BY <1>3 DEF Good

LEMMA DoubledIsPositive == \A k \in 0..MaxTime : Passport!Doubled[k] \in Nat \ {0}
<1>. DEFINE f == Passport!Doubled
            Good == {k \in 0..MaxTime : f[k] \in Nat \ {0}}
<1>1. MaxTime \in Nat
  BY PassportAssumption
<1>2. f = CHOOSE g : IsDoubling(g, MaxTime)
  BY DEF Passport!Doubled, IsDoubling
<1>3. IsDoubling(f, MaxTime)
  BY <1>1, <1>2, DoublingExists
<1>. HIDE DEF f
<1>4. \A k \in 0..MaxTime : f[k] = IF k = 0 THEN 1 ELSE 2 * f[k - 1]
  BY <1>3 DEF IsDoubling
<1>5. 0 \in Good
  BY <1>1, <1>4
<1>6. ASSUME NEW k \in 0..MaxTime - 1, k \in Good PROVE k + 1 \in Good
  <2>1. k + 1 \in 0..MaxTime /\ k + 1 # 0 /\ k + 1 - 1 = k
    BY <1>1
  <2>2. f[k + 1] = 2 * f[k]
    BY <1>4, <2>1
  <2>. QED
    BY <1>6, <2>1, <2>2
<1>. HIDE DEF Good
<1>7. \A k \in 0..MaxTime : k \in Good
  BY <1>1, <1>5, <1>6, NumberInduction
<1>. QED
  BY <1>7 DEF Good, f

LEMMA PointsAreBounded ==
  ASSUME NEW s, scores[s] \in Results
  PROVE  Passport!CapabilityPoints(s) \in 0..1000
<1>. DEFINE three == {"problemSolving", "judgment", "written"}
            f == [c \in Passport!GlobalCategories |-> scores[s][c]]
            total == SumFunctionOnSet(f, three)
<1>1. Passport!GlobalCategories = three
  BY DEF Passport!GlobalCategories, Passport!Categories
<1>2. IsFiniteSet(three) /\ Cardinality(three) = 3
  <2>1. IsFiniteSet({"problemSolving"}) /\ Cardinality({"problemSolving"}) = 1
    BY FS_Singleton
  <2>2. IsFiniteSet({"problemSolving", "judgment"}) /\ Cardinality({"problemSolving", "judgment"}) = 2
    <3>1. {"problemSolving", "judgment"} = {"problemSolving"} \cup {"judgment"} /\ "judgment" \notin {"problemSolving"}
      OBVIOUS
    <3>. QED
      BY <2>1, <3>1, FS_AddElement
  <2>3. three = {"problemSolving", "judgment"} \cup {"written"} /\ "written" \notin {"problemSolving", "judgment"}
    OBVIOUS
  <2>. QED
    BY <2>2, <2>3, FS_AddElement
<1>3. \A c \in three : f[c] \in 0..100
  BY <1>1, PassportAssumption
<1>4. DOMAIN f = three
  BY <1>1
<1>. HIDE DEF f, three
<1>5. total \in 0..100 * Cardinality(three)
  BY <1>2, <1>3, SumIsBounded
<1>6. total \in 0..300
  BY <1>2, <1>5
<1>7. Passport!CapabilityPoints(s) = (2 * (10 * total) + 3) \div (2 * 3)
  BY <1>4, PassportSums DEF Passport!CapabilityPoints, Passport!Rounded, f
<1>. HIDE DEF total
<1>8. PICK n \in Int, d \in Nat \ {0}, low \in Int, high \in Int :
        n = 10 * total /\ d = 3 /\ low = 0 /\ high = 1000
  BY <1>6
<1>9. d * low <= n /\ n <= d * high /\ Passport!CapabilityPoints(s) = (2 * n + d) \div (2 * d)
  BY <1>6, <1>7, <1>8
<1>10. Passport!CapabilityPoints(s) \in low..high
  BY <1>9, RoundedIsBetween, Zenon
<1>. QED
  BY <1>8, <1>10

LEMMA EachScoreIsBounded ==
  ASSUME PassportTyped, NEW list, list = Passport!GradedSubmissions, NEW i \in DOMAIN list
  PROVE  Passport!ScoreHistory(list)[i] \in 0..1000
<1>. DEFINE counting == {t \in Tasks : Passport!Counts(t)}
            n == Len(order)
            m == Len(list)
<1>1. list = Passport!Selected(order, counting)
  BY DEF Passport!GradedSubmissions
<1>2. order \in Seq(Tasks) /\ n \in Nat
  BY DEF PassportTyped
<1>3. IsSelection(list, order, counting, n)
  BY <1>1, <1>2, SelectedIs
<1>4. PICK h \in [1..m -> 1..n] :
        /\ \A k \in 1..m : list[k] = order[h[k]]
        /\ \A k, l \in 1..m : k < l => h[k] < h[l]
  BY <1>3 DEF IsSelection
<1>5. m \in Nat /\ DOMAIN list = 1..m /\ \A k \in 1..m : list[k] \in counting
  <2>1. list \in Seq(counting)
    BY <1>3 DEF IsSelection
  <2>. HIDE DEF counting
  <2>. QED
    BY <2>1
<1>6. \A k \in 1..m : scores[list[k]] \in Results
  BY <1>5 DEF Passport!Counts, PassportTyped
<1>. HIDE DEF m, counting
<1>7. i \in 1..m
  BY <1>5
<1>8. \A j \in 1..m : j <= i => /\ finishedAt[list[i]] \in 0..now /\ finishedAt[list[j]] \in 0..now
                               /\ finishedAt[list[j]] <= finishedAt[list[i]]
  <2>. SUFFICES ASSUME NEW j \in 1..m, j <= i
                PROVE  /\ finishedAt[list[i]] \in 0..now /\ finishedAt[list[j]] \in 0..now
                       /\ finishedAt[list[j]] <= finishedAt[list[i]]
    OBVIOUS
  <2>1. h[i] \in 1..n /\ h[j] \in 1..n /\ list[i] = order[h[i]] /\ list[j] = order[h[j]]
    BY <1>4, <1>7
  <2>2. finishedAt[list[i]] \in 0..now /\ finishedAt[list[j]] \in 0..now
    BY <2>1 DEF PassportTyped
  <2>3. CASE j = i
    BY <2>2, <2>3
  <2>4. CASE j < i
    <3>1. h[j] < h[i]
      BY <1>4, <1>7, <2>4
    <3>. QED
      BY <2>1, <2>2, <3>1 DEF PassportTyped
  <2>. QED
    BY <1>5, <1>7, <2>3, <2>4
<1>. DEFINE w == [j \in 1..i |-> Passport!Weight(list[j], list[i])]
            p == [j \in 1..i |-> Passport!CapabilityPoints(list[j])]
            f == [j \in 1..i |-> Passport!Weight(list[j], list[i]) * Passport!CapabilityPoints(list[j])]
            prior == 2 * Passport!Doubled[MaxTime]
            W == SumFunctionOnSet(w, 1..i)
            P == SumFunctionOnSet(f, 1..i)
<1>9. MaxTime \in Nat /\ now \in 0..MaxTime /\ prior \in Nat \ {0}
  BY PassportAssumption, DoubledIsPositive DEF PassportTyped
<1>10. \A j \in 1..i : w[j] \in Nat /\ p[j] \in 0..1000 /\ f[j] = w[j] * p[j]
  <2>. SUFFICES ASSUME NEW j \in 1..i
                PROVE  Passport!Weight(list[j], list[i]) \in Nat /\ Passport!CapabilityPoints(list[j]) \in 0..1000
    OBVIOUS
  <2>1. j \in 1..m /\ j <= i
    BY <1>5, <1>7
  <2>2. MaxTime - (finishedAt[list[i]] - finishedAt[list[j]]) \in 0..MaxTime
    BY <1>7, <1>8, <1>9, <2>1
  <2>3. Passport!Weight(list[j], list[i]) \in Nat
    BY <2>2, DoubledIsPositive DEF Passport!Weight
  <2>. QED
    BY <1>6, <2>1, <2>3, PointsAreBounded
<1>11. Passport!ScoreHistory(list)[i] = (2 * (prior * 500 + P) + (prior + W)) \div (2 * (prior + W))
  <2>1. Passport!SumFunction(w) = W /\ Passport!SumFunction(f) = P
    BY PassportSums
  <2>. QED
    BY <1>5, <1>7, <2>1 DEF Passport!ScoreHistory, Passport!Rounded,
                      Passport!CAPABILITY_PRIOR_WEIGHT, Passport!CAPABILITY_PRIOR_SCORE
<1>12. IsFiniteSet(1..i)
  BY <1>5, <1>7, FS_Interval
<1>. HIDE DEF w, p, f, prior
<1>13. W \in Nat /\ P \in 0..1000 * W
  <2>1. PICK high \in Nat : high = 1000
    OBVIOUS
  <2>2. \A j \in 1..i : w[j] \in Nat /\ p[j] \in 0..high /\ f[j] = w[j] * p[j]
    BY <1>10, <2>1
  <2>3. SumFunctionOnSet(w, 1..i) \in Nat /\ SumFunctionOnSet(f, 1..i) \in 0..high * SumFunctionOnSet(w, 1..i)
    BY <1>12, <2>2, WeightedSumIsBounded, Zenon
  <2>. QED
    BY <2>1, <2>3
<1>. HIDE DEF W, P
<1>14. PICK a \in Int, d \in Nat \ {0}, low \in Int, high \in Int :
         a = prior * 500 + P /\ d = prior + W /\ low = 0 /\ high = 1000
  BY <1>9, <1>13
<1>15. d * low <= a /\ a <= d * high /\ Passport!ScoreHistory(list)[i] = (2 * a + d) \div (2 * d)
  BY <1>9, <1>11, <1>13, <1>14
<1>16. Passport!ScoreHistory(list)[i] \in low..high
  BY <1>15, RoundedIsBetween, Zenon
<1>. QED
  BY <1>14, <1>16

LEMMA HistoryIsBounded ==
  ASSUME PassportTyped
  PROVE  \A i \in DOMAIN Passport!GradedSubmissions :
            Passport!ScoreHistory(Passport!GradedSubmissions)[i] \in 0..1000
BY EachScoreIsBounded, Zenon

LEMMA PassportTypes == PassportTyped => Passport!TypeOK
<1>. SUFFICES ASSUME PassportTyped PROVE Passport!TypeOK
  OBVIOUS
<1>1. DOMAIN order = 1..Len(order)
  BY DEF PassportTyped
<1>2. \A s \in Tasks : scores[s] # NoTask => Passport!Contains(order, s)
  BY DEF PassportTyped, Passport!Contains
<1>. QED
  BY <1>1, <1>2, HistoryIsBounded DEF PassportTyped, Passport!TypeOK

(* The capability score of a candidate is out of a thousand after every    *)
(* application, the completed submissions are in the order they were       *)
(* completed in, and whatever has scores is among them.                    *)
THEOREM PassportIsTyped == Passport!Spec => []Passport!TypeOK
BY PassportAlwaysTyped, PassportTypes, PTL

(* The score of an application among those of its domain is the score the  *)
(* candidate's whole history had there when that domain is the only one.   *)
THEOREM HistoriesAlike == Passport!Spec => []HistoriesAgree
BY PassportAlwaysTyped, HistoriesMatch, PTL DEF HistoriesAgree

-----------------------------------------------------------------------------
(* The library's operators in Scoring.                                     *)

LEMMA ScoresSums == \A f : Scores!SumFunction(f) = SumFunctionOnSet(f, DOMAIN f)
BY DEF Scores!SumFunction, Scores!SumFunctionOnSet, Scores!FoldFunctionOnSet, Scores!MapThenFoldSet,
       SumFunctionOnSet, FoldFunctionOnSet, MapThenFoldSet

LEMMA ScoresCardinality == \A S : Scores!Cardinality(S) = Cardinality(S)
BY DEF Scores!Cardinality, Cardinality, Scores!IsFiniteSet, IsFiniteSet

-----------------------------------------------------------------------------
(* Scoring: what the key of a task says of an answer.                      *)

LEMMA NearestIsRounded ==
  ASSUME NEW n \in Int, NEW d \in Nat \ {0}, NEW p \in Int
  PROVE  Scores!Rounded(n, d) \in Int /\ (Scores!Nearest(p, n, d) <=> p = Scores!Rounded(n, d))
<1>. DEFINE q == (2 * n + d) \div (2 * d)
            r == (2 * n + d) % (2 * d)
<1>1. 2 * d \in Nat \ {0} /\ 2 * n + d \in Int
  OBVIOUS
<1>2. q \in Int /\ r \in 0..2 * d - 1 /\ 2 * n + d = (2 * d) * q + r /\ Scores!Rounded(n, d) = q
  BY <1>1 DEF Scores!Rounded
<1>. HIDE DEF q, r
<1>3. (2 * d) * q = 2 * (d * q) /\ d * q \in Int /\ p * d = d * p /\ d * p \in Int
  BY <1>2
<1>4. CASE p = q
  BY <1>2, <1>3, <1>4 DEF Scores!Nearest
<1>5. CASE p >= q + 1
  <2>1. d * (q + 1) <= d * p /\ d * (q + 1) = d * q + d
    BY <1>2, <1>5, ProductIsMonotone
  <2>2. ~ (2 * (p * d - n) <= d)
    BY <1>2, <1>3, <2>1
  <2>. QED
    BY <1>2, <1>5, <2>2 DEF Scores!Nearest
<1>6. CASE p <= q - 1
  <2>1. d * p <= d * (q - 1) /\ d * (q - 1) = d * q - d
    BY <1>2, <1>6, ProductIsMonotone
  <2>2. ~ (2 * (p * d - n) > -d)
    BY <1>2, <1>3, <2>1
  <2>. QED
    BY <1>2, <1>6, <2>2 DEF Scores!Nearest
<1>. QED
  BY <1>2, <1>4, <1>5, <1>6

(* A percentage is right when it is close to the key's.                    *)
LEMMA PercentIsRight ==
  ASSUME NEW n \in Int, NEW d \in Nat \ {0}, NEW given \in Int \cup {NoTask}
  PROVE  /\ Scores!Percent(n, d) \in Int
         /\ Scores!RightPercent(given, n, d) <=> Scores!Within(given, Scores!Percent(n, d), 5)
<1>1. PICK p \in Int : p = Scores!Rounded(1000 * n, d)
  BY NearestIsRounded
<1>2. Scores!Percent(n, d) = 10 * p
  BY <1>1 DEF Scores!Percent
<1>3. \A tenths \in Int : Scores!Nearest(tenths, 1000 * n, d) <=> tenths = p
  <2>1. 1000 * n \in Int
    OBVIOUS
  <2>. QED
    BY <1>1, <2>1, NearestIsRounded
<1>4. CASE given = NoTask
  BY <1>2, <1>4 DEF Scores!RightPercent, Scores!Within
<1>5. CASE given # NoTask
  <2>1. given \in Int
    BY <1>5
  <2>2. (given - 10) \div 10 \in Int /\ (given + 10) \div 10 \in Int
    BY <2>1
  <2>3. Scores!RightPercent(given, n, d) =>
          p \in (given - 10) \div 10 .. (given + 10) \div 10 /\ given - 10 * p \in -5 .. 5
    BY <1>3, <2>2 DEF Scores!RightPercent, Scores!PERCENT_TOLERANCE
  <2>4. given - 10 * p \in -5 .. 5 => Scores!RightPercent(given, n, d)
    <3>. SUFFICES ASSUME given - 10 * p \in -5 .. 5 PROVE Scores!RightPercent(given, n, d)
      OBVIOUS
    <3>1. p \in (given - 10) \div 10 .. (given + 10) \div 10
      BY <2>1
    <3>. QED
      BY <1>3, <1>5, <3>1 DEF Scores!RightPercent, Scores!PERCENT_TOLERANCE
  <2>. QED
    BY <1>2, <1>5, <2>3, <2>4 DEF Scores!Within
<1>. QED
  BY <1>2, <1>4, <1>5

(* An answer earns parts of at least one, and when the table shows every   *)
(* figure as it was given, exactly those that are right.                   *)
KeyIsRight(t) ==
  \A r \in Scores!Responses(t) :
    LET parts == Scores!GradeObjective(t, r)
    IN  parts # NoTask => /\ t.exact => parts.correct = Scores!RightParts(t, r)
                          /\ parts.total \in Nat \ {0}
                          /\ parts.correct \in 0..parts.total

LEMMA PartsOf ==
  ASSUME NEW c, NEW n
  PROVE  Scores!Parts(c, n).correct = c /\ Scores!Parts(c, n).total = n
BY DEF Scores!Parts

(* A single figure.                                                        *)
LEMMA NumericInputKey ==
  ASSUME NEW t, t.type = "NUMERIC_INPUT", t.value \in Int, t.tolerance \in Nat,
         t.exact => \A given \in Int \cup {NoTask} :
            Scores!RightFigure(t, given) <=> Scores!Within(given, t.value, t.tolerance)
  PROVE  KeyIsRight(t)
<1>. SUFFICES ASSUME NEW r \in Scores!Responses(t), Scores!GradeObjective(t, r) # NoTask
              PROVE  /\ t.exact => Scores!GradeObjective(t, r).correct = Scores!RightParts(t, r)
                     /\ Scores!GradeObjective(t, r).total \in Nat \ {0}
                     /\ Scores!GradeObjective(t, r).correct \in 0..Scores!GradeObjective(t, r).total
  BY DEF KeyIsRight
<1>. DEFINE earned == IF Scores!Within(r, t.value, t.tolerance) THEN 1 ELSE 0
<1>1. Scores!GradeObjective(t, r) = Scores!Parts(earned, 1)
  BY DEF Scores!GradeObjective, Scores!GradeNumericInput
<1>2. r \in Int \cup {NoTask}
  BY DEF Scores!Responses, Scores!Near
<1>3. t.exact => Scores!RightParts(t, r) = earned
  BY <1>2 DEF Scores!RightParts, Scores!Within
<1>. QED
  BY <1>1, <1>3, PartsOf

(* A table of figures.                                                     *)
LEMMA NumericTableKey ==
  ASSUME NEW t, t.type = "NUMERIC_TABLE", NEW w \in Nat \ {0}, DOMAIN t.tolerances = 1..w,
         t.values \in [Scores!Lines -> [1..w -> Int]], \A j \in 1..w : t.tolerances[j] \in Nat,
         t.exact => \A i \in Scores!Lines, j \in 1..w, given \in Int \cup {NoTask} :
            Scores!RightCell(t, given, i, j) <=> Scores!Within(given, t.values[i][j], t.tolerances[j])
  PROVE  KeyIsRight(t)
<1>. SUFFICES ASSUME NEW r \in Scores!Responses(t), Scores!GradeObjective(t, r) # NoTask
              PROVE  /\ t.exact => Scores!GradeObjective(t, r).correct = Scores!RightParts(t, r)
                     /\ Scores!GradeObjective(t, r).total \in Nat \ {0}
                     /\ Scores!GradeObjective(t, r).correct \in 0..Scores!GradeObjective(t, r).total
  BY DEF KeyIsRight
<1>. DEFINE cells == Scores!Lines \X (1..w)
            earned == {c \in cells : /\ r # NoTask
                                     /\ Scores!Within(r[c[1]][c[2]], t.values[c[1]][c[2]], t.tolerances[c[2]])}
<1>1. Scores!Cells(t) = cells
  BY DEF Scores!Cells
<1>2. IsFiniteSet(cells) /\ cells # {}
  <2>1. Scores!Lines = 1..Len(Amounts) /\ Len(Amounts) \in Nat \ {0}
    BY ScoringAssumption DEF Scores!Lines
  <2>2. IsFiniteSet(1..Len(Amounts)) /\ IsFiniteSet(1..w)
    BY <2>1, FS_Interval
  <2>3. <<1, 1>> \in cells
    BY <2>1
  <2>. QED
    BY <2>1, <2>2, <2>3, FS_Product
<1>3. /\ earned \subseteq cells /\ IsFiniteSet(earned)
      /\ Cardinality(earned) \in Nat /\ Cardinality(cells) \in Nat \ {0}
      /\ Cardinality(earned) <= Cardinality(cells)
  BY <1>2, FS_Subset, FS_CardinalityType, FS_EmptySet
<1>4. Scores!GradeObjective(t, r) = Scores!Parts(Cardinality(earned), Cardinality(cells))
  BY <1>1, ScoresCardinality DEF Scores!GradeObjective, Scores!GradeNumericTable
<1>5. ASSUME t.exact PROVE Scores!RightParts(t, r) = Cardinality(earned)
  <2>1. CASE r = NoTask
    <3>1. earned = {}
      BY <2>1
    <3>. QED
      BY <2>1, <3>1, FS_EmptySet DEF Scores!RightParts
  <2>2. CASE r # NoTask
    <3>1. \A i \in Scores!Lines, j \in 1..w : r[i][j] \in Int \cup {NoTask}
      <4>1. PICK c \in cells : \E v \in Scores!Near(t.values[c[1]][c[2]], t.tolerances[c[2]]) :
                                r = [t.values EXCEPT ![c[1]][c[2]] = v]
        <5>. DEFINE at(c) == {[t.values EXCEPT ![c[1]][c[2]] = v] :
                                v \in Scores!Near(t.values[c[1]][c[2]], t.tolerances[c[2]])}
        <5>1. r \in {NoTask} \cup UNION {at(c) : c \in cells}
          <6>1. r \in {NoTask} \cup Scores!NumericTableResponses(t)
            BY DEF Scores!Responses
          <6>. QED
            BY <1>1, <6>1, Zenon DEF Scores!NumericTableResponses
        <5>. HIDE DEF at
        <5>2. PICK c \in cells : r \in at(c)
          BY <2>2, <5>1
        <5>. QED
          BY <5>2 DEF at
      <4>2. c[1] \in Scores!Lines /\ c[2] \in 1..w
        BY <4>1
      <4>3. PICK v \in Scores!Near(t.values[c[1]][c[2]], t.tolerances[c[2]]) : r = [t.values EXCEPT ![c[1]][c[2]] = v]
        BY <4>1
      <4>4. v \in Int \cup {NoTask}
        BY <4>2, <4>3 DEF Scores!Near
      <4>. QED
        BY <4>2, <4>3, <4>4
    <3>2. \A c \in cells : Scores!RightCell(t, r[c[1]][c[2]], c[1], c[2]) <=> c \in earned
      BY <1>5, <2>2, <3>1
    <3>3. {c \in cells : Scores!RightCell(t, r[c[1]][c[2]], c[1], c[2])} = earned
      BY <3>2
    <3>. QED
      BY <1>1, <2>2, <3>3, ScoresCardinality DEF Scores!RightParts
  <2>. QED
    BY <2>1, <2>2
<1>. HIDE DEF earned, cells
<1>. QED
  BY <1>3, <1>4, <1>5, PartsOf

-----------------------------------------------------------------------------
(* The templates of single figures and of tables of figures.               *)

(* What drafting a task leaves: nothing, or a task whose key is right.     *)
Drafted ==
  \/ phase' = "draft" /\ task' = Scores!Rejected
  \/ phase' = "open" /\ task'.template \in Plan[Len(results) + 1] /\ KeyIsRight(task')

LEMMA BuiltIsDrafted ==
  ASSUME NEW valid \in BOOLEAN, NEW t, Scores!Build(valid, t), valid => KeyIsRight(t)
  PROVE  Drafted
BY DEF Scores!Build, Drafted

LEMMA LinesAre ==
  /\ Scores!Lines = 1..Len(Amounts) /\ Len(Amounts) \in Nat /\ Len(Amounts) > 1
  /\ IsFiniteSet(Scores!Lines) /\ 1 \in Scores!Lines /\ Len(Amounts) \in Scores!Lines
  /\ \A i \in Scores!Lines : Amounts[i] \in Nat \ {0}
<1>1. Scores!Lines = 1..Len(Amounts) /\ Len(Amounts) \in Nat /\ Len(Amounts) > 1
  BY ScoringAssumption DEF Scores!Lines
<1>2. IsFiniteSet(1..Len(Amounts))
  BY <1>1, FS_Interval
<1>3. \A i \in 1..Len(Amounts) : Amounts[i] \in Nat \ {0}
  BY ScoringAssumption
<1>. QED
  BY <1>1, <1>2, <1>3

LEMMA FiguresAre == \A f \in Figures : f \in Int
<1>1. Figures \subseteq Int
  BY ScoringAssumption, Zenon
<1>. QED
  BY <1>1

LEMMA ToCentsIsInt == ASSUME NEW x \in Int PROVE Scores!ToCents(x) \in Int
<1>1. Scores!Rounded(x, 10) \in Int
  BY NearestIsRounded
<1>. QED
  BY <1>1 DEF Scores!ToCents, Scores!Cent

(* What the two kinds of numeric task hold.                                *)
LEMMA InputFields ==
  ASSUME NEW name, NEW given, NEW shown, NEW value, NEW tolerance, NEW t,
         t = Scores!NumericInput(name, given, shown, value, tolerance)
  PROVE  /\ t.template = name /\ t.type = "NUMERIC_INPUT" /\ t.value = value /\ t.tolerance = tolerance
         /\ t.exact => t.table = given
BY DEF Scores!NumericInput

LEMMA TableFields ==
  ASSUME NEW name, NEW given, NEW shown, NEW values, NEW tolerances, NEW t,
         t = Scores!NumericTable(name, given, shown, values, tolerances)
  PROVE  /\ t.template = name /\ t.type = "NUMERIC_TABLE" /\ t.values = values /\ t.tolerances = tolerances
         /\ t.exact => t.table = given
BY DEF Scores!NumericTable

LEMMA VarianceBridgeKey == Scores!VarianceBridge => Drafted
<1>. SUFFICES ASSUME Scores!VarianceBridge PROVE Drafted
  OBVIOUS
<1>a. PICK budget \in Figures, actual \in Figures, sign \in [Scores!Lines -> {-1, 0, 1}], unique \in BOOLEAN :
        LET drivers == [i \in Scores!Lines |-> sign[i] * Amounts[i]]
            unexplained == Scores!ToCents(actual - budget - Scores!SumFunction(drivers))
        IN  Scores!Build(/\ unique
                         /\ \A i \in Scores!Lines : drivers[i] # 0
                         /\ unexplained >= 100 * Scores!Cent \/ unexplained <= -(100 * Scores!Cent),
                         Scores!NumericInput("variance-bridge",
                             [budget |-> budget, actual |-> actual, drivers |-> drivers],
                             [budget |-> Scores!Shown(budget), actual |-> Scores!Shown(actual),
                              drivers |-> Scores!ShownEach(drivers)],
                             unexplained, Scores!WHOLE_UNIT_TOLERANCE))
  BY Zenon DEF Scores!VarianceBridge
<1>b. PICK drivers : drivers = [i \in Scores!Lines |-> sign[i] * Amounts[i]]
  OBVIOUS
<1>c. PICK unexplained : unexplained = Scores!ToCents(actual - budget - Scores!SumFunction(drivers))
  OBVIOUS
<1>d. PICK valid \in BOOLEAN : valid = (/\ unique
                                        /\ \A i \in Scores!Lines : drivers[i] # 0
                                        /\ unexplained >= 100 * Scores!Cent \/ unexplained <= -(100 * Scores!Cent))
  OBVIOUS
<1>e. PICK given, t :
        /\ given = [budget |-> budget, actual |-> actual, drivers |-> drivers]
        /\ t = Scores!NumericInput("variance-bridge", given,
                   [budget |-> Scores!Shown(budget), actual |-> Scores!Shown(actual),
                    drivers |-> Scores!ShownEach(drivers)], unexplained, 500)
  OBVIOUS
<1>f. Scores!Build(valid, t)
  BY <1>a, <1>b, <1>c, <1>d, <1>e, Zenon DEF Scores!WHOLE_UNIT_TOLERANCE
<1>1. unexplained \in Int
  <2>1. \A i \in Scores!Lines : drivers[i] \in Int
    <3>. TAKE i \in Scores!Lines
    <3>1. Amounts[i] \in Int
      BY LinesAre
    <3>2. sign[i] \in {-1, 0, 1}
      OBVIOUS
    <3>3. drivers[i] = sign[i] * Amounts[i]
      BY <1>b
    <3>. QED
      BY <3>1, <3>2, <3>3
  <2>2. DOMAIN drivers = Scores!Lines /\ SumFunctionOnSet(drivers, Scores!Lines) \in Int
    BY <1>b, <2>1, LinesAre, SumIsInt
  <2>3. Scores!SumFunction(drivers) \in Int
    BY <2>2, ScoresSums
  <2>4. actual - budget - Scores!SumFunction(drivers) \in Int
    BY <2>3, ScoringAssumption
  <2>. QED
    BY <1>c, <2>4, ToCentsIsInt
<1>2. /\ t.template = "variance-bridge" /\ t.type = "NUMERIC_INPUT" /\ t.value = unexplained /\ t.tolerance = 500
      /\ t.exact => t.table = given
  BY <1>e, InputFields
<1>3. given.budget = budget /\ given.actual = actual /\ given.drivers = drivers
  BY <1>e
<1>4. t.exact => \A r : Scores!RightFigure(t, r) <=> Scores!Within(r, unexplained, 500)
  <2>. SUFFICES ASSUME t.exact, NEW r PROVE Scores!RightFigure(t, r) <=> Scores!Within(r, unexplained, 500)
    OBVIOUS
  <2>1. t.template = "variance-bridge" /\ t.table = given
    BY <1>2
  <2>. QED
    BY <1>3, <1>c, <2>1 DEF Scores!RightFigure, Scores!WHOLE_UNIT_TOLERANCE
<1>5. KeyIsRight(t)
  BY <1>1, <1>2, <1>4, NumericInputKey
<1>. QED
  BY <1>5, <1>f, BuiltIsDrafted

(* The revised column of a forecast, and the result worked out from it.       *)
Foreseen(units, price, cost, fixed, newUnits, newPrice, oneOff) ==
    [units |-> Scores!Revised(units, newUnits), price |-> Scores!Revised(price, newPrice),
     cost |-> cost, fixed |-> fixed, oneOff |-> Scores!Revised(0, oneOff)]

ResultOf(column) == 10 * Scores!Rounded(Scores!OperatingResult(column), 10 * 1000)

LEMMA ForecastKey == Scores!Forecast => Drafted
<1>. SUFFICES ASSUME NEW units \in {1000, 1125}, NEW price \in Figures, NEW fixed \in Figures,
                     NEW newUnits \in {3000, NoTask}, NEW newPrice \in Figures \cup {NoTask},
                     NEW oneOff \in Figures \cup {NoTask}, NEW cost, cost = Amounts[1],
                     NEW after, after = Foreseen(units, price, cost, fixed, newUnits, newPrice, oneOff), NEW shown,
                     Scores!Build(newUnits # NoTask \/ newPrice # NoTask \/ oneOff # NoTask,
                         Scores!NumericInput("forecast", after, shown, ResultOf(after), 500))
              PROVE  Drafted
  BY DEF Scores!Forecast, Scores!WHOLE_UNIT_TOLERANCE, Scores!Cent, Scores!Unit, Foreseen, ResultOf
<1>a. PICK result, t : result = ResultOf(after) /\ t = Scores!NumericInput("forecast", after, shown, result, 500)
  OBVIOUS
<1>1. /\ after.units \in Int /\ after.price \in Int /\ cost \in Int /\ fixed \in Int /\ after.oneOff \in Int
      /\ after.cost = cost /\ after.fixed = fixed
  <2>1. Scores!Revised(units, newUnits) \in Int /\ Scores!Revised(price, newPrice) \in Int
        /\ Scores!Revised(0, oneOff) \in Int
    BY ScoringAssumption DEF Scores!Revised
  <2>. QED
    BY <2>1, LinesAre, FiguresAre DEF Foreseen
<1>2. PICK n \in Int : n = Scores!OperatingResult(after)
  BY <1>1 DEF Scores!OperatingResult, Scores!Unit
<1>3. n = after.units * after.price - after.units * after.cost - 1000 * after.fixed - 1000 * after.oneOff
  BY <1>1, <1>2 DEF Scores!OperatingResult, Scores!Unit
<1>4. result = 10 * Scores!Rounded(n, 10 * 1000) /\ result \in Int
  <2>1. 10 * 1000 \in Nat \ {0}
    OBVIOUS
  <2>2. Scores!Rounded(n, 10 * 1000) \in Int
    BY <2>1, NearestIsRounded
  <2>. QED
    BY <1>2, <1>a, <2>2 DEF ResultOf
<1>5. /\ t.template = "forecast" /\ t.type = "NUMERIC_INPUT" /\ t.value = result /\ t.tolerance = 500
      /\ t.exact => t.table = after
  BY <1>a, InputFields
<1>6. t.exact => \A r : Scores!RightFigure(t, r) <=> Scores!Within(r, result, 500)
  <2>. SUFFICES ASSUME t.exact, NEW r PROVE Scores!RightFigure(t, r) <=> Scores!Within(r, result, 500)
    OBVIOUS
  <2>1. Scores!RightFigure(t, r) <=>
          Scores!Within(r, 10 * Scores!Rounded(
            after.units * after.price - after.units * after.cost - 1000 * after.fixed - 1000 * after.oneOff,
            10 * 1000), 500)
    BY <1>5 DEF Scores!RightFigure, Scores!WHOLE_UNIT_TOLERANCE, Scores!Cent, Scores!Unit
  <2>. QED
    BY <1>3, <1>4, <2>1
<1>7. KeyIsRight(t)
  BY <1>4, <1>5, <1>6, NumericInputKey
<1>8. Scores!Build(newUnits # NoTask \/ newPrice # NoTask \/ oneOff # NoTask, t)
  BY <1>a
<1>. QED
  BY <1>7, <1>8 DEF Scores!Build, Drafted

LEMMA LineTrendKey == Scores!LineTrend => Drafted
<1>. SUFFICES ASSUME NEW revenue \in [Scores!Lines -> Figures], NEW valid \in BOOLEAN, valid => revenue[1] > 0,
                     NEW shown,
                     Scores!Build(valid, Scores!NumericInput("line-trend", [revenue |-> revenue], shown,
                         Scores!Percent(revenue[Len(Amounts)] - revenue[1], revenue[1]), 5))
              PROVE  Drafted
  BY DEF Scores!LineTrend, Scores!PERCENT_TOLERANCE
<1>. DEFINE n == revenue[Len(Amounts)] - revenue[1]
<1>a. PICK change, given, t : /\ change = Scores!Percent(n, revenue[1])
                              /\ given = [revenue |-> revenue]
                              /\ t = Scores!NumericInput("line-trend", given, shown, change, 5)
  OBVIOUS
<1>1. revenue[1] \in Int /\ n \in Int /\ Len(revenue) = Len(Amounts)
  <2>1. revenue[1] \in Figures /\ revenue[Len(Amounts)] \in Figures
    BY LinesAre
  <2>2. revenue \in [1..Len(Amounts) -> Figures] /\ Len(Amounts) \in Nat
    BY LinesAre
  <2>3. revenue \in Seq(Figures) /\ Len(revenue) = Len(Amounts)
    BY <2>2
  <2>. QED
    BY <2>1, <2>3, FiguresAre
<1>2. given.revenue = revenue
  BY <1>a
<1>3. ASSUME valid PROVE KeyIsRight(t)
  <2>1. revenue[1] \in Nat \ {0}
    BY <1>1, <1>3
  <2>2. /\ change \in Int
        /\ \A r \in Int \cup {NoTask} :
              Scores!RightPercent(r, n, revenue[1]) <=> Scores!Within(r, change, 5)
    BY <1>1, <1>a, <2>1, PercentIsRight
  <2>3. /\ t.template = "line-trend" /\ t.type = "NUMERIC_INPUT" /\ t.value = change /\ t.tolerance = 5
        /\ t.exact => t.table = given
    BY <1>a, InputFields
  <2>4. t.exact => \A r : Scores!RightFigure(t, r) <=> Scores!RightPercent(r, n, revenue[1])
    BY <1>1, <1>2, <2>3 DEF Scores!RightFigure
  <2>. QED
    BY <2>2, <2>3, <2>4, NumericInputKey
<1>. QED
  BY <1>3, <1>a, BuiltIsDrafted

LEMMA VarianceKey == Scores!Variance => Drafted
<1>. SUFFICES ASSUME Scores!Variance PROVE Drafted
  OBVIOUS
<1>a. PICK actual \in [Scores!Lines -> Figures \cup {0}], unique \in BOOLEAN :
        LET variance == [i \in Scores!Lines |-> Scores!ToCents(actual[i] - Amounts[i])]
        IN  Scores!Build(unique,
                Scores!NumericTable("variance",
                    [actual |-> actual, budget |-> Amounts],
                    [actual |-> Scores!ShownEach(actual), budget |-> Scores!ShownEach(Amounts)],
                    [i \in Scores!Lines |-> <<variance[i], Scores!Percent(variance[i], Amounts[i])>>],
                    <<Scores!WHOLE_UNIT_TOLERANCE, Scores!PERCENT_TOLERANCE>>))
  BY Zenon DEF Scores!Variance
<1>b. PICK variance : variance = [i \in Scores!Lines |-> Scores!ToCents(actual[i] - Amounts[i])]
  OBVIOUS
<1>c. PICK values : values = [i \in Scores!Lines |-> <<variance[i], Scores!Percent(variance[i], Amounts[i])>>]
  OBVIOUS
<1>d. PICK given, t :
        /\ given = [actual |-> actual, budget |-> Amounts]
        /\ t = Scores!NumericTable("variance", given,
                   [actual |-> Scores!ShownEach(actual), budget |-> Scores!ShownEach(Amounts)], values, <<500, 5>>)
  OBVIOUS
<1>e. Scores!Build(unique, t)
  BY <1>a, <1>b, <1>c, <1>d, Zenon DEF Scores!WHOLE_UNIT_TOLERANCE, Scores!PERCENT_TOLERANCE
<1>1. \A i \in Scores!Lines :
        /\ variance[i] \in Int /\ Amounts[i] \in Nat \ {0}
        /\ variance[i] = Scores!ToCents(actual[i] - Amounts[i])
        /\ Scores!Percent(variance[i], Amounts[i]) \in Int
        /\ \A r \in Int \cup {NoTask} :
              Scores!RightPercent(r, variance[i], Amounts[i])
                <=> Scores!Within(r, Scores!Percent(variance[i], Amounts[i]), 5)
  <2>. TAKE i \in Scores!Lines
  <2>1. actual[i] - Amounts[i] \in Int /\ Amounts[i] \in Nat \ {0}
    <3>1. actual[i] \in Figures \cup {0} /\ Amounts[i] \in Nat \ {0}
      BY LinesAre
    <3>. QED
      BY <3>1, FiguresAre
  <2>2. variance[i] = Scores!ToCents(actual[i] - Amounts[i])
    BY <1>b
  <2>3. variance[i] \in Int
    BY <2>1, <2>2, ToCentsIsInt
  <2>. QED
    BY <2>1, <2>2, <2>3, PercentIsRight
<1>2. /\ t.template = "variance" /\ t.type = "NUMERIC_TABLE" /\ t.values = values /\ t.tolerances = <<500, 5>>
      /\ t.exact => t.table = given
  BY <1>d, TableFields
<1>3. given.actual = actual /\ given.budget = Amounts
  BY <1>d
<1>4. values \in [Scores!Lines -> [1..2 -> Int]]
  BY <1>1, <1>c
<1>5. DOMAIN t.tolerances = 1..2 /\ t.tolerances[1] = 500 /\ t.tolerances[2] = 5
  BY <1>2
<1>6. ASSUME t.exact, NEW i \in Scores!Lines, NEW j \in 1..2, NEW r \in Int \cup {NoTask}
      PROVE  Scores!RightCell(t, r, i, j) <=> Scores!Within(r, t.values[i][j], t.tolerances[j])
  <2>1. CASE j = 1
    <3>1. Scores!RightCell(t, r, i, j) <=> Scores!Within(r, variance[i], 500)
      BY <1>1, <1>2, <1>3, <1>6, <2>1 DEF Scores!RightCell, Scores!WHOLE_UNIT_TOLERANCE
    <3>. QED
      BY <1>2, <1>5, <1>c, <2>1, <3>1
  <2>2. CASE j = 2
    <3>1. Scores!RightCell(t, r, i, j) <=> Scores!RightPercent(r, variance[i], Amounts[i])
      BY <1>1, <1>2, <1>3, <1>6, <2>2 DEF Scores!RightCell
    <3>. QED
      BY <1>1, <1>2, <1>5, <1>c, <2>2, <3>1
  <2>. QED
    BY <2>1, <2>2
<1>7. KeyIsRight(t)
  <2>1. PICK w \in Nat \ {0} : w = 2
    OBVIOUS
  <2>2. /\ DOMAIN t.tolerances = 1..w /\ t.values \in [Scores!Lines -> [1..w -> Int]]
        /\ \A j \in 1..w : t.tolerances[j] \in Nat
    BY <1>2, <1>4, <1>5, <2>1
  <2>3. t.exact => \A i \in Scores!Lines, j \in 1..w, r \in Int \cup {NoTask} :
           Scores!RightCell(t, r, i, j) <=> Scores!Within(r, t.values[i][j], t.tolerances[j])
    BY <1>6, <2>1
  <2>. QED
    BY <1>2, <2>2, <2>3, NumericTableKey, Zenon
<1>. QED
  BY <1>7, <1>e, BuiltIsDrafted

LEMMA RevenueUnitsKey == Scores!RevenueUnitsCombo => Drafted
<1>. SUFFICES ASSUME NEW unitsSold \in [Scores!Lines -> {1, 3, 7}], NEW valid \in BOOLEAN,
                     NEW perUnit,
                     perUnit = [i \in Scores!Lines |-> 10 * Scores!Rounded(Amounts[i], 10 * unitsSold[i])],
                     NEW values, values = [i \in Scores!Lines |-> <<perUnit[i]>>], NEW shown,
                     Scores!Build(valid, Scores!NumericTable("revenue-units",
                         [revenue |-> Amounts, unitsSold |-> unitsSold], shown, values, << 10 >>))
              PROVE  Drafted
  <2>1. ASSUME NEW unitsSold \in [Scores!Lines -> {1, 3, 7}], NEW unique \in BOOLEAN,
               NEW perUnit, perUnit = [i \in Scores!Lines |-> 10 * Scores!Rounded(Amounts[i], 10 * unitsSold[i])],
               NEW shown,
               Scores!Build(unique /\ \A i \in Scores!Lines : perUnit[i] > 0,
                   Scores!NumericTable("revenue-units", [revenue |-> Amounts, unitsSold |-> unitsSold], shown,
                       [i \in Scores!Lines |-> <<perUnit[i]>>], << 10 >>))
        PROVE  Drafted
    <3>1. (unique /\ \A i \in Scores!Lines : perUnit[i] > 0) \in BOOLEAN
      OBVIOUS
    <3>. QED
      BY <2>1, <3>1
  <2>. QED
    BY <2>1 DEF Scores!RevenueUnitsCombo, Scores!CENT_TOLERANCE, Scores!Cent
<1>a. PICK given, t : /\ given = [revenue |-> Amounts, unitsSold |-> unitsSold]
                      /\ t = Scores!NumericTable("revenue-units", given, shown, values, << 10 >>)
  OBVIOUS
<1>1. \A i \in Scores!Lines :
        /\ Scores!Rounded(Amounts[i], 10 * unitsSold[i]) \in Int
        /\ perUnit[i] = 10 * Scores!Rounded(Amounts[i], 10 * unitsSold[i]) /\ perUnit[i] \in Int
        /\ \A p \in Int : Scores!Nearest(p, Amounts[i], 10 * unitsSold[i])
                            <=> p = Scores!Rounded(Amounts[i], 10 * unitsSold[i])
  <2>. TAKE i \in Scores!Lines
  <2>1. Amounts[i] \in Int /\ 10 * unitsSold[i] \in Nat \ {0}
    <3>1. Amounts[i] \in Int
      BY LinesAre
    <3>2. unitsSold[i] \in {1, 3, 7}
      OBVIOUS
    <3>. QED
      BY <3>1, <3>2
  <2>2. Scores!Rounded(Amounts[i], 10 * unitsSold[i]) \in Int
    BY <2>1, NearestIsRounded
  <2>3. perUnit[i] = 10 * Scores!Rounded(Amounts[i], 10 * unitsSold[i])
    OBVIOUS
  <2>. QED
    BY <2>1, <2>2, <2>3, NearestIsRounded
<1>2. /\ t.template = "revenue-units" /\ t.type = "NUMERIC_TABLE" /\ t.values = values /\ t.tolerances = << 10 >>
      /\ t.exact => t.table = given
  BY <1>a, TableFields
<1>3. given.revenue = Amounts /\ given.unitsSold = unitsSold
  BY <1>a
<1>4. values \in [Scores!Lines -> [1..1 -> Int]]
  BY <1>1
<1>5. DOMAIN t.tolerances = 1..1 /\ t.tolerances[1] = 10
  BY <1>2
<1>6. ASSUME t.exact, NEW i \in Scores!Lines, NEW j \in 1..1, NEW r \in Int \cup {NoTask}
      PROVE  Scores!RightCell(t, r, i, j) <=> Scores!Within(r, t.values[i][j], t.tolerances[j])
  <2>1. PICK p \in Int : p = Scores!Rounded(Amounts[i], 10 * unitsSold[i])
    BY <1>1
  <2>2. j = 1 /\ t.values[i][j] = 10 * p /\ t.tolerances[j] = 10
    BY <1>1, <1>2, <1>5, <2>1
  <2>. DEFINE Close(cents) == /\ Scores!Nearest(cents, Amounts[i], 10 * unitsSold[i])
                              /\ r - 10 * cents \in -10 .. 10
  <2>3. Scores!RightCell(t, r, i, j) <=>
          r # NoTask /\ \E cents \in (r - 10) \div 10 .. (r + 10) \div 10 : Close(cents)
    BY <1>2, <1>3, <1>6, <2>2 DEF Scores!RightCell, Scores!CENT_TOLERANCE, Scores!Cent
  <2>4. CASE r = NoTask
    BY <2>3, <2>4 DEF Scores!Within
  <2>5. CASE r # NoTask
    <3>1. r \in Int
      BY <2>5
    <3>2. (r - 10) \div 10 \in Int /\ (r + 10) \div 10 \in Int
      BY <3>1
    <3>3. (\E cents \in (r - 10) \div 10 .. (r + 10) \div 10 : Close(cents)) => r - 10 * p \in -10 .. 10
      BY <1>1, <2>1, <3>2
    <3>4. r - 10 * p \in -10 .. 10 => \E cents \in (r - 10) \div 10 .. (r + 10) \div 10 : Close(cents)
      <4>. SUFFICES ASSUME r - 10 * p \in -10 .. 10
                    PROVE  \E cents \in (r - 10) \div 10 .. (r + 10) \div 10 : Close(cents)
        OBVIOUS
      <4>1. p \in (r - 10) \div 10 .. (r + 10) \div 10
        BY <3>1
      <4>2. Close(p)
        BY <1>1, <2>1
      <4>. HIDE DEF Close
      <4>. QED
        BY <4>1, <4>2
    <3>. HIDE DEF Close
    <3>. QED
      BY <2>2, <2>3, <2>5, <3>1, <3>3, <3>4 DEF Scores!Within
  <2>. QED
    BY <2>4, <2>5
<1>7. KeyIsRight(t)
  <2>1. PICK w \in Nat \ {0} : w = 1
    OBVIOUS
  <2>2. /\ DOMAIN t.tolerances = 1..w /\ t.values \in [Scores!Lines -> [1..w -> Int]]
        /\ \A j \in 1..w : t.tolerances[j] \in Nat
    BY <1>2, <1>4, <1>5, <2>1
  <2>3. t.exact => \A i \in Scores!Lines, j \in 1..w, r \in Int \cup {NoTask} :
           Scores!RightCell(t, r, i, j) <=> Scores!Within(r, t.values[i][j], t.tolerances[j])
    BY <1>6, <2>1
  <2>. QED
    BY <1>2, <2>2, <2>3, NumericTableKey, Zenon
<1>. QED
  BY <1>7, <1>a, BuiltIsDrafted

LEMMA StatementKey == Scores!StatementAnalysis => Drafted
<1>. SUFFICES ASSUME NEW sales \in [Scores!Lines -> {0} \cup Figures],
                     NEW expenses \in [Scores!Lines -> {0} \cup Figures], NEW valid \in BOOLEAN,
                     NEW values, values = [i \in Scores!Lines |->
                         <<Scores!Percent(Amounts[i] - sales[i], Amounts[i]),
                           Scores!Percent(Amounts[i] - sales[i] - expenses[i], Amounts[i])>>], NEW shown,
                     Scores!Build(valid, Scores!NumericTable("statement",
                         [revenue |-> Amounts, sales |-> sales, expenses |-> expenses], shown, values, <<5, 5>>))
              PROVE  Drafted
  BY DEF Scores!StatementAnalysis, Scores!PERCENT_TOLERANCE
<1>a. PICK given, t : /\ given = [revenue |-> Amounts, sales |-> sales, expenses |-> expenses]
                      /\ t = Scores!NumericTable("statement", given, shown, values, <<5, 5>>)
  OBVIOUS
<1>1. \A i \in Scores!Lines : Amounts[i] \in Nat \ {0} /\ sales[i] \in Int /\ expenses[i] \in Int
  <2>. TAKE i \in Scores!Lines
  <2>1. Amounts[i] \in Nat \ {0} /\ sales[i] \in {0} \cup Figures /\ expenses[i] \in {0} \cup Figures
    BY LinesAre
  <2>. QED
    BY <2>1, FiguresAre
<1>2. \A i \in Scores!Lines, n \in Int :
        /\ Scores!Percent(n, Amounts[i]) \in Int
        /\ \A r \in Int \cup {NoTask} :
              Scores!RightPercent(r, n, Amounts[i]) <=> Scores!Within(r, Scores!Percent(n, Amounts[i]), 5)
  BY <1>1, PercentIsRight
<1>3. /\ t.template = "statement" /\ t.type = "NUMERIC_TABLE" /\ t.values = values /\ t.tolerances = <<5, 5>>
      /\ t.exact => t.table = given
  BY <1>a, TableFields
<1>4. given.revenue = Amounts /\ given.sales = sales /\ given.expenses = expenses
  BY <1>a
<1>5. values \in [Scores!Lines -> [1..2 -> Int]]
  <2>1. \A i \in Scores!Lines : /\ Scores!Percent(Amounts[i] - sales[i], Amounts[i]) \in Int
                               /\ Scores!Percent(Amounts[i] - sales[i] - expenses[i], Amounts[i]) \in Int
    BY <1>1, <1>2
  <2>. QED
    BY <2>1
<1>6. DOMAIN t.tolerances = 1..2 /\ t.tolerances[1] = 5 /\ t.tolerances[2] = 5
  BY <1>3
<1>7. ASSUME t.exact, NEW i \in Scores!Lines, NEW j \in 1..2, NEW r \in Int \cup {NoTask}
      PROVE  Scores!RightCell(t, r, i, j) <=> Scores!Within(r, t.values[i][j], t.tolerances[j])
  <2>1. CASE j = 1
    <3>1. PICK n \in Int : n = Amounts[i] - sales[i]
      BY <1>1
    <3>2. n = Amounts[i] - sales[i] - 0 /\ t.values[i][j] = Scores!Percent(n, Amounts[i]) /\ t.tolerances[j] = 5
      BY <1>1, <1>3, <1>6, <2>1, <3>1
    <3>3. Scores!RightCell(t, r, i, j) <=> Scores!RightPercent(r, n, Amounts[i])
      BY <1>3, <1>4, <1>7, <2>1, <3>2 DEF Scores!RightCell
    <3>. QED
      BY <1>2, <3>2, <3>3
  <2>2. CASE j = 2
    <3>1. PICK n \in Int : n = Amounts[i] - sales[i] - expenses[i]
      BY <1>1
    <3>2. t.values[i][j] = Scores!Percent(n, Amounts[i]) /\ t.tolerances[j] = 5
      BY <1>1, <1>3, <1>6, <2>2, <3>1
    <3>3. Scores!RightCell(t, r, i, j) <=> Scores!RightPercent(r, n, Amounts[i])
      BY <1>3, <1>4, <1>7, <2>2, <3>1 DEF Scores!RightCell
    <3>. QED
      BY <1>2, <3>2, <3>3
  <2>. QED
    BY <2>1, <2>2
<1>8. KeyIsRight(t)
  <2>1. PICK w \in Nat \ {0} : w = 2
    OBVIOUS
  <2>2. /\ DOMAIN t.tolerances = 1..w /\ t.values \in [Scores!Lines -> [1..w -> Int]]
        /\ \A j \in 1..w : t.tolerances[j] \in Nat
    BY <1>3, <1>5, <1>6, <2>1
  <2>3. t.exact => \A i \in Scores!Lines, j \in 1..w, r \in Int \cup {NoTask} :
           Scores!RightCell(t, r, i, j) <=> Scores!Within(r, t.values[i][j], t.tolerances[j])
    BY <1>7, <2>1
  <2>. QED
    BY <1>3, <2>2, <2>3, NumericTableKey, Zenon
<1>. QED
  BY <1>8, <1>a, BuiltIsDrafted

-----------------------------------------------------------------------------
(* The reconciliation.                                                     *)

LEMMA TotalIsInt ==
  ASSUME NEW kinds, NEW ks
  PROVE  Scores!TotalOf(Amounts, kinds, ks) \in Int
<1>. DEFINE f == [i \in {l \in Scores!Lines : kinds[l] \in ks} |-> Amounts[i]]
<1>1. IsFiniteSet(DOMAIN f) /\ \A i \in DOMAIN f : f[i] \in Int
  <2>1. DOMAIN f \subseteq Scores!Lines
    OBVIOUS
  <2>2. \A i \in DOMAIN f : f[i] = Amounts[i] /\ Amounts[i] \in Int
    BY LinesAre
  <2>. QED
    BY <2>1, <2>2, LinesAre, FS_Subset
<1>2. SumFunctionOnSet(f, DOMAIN f) \in Int
  <2>. HIDE DEF f
  <2>. QED
    BY <1>1, SumIsInt
<1>3. Scores!SumFunction(f) \in Int
  BY <1>2, ScoresSums
<1>. QED
  BY <1>3 DEF Scores!TotalOf

(* The balances a bank and a company report when the right one is adjusted and *)
(* the items listed in kinds are still open, and the task built from them.     *)
BankReports(kinds, adjusted) ==
    adjusted - Scores!TotalOf(Amounts, kinds, {"DEPOSIT_IN_TRANSIT"})
             + Scores!TotalOf(Amounts, kinds, {"OUTSTANDING_CHEQUE"})

LedgerReports(kinds, adjusted) ==
    adjusted - Scores!TotalOf(Amounts, kinds, {"BANK_INTEREST", "BANK_COLLECTION"})
             + Scores!TotalOf(Amounts, kinds, {"BANK_CHARGE", "NSF_CHEQUE"})

StatementTask(kinds, given, shown, adjusted) ==
    [template |-> "reconciliation", type |-> "RECONCILIATION",
     table |-> shown, told |-> kinds, exact |-> shown = given,
     sides |-> [i \in Scores!Lines |-> IF kinds[i] \in Scores!BankSideKinds THEN "BANK" ELSE "BOOK"],
     balance |-> adjusted, tolerance |-> 10]

LEMMA ReconciliationKey == Scores!Reconciliation => Drafted
<1>. SUFFICES ASSUME NEW kinds \in [Scores!Lines -> Scores!ItemKinds], NEW adjusted \in Figures,
                     NEW valid \in BOOLEAN, NEW bank, NEW ledger,
                     bank = BankReports(kinds, adjusted), ledger = LedgerReports(kinds, adjusted),
                     NEW given, given = [bank |-> bank, ledger |-> ledger, amounts |-> Amounts], NEW shown,
                     Scores!Build(valid, StatementTask(kinds, given, shown, adjusted))
              PROVE  Drafted
  <2>1. ASSUME NEW kinds \in [Scores!Lines -> Scores!ItemKinds], NEW adjusted \in Figures,
               NEW unique \in BOOLEAN, NEW bank, NEW ledger,
               bank = BankReports(kinds, adjusted), ledger = LedgerReports(kinds, adjusted), NEW shown,
               Scores!Build(unique /\ Scores!ToCents(bank) > 0 /\ Scores!ToCents(ledger) > 0,
                            StatementTask(kinds, [bank |-> bank, ledger |-> ledger, amounts |-> Amounts],
                                          shown, adjusted))
        PROVE  Drafted
    <3>1. (unique /\ Scores!ToCents(bank) > 0 /\ Scores!ToCents(ledger) > 0) \in BOOLEAN
      OBVIOUS
    <3>. QED
      BY <2>1, <3>1
  <2>. QED
    BY <2>1 DEF Scores!Reconciliation, Scores!CENT_TOLERANCE, BankReports, LedgerReports, StatementTask
<1>. DEFINE sides == [i \in Scores!Lines |-> IF kinds[i] \in Scores!BankSideKinds THEN "BANK" ELSE "BOOK"]
            t == StatementTask(kinds, given, shown, adjusted)
<1>1. /\ t.template = "reconciliation" /\ t.type = "RECONCILIATION" /\ t.told = kinds /\ t.sides = sides
      /\ t.balance = adjusted /\ t.tolerance = 10
      /\ t.exact => t.table = given
  BY DEF StatementTask
<1>2. given.bank = bank /\ given.ledger = ledger /\ given.amounts = Amounts
  OBVIOUS
<1>. HIDE DEF t
<1>3. \A r : Scores!RightBalance(given, kinds, r) <=> Scores!Within(r, adjusted, 10)
  <2>1. \A ks : Scores!TotalOf(Amounts, kinds, ks) \in Int
    BY TotalIsInt
  <2>2. adjusted \in Int
    BY FiguresAre
  <2>3. /\ bank + Scores!TotalOf(Amounts, kinds, {"DEPOSIT_IN_TRANSIT"})
             - Scores!TotalOf(Amounts, kinds, {"OUTSTANDING_CHEQUE"}) = adjusted
        /\ ledger + Scores!TotalOf(Amounts, kinds, {"BANK_INTEREST", "BANK_COLLECTION"})
             - Scores!TotalOf(Amounts, kinds, {"BANK_CHARGE", "NSF_CHEQUE"}) = adjusted
    BY <2>1, <2>2 DEF BankReports, LedgerReports
  <2>. QED
    BY <1>2, <2>3 DEF Scores!RightBalance, Scores!CENT_TOLERANCE
<1>4. DOMAIN sides = Scores!Lines /\ Len(sides) = Len(Amounts) /\ Cardinality(Scores!Lines) = Len(Amounts)
  <2>1. Scores!Lines = 1..Len(Amounts) /\ Len(Amounts) \in Nat /\ Len(Amounts) > 1
    BY LinesAre
  <2>2. Cardinality(1..Len(Amounts)) = Len(Amounts)
    BY <2>1, FS_Interval
  <2>. QED
    BY <2>1, <2>2
<1>5. KeyIsRight(t)
  <2>. SUFFICES ASSUME NEW r \in Scores!Responses(t), Scores!GradeObjective(t, r) # NoTask
                PROVE  /\ t.exact => Scores!GradeObjective(t, r).correct = Scores!RightParts(t, r)
                       /\ Scores!GradeObjective(t, r).total \in Nat \ {0}
                       /\ Scores!GradeObjective(t, r).correct \in 0..Scores!GradeObjective(t, r).total
    BY DEF KeyIsRight
  <2>. DEFINE same == {i \in Scores!Lines : r.sides[i] = sides[i]}
              earned == IF r = NoTask THEN 0
                        ELSE Cardinality(same) + (IF Scores!Within(r.balance, adjusted, 10) THEN 1 ELSE 0)
  <2>1. Scores!GradeObjective(t, r) = Scores!Parts(earned, Len(Amounts) + 1)
    BY <1>1, <1>4, ScoresCardinality DEF Scores!GradeObjective, Scores!GradeReconciliation
  <2>2. Cardinality(same) \in 0..Len(Amounts)
    <3>1. same \subseteq Scores!Lines
      OBVIOUS
    <3>. HIDE DEF same
    <3>2. Cardinality(same) \in Nat /\ Cardinality(same) <= Cardinality(Scores!Lines)
      BY <3>1, LinesAre, FS_Subset, FS_CardinalityType
    <3>. QED
      BY <1>4, <3>2, LinesAre
  <2>3. ASSUME t.exact PROVE Scores!RightParts(t, r) = earned
    <3>1. CASE r = NoTask
      BY <3>1 DEF Scores!RightParts
    <3>2. CASE r # NoTask
      <4>1. r \in Scores!ReconciliationResponses(t)
        BY <1>1, <3>2 DEF Scores!Responses
      <4>2. \A i \in Scores!Lines : r.sides[i] \in {"BANK", "BOOK"}
        BY <1>1, <1>4, <4>1 DEF Scores!ReconciliationResponses
      <4>3. {i \in Scores!Lines : (r.sides[i] = "BANK") <=>
                                    kinds[i] \in {"DEPOSIT_IN_TRANSIT", "OUTSTANDING_CHEQUE"}} = same
        BY <4>2 DEF Scores!BankSideKinds
      <4>4. t.table = given
        BY <1>1, <2>3
      <4>. HIDE DEF same
      <4>. QED
        BY <1>1, <1>3, <3>2, <4>3, <4>4, ScoresCardinality DEF Scores!RightParts
    <3>. QED
      BY <3>1, <3>2
  <2>. HIDE DEF same
  <2>4. earned \in 0..Len(Amounts) + 1 /\ Len(Amounts) + 1 \in Nat \ {0}
    BY <2>2, LinesAre
  <2>. HIDE DEF earned
  <2>. QED
    BY <2>1, <2>3, <2>4, PartsOf
<1>. QED
  BY <1>5, BuiltIsDrafted DEF t

-----------------------------------------------------------------------------
(* The templates with nothing to key.                                      *)

LEMMA WrittenKey ==
  ASSUME NEW t, t.type = "WRITTEN"
  PROVE  KeyIsRight(t) /\ \A r : Scores!GradeObjective(t, r) = NoTask
BY DEF KeyIsRight, Scores!GradeObjective

LEMMA RefundPolicyKey == Scores!RefundPolicyReply => Drafted
<1>. SUFFICES ASSUME NEW valid \in BOOLEAN, NEW table, NEW promises, NEW authorised,
                     Scores!Build(valid, Scores!WrittenReply("refund-policy", table, promises, TRUE, authorised))
              PROVE  Drafted
  <2>1. \A a, b \in 0..9 : (a >= b) \in BOOLEAN
    OBVIOUS
  <2>. QED
    BY <2>1 DEF Scores!RefundPolicyReply
<1>1. KeyIsRight(Scores!WrittenReply("refund-policy", table, promises, TRUE, authorised))
  BY WrittenKey DEF Scores!WrittenReply
<1>. QED
  BY <1>1, BuiltIsDrafted

LEMMA DeEscalationKey == Scores!DeEscalationReply => Drafted
<1>. SUFFICES ASSUME NEW table, NEW promises, NEW authorised,
                     Scores!Build(TRUE, Scores!WrittenReply("de-escalation", table, promises, TRUE, authorised))
              PROVE  Drafted
  BY DEF Scores!DeEscalationReply
<1>1. KeyIsRight(Scores!WrittenReply("de-escalation", table, promises, TRUE, authorised))
  BY WrittenKey DEF Scores!WrittenReply
<1>. QED
  BY <1>1, BuiltIsDrafted

LEMMA EscalationHandoffKey == Scores!EscalationHandoff => Drafted
<1>. SUFFICES ASSUME NEW valid \in BOOLEAN, NEW table, NEW promises, NEW authorised,
                     Scores!Build(valid, Scores!WrittenReply("escalation-handoff", table, promises, FALSE, authorised))
              PROVE  Drafted
  BY DEF Scores!EscalationHandoff
<1>1. KeyIsRight(Scores!WrittenReply("escalation-handoff", table, promises, FALSE, authorised))
  BY WrittenKey DEF Scores!WrittenReply
<1>. QED
  BY <1>1, BuiltIsDrafted

LEMMA ImproperRequestKey == Scores!ImproperRequestReply => Drafted
<1>. SUFFICES ASSUME NEW table, NEW promises, NEW authorised,
                     Scores!Build(TRUE, Scores!WrittenReply("improper-request", table, promises, TRUE, authorised))
              PROVE  Drafted
  BY DEF Scores!ImproperRequestReply
<1>1. KeyIsRight(Scores!WrittenReply("improper-request", table, promises, TRUE, authorised))
  BY WrittenKey DEF Scores!WrittenReply
<1>. QED
  BY <1>1, BuiltIsDrafted

-----------------------------------------------------------------------------
(* Ticket triage.                                                          *)

LEMMA CountedFrom ==
  ASSUME NEW s, NEW n \in Nat, DOMAIN s = 1..n
  PROVE  IsFiniteSet(DOMAIN s) /\ Cardinality(DOMAIN s) = n
<1>1. IsFiniteSet(1..n) /\ Cardinality(1..n) = n
  BY FS_Interval
<1>. QED
  BY <1>1

LEMMA LengthOf ==
  ASSUME NEW s, NEW n \in Nat, DOMAIN s = 1..n, s = [i \in DOMAIN s |-> s[i]]
  PROVE  Len(s) = n
OBVIOUS

LEMMA CountOfPart ==
  ASSUME NEW S, IsFiniteSet(S), NEW n \in Nat, Cardinality(S) = n, NEW T, T \subseteq S
  PROVE  Cardinality(T) \in 0..n
<1>1. IsFiniteSet(T) /\ Cardinality(T) <= n
  BY FS_Subset
<1>2. Cardinality(T) \in Nat
  BY <1>1, FS_CardinalityType
<1>. QED
  BY <1>1, <1>2

LEMMA ClassifiedInto ==
  ASSUME NEW t, \A i \in DOMAIN t.mapping : t.mapping[i] \in Scores!Buckets,
         t.mapping = [i \in DOMAIN t.mapping |-> t.mapping[i]],
         NEW r \in Scores!ClassificationResponses(t)
  PROVE  DOMAIN r = DOMAIN t.mapping /\ \A i \in DOMAIN t.mapping : r[i] \in Scores!Buckets
<1>1. PICK i \in DOMAIN t.mapping, b \in Scores!Buckets : r = [t.mapping EXCEPT ![i] = b]
  BY DEF Scores!ClassificationResponses
<1>. QED
  BY <1>1

LEMMA TicketsAre ==
  ASSUME NEW tickets \in Queues
  PROVE  /\ DOMAIN tickets = 1..Len(tickets) /\ Len(tickets) \in Nat \ {0}
         /\ \A i \in DOMAIN tickets : /\ Scores!Priority(tickets[i]) \in Int
                                     /\ tickets[i].specialist \in BOOLEAN
                                     /\ tickets[i].sla \in Int
<1>. DEFINE T == [tier : {"VIP", "STANDARD", "BASIC"}, impact : {"HIGH", "MEDIUM", "LOW"},
                  sla : Int, specialist : BOOLEAN]
<1>1. tickets \in Seq(T) /\ tickets # <<>>
  BY ScoringAssumption
<1>2. /\ DOMAIN tickets = 1..Len(tickets) /\ Len(tickets) \in Nat \ {0}
      /\ \A i \in DOMAIN tickets : tickets[i] \in T
  <2>. HIDE DEF T
  <2>1. Len(tickets) # 0
    BY <1>1, EmptySeq, Zenon
  <2>. QED
    BY <1>1, <2>1
<1>3. ASSUME NEW x \in T PROVE Scores!Priority(x) \in Int
  <2>1. /\ x.tier \in {"VIP", "STANDARD", "BASIC"} /\ x.impact \in {"HIGH", "MEDIUM", "LOW"}
        /\ x.sla \in Int
    OBVIOUS
  <2>2. Scores!TierWeight[x.tier] \in Int
    BY <2>1 DEF Scores!TierWeight
  <2>3. Scores!ImpactWeight[x.impact] \in Int
    BY <2>1 DEF Scores!ImpactWeight
  <2>. QED
    BY <2>1, <2>2, <2>3 DEF Scores!Priority, Scores!URGENCY_WINDOW_HOURS
<1>. QED
  BY <1>2, <1>3

(* Whether a ticket has the strictly highest priority.                     *)
WorkedFirst(tickets, i) ==
  \A j \in DOMAIN tickets \ {i} : Scores!Priority(tickets[i]) > Scores!Priority(tickets[j])

LEMMA RightActionIsKeyed ==
  ASSUME NEW tickets \in Queues, NEW i \in DOMAIN tickets, NEW given \in Scores!Buckets
  PROVE  Scores!RightAction(tickets, i, given) <=>
            given = IF WorkedFirst(tickets, i) THEN "Work first" ELSE Scores!ActionFor(tickets[i])
<1>. DEFINE first == \A j \in DOMAIN tickets \ {i} : Scores!Priority(tickets[j]) < Scores!Priority(tickets[i])
<1>1. first <=> WorkedFirst(tickets, i)
  BY TicketsAre DEF WorkedFirst
<1>2. tickets[i].specialist \in BOOLEAN /\ tickets[i].sla \in Int
  BY TicketsAre
<1>. HIDE DEF first
<1>3. Scores!RightAction(tickets, i, given) <=>
        CASE given = "Work first" -> first
          [] given = "Escalate" -> ~first /\ tickets[i].specialist
          [] given = "Reply now" -> ~first /\ ~tickets[i].specialist /\ tickets[i].sla <= 4
          [] given = "Holding reply" ->
                ~first /\ ~tickets[i].specialist /\ tickets[i].sla > 4 /\ tickets[i].impact # "LOW"
          [] given = "Defer" ->
                ~first /\ ~tickets[i].specialist /\ tickets[i].sla > 4 /\ tickets[i].impact = "LOW"
  BY DEF Scores!RightAction, first, Scores!REPLY_NOW_HOURS
<1>. DEFINE spec == tickets[i].specialist
            soon == tickets[i].sla <= 4
            low == tickets[i].impact = "LOW"
<1>4. first \in BOOLEAN /\ spec \in BOOLEAN /\ soon \in BOOLEAN /\ low \in BOOLEAN
  BY <1>2 DEF first
<1>5. (tickets[i].sla > 4) <=> ~soon
  BY <1>2
<1>6. Scores!ActionFor(tickets[i]) = IF spec THEN "Escalate" ELSE IF soon THEN "Reply now"
                                     ELSE IF ~low THEN "Holding reply" ELSE "Defer"
  BY DEF Scores!ActionFor, Scores!REPLY_NOW_HOURS
<1>7. /\ given = "Work first" => (Scores!RightAction(tickets, i, given) <=> first)
      /\ given = "Escalate" => (Scores!RightAction(tickets, i, given) <=> ~first /\ spec)
      /\ given = "Reply now" => (Scores!RightAction(tickets, i, given) <=> ~first /\ ~spec /\ soon)
      /\ given = "Holding reply" =>
            (Scores!RightAction(tickets, i, given) <=> ~first /\ ~spec /\ ~soon /\ ~low)
      /\ given = "Defer" =>
            (Scores!RightAction(tickets, i, given) <=> ~first /\ ~spec /\ ~soon /\ low)
  BY <1>3, <1>5
<1>. HIDE DEF spec, soon, low
<1>8. given \in {"Work first", "Reply now", "Holding reply", "Escalate", "Defer"}
  BY DEF Scores!Buckets
<1>. QED
  BY <1>1, <1>4, <1>6, <1>7, <1>8

LEMMA TicketTriageKey == Scores!TicketTriage => Drafted
<1>. SUFFICES ASSUME NEW tickets \in Queues, NEW valid \in BOOLEAN, NEW mapping,
                     mapping = [i \in DOMAIN tickets |->
                        IF WorkedFirst(tickets, i) THEN "Work first" ELSE Scores!ActionFor(tickets[i])],
                     Scores!Build(valid, [template |-> "ticket-triage", type |-> "KEYED_CLASSIFICATION",
                                          table |-> [tickets |-> tickets], exact |-> TRUE, mapping |-> mapping])
              PROVE  Drafted
  <2>1. ASSUME NEW tickets \in Queues, NEW unique \in BOOLEAN,
               Scores!Build(unique /\ \E i \in DOMAIN tickets : WorkedFirst(tickets, i),
                  [template |-> "ticket-triage", type |-> "KEYED_CLASSIFICATION",
                   table |-> [tickets |-> tickets], exact |-> TRUE,
                   mapping |-> [i \in DOMAIN tickets |->
                        IF WorkedFirst(tickets, i) THEN "Work first" ELSE Scores!ActionFor(tickets[i])]])
        PROVE  Drafted
    <3>1. (unique /\ \E i \in DOMAIN tickets : WorkedFirst(tickets, i)) \in BOOLEAN
      OBVIOUS
    <3>. QED
      BY <2>1, <3>1
  <2>. QED
    BY <2>1 DEF Scores!TicketTriage, WorkedFirst
<1>. DEFINE seen == [tickets |-> tickets]
            t == [template |-> "ticket-triage", type |-> "KEYED_CLASSIFICATION", table |-> seen,
                  exact |-> TRUE, mapping |-> mapping]
<1>1. /\ t.template = "ticket-triage" /\ t.type = "KEYED_CLASSIFICATION" /\ t.table.tickets = tickets
      /\ t.mapping = mapping
  OBVIOUS
<1>. HIDE DEF t
<1>2. /\ DOMAIN mapping = DOMAIN tickets /\ Len(mapping) = Len(tickets) /\ Len(tickets) \in Nat \ {0}
      /\ IsFiniteSet(DOMAIN tickets) /\ Cardinality(DOMAIN tickets) = Len(tickets)
  <2>1. DOMAIN tickets = 1..Len(tickets) /\ Len(tickets) \in Nat \ {0}
    BY TicketsAre
  <2>2. DOMAIN mapping = DOMAIN tickets
    OBVIOUS
  <2>3. Len(mapping) = Len(tickets)
    <3>1. mapping = [i \in DOMAIN mapping |-> mapping[i]]
      OBVIOUS
    <3>. QED
      BY <2>1, <2>2, <3>1, LengthOf
  <2>4. IsFiniteSet(DOMAIN tickets) /\ Cardinality(DOMAIN tickets) = Len(tickets)
    BY <2>1, CountedFrom
  <2>. QED
    BY <2>1, <2>2, <2>3, <2>4
<1>3. \A i \in DOMAIN tickets : mapping[i] \in Scores!Buckets
  BY DEF Scores!Buckets, Scores!ActionFor
<1>5. mapping = [i \in DOMAIN mapping |-> mapping[i]]
  OBVIOUS
<1>4. KeyIsRight(t)
  <2>. SUFFICES ASSUME NEW r \in Scores!Responses(t), Scores!GradeObjective(t, r) # NoTask
                PROVE  /\ t.exact => Scores!GradeObjective(t, r).correct = Scores!RightParts(t, r)
                       /\ Scores!GradeObjective(t, r).total \in Nat \ {0}
                       /\ Scores!GradeObjective(t, r).correct \in 0..Scores!GradeObjective(t, r).total
    BY DEF KeyIsRight
  <2>. DEFINE same == {i \in DOMAIN tickets : r # NoTask /\ r[i] = mapping[i]}
  <2>1. Scores!GradeObjective(t, r) = Scores!Parts(Cardinality(same), Len(tickets))
    BY <1>1, <1>2, ScoresCardinality DEF Scores!GradeObjective, Scores!GradeKeyedClassification
  <2>2. Cardinality(same) \in 0..Len(tickets)
    <3>1. same \subseteq DOMAIN tickets
      OBVIOUS
    <3>. HIDE DEF same
    <3>. QED
      BY <1>2, <3>1, CountOfPart
  <2>3. Scores!RightParts(t, r) = Cardinality(same)
    <3>1. CASE r = NoTask
      <4>1. same = {}
        BY <3>1
      <4>. QED
        BY <3>1, <4>1, FS_EmptySet DEF Scores!RightParts
    <3>2. CASE r # NoTask
      <4>1. r \in Scores!ClassificationResponses(t)
        BY <1>1, <3>2 DEF Scores!Responses
      <4>2. DOMAIN r = DOMAIN tickets /\ \A i \in DOMAIN tickets : r[i] \in Scores!Buckets
        <5>1. /\ \A i \in DOMAIN t.mapping : t.mapping[i] \in Scores!Buckets
              /\ t.mapping = [i \in DOMAIN t.mapping |-> t.mapping[i]]
          BY <1>1, <1>2, <1>3, <1>5
        <5>2. DOMAIN r = DOMAIN t.mapping /\ \A i \in DOMAIN t.mapping : r[i] \in Scores!Buckets
          BY <4>1, <5>1, ClassifiedInto
        <5>. QED
          BY <1>1, <1>2, <5>2
      <4>3. \A i \in DOMAIN tickets : Scores!RightAction(tickets, i, r[i]) <=> r[i] = mapping[i]
        BY <4>2, RightActionIsKeyed
      <4>4. {i \in DOMAIN r : Scores!RightAction(tickets, i, r[i])} = same
        BY <3>2, <4>2, <4>3
      <4>. HIDE DEF same
      <4>. QED
        BY <1>1, <3>2, <4>4, ScoresCardinality DEF Scores!RightParts
    <3>. QED
      BY <3>1, <3>2
  <2>. HIDE DEF same
  <2>4. PICK n \in Nat \ {0} : n = Len(tickets)
    BY <1>2
  <2>5. PICK c \in 0..n : c = Cardinality(same)
    BY <2>2, <2>4
  <2>6. Scores!GradeObjective(t, r) = Scores!Parts(c, n)
    BY <2>1, <2>4, <2>5
  <2>7. Scores!Parts(c, n).correct = c /\ Scores!Parts(c, n).total = n
    BY PartsOf
  <2>8. Scores!GradeObjective(t, r).correct = c /\ Scores!GradeObjective(t, r).total = n
    BY <2>6, <2>7
  <2>9. Scores!RightParts(t, r) = c
    BY <2>3, <2>5
  <2>. QED
    BY <2>8, <2>9
<1>. QED
  BY <1>4, BuiltIsDrafted DEF t

-----------------------------------------------------------------------------
(* Diagnostic questions.                                                   *)

LEMMA AnswersAre ==
  ASSUME NEW answers \in Interviews
  PROVE  /\ 1 \in DOMAIN answers /\ DOMAIN answers \subseteq Nat
         /\ Len(answers[1]) \in Nat /\ DOMAIN answers[1] = 1..Len(answers[1])
         /\ \A q \in DOMAIN answers : Len(answers[q]) = Len(answers[1]) /\ DOMAIN answers[q] = DOMAIN answers[1]
<1>1. answers \in Seq(Seq(STRING)) /\ answers # <<>>
      /\ \A q \in DOMAIN answers : Len(answers[q]) = Len(answers[1])
  BY ScoringAssumption
<1>2. Len(answers) # 0
  BY <1>1, EmptySeq, Zenon
<1>3. \A q \in DOMAIN answers : answers[q] \in Seq(STRING)
  BY <1>1
<1>4. DOMAIN answers = 1..Len(answers) /\ Len(answers) \in Nat \ {0}
  BY <1>1, <1>2
<1>5. \A q \in DOMAIN answers : Len(answers[q]) \in Nat /\ DOMAIN answers[q] = 1..Len(answers[q])
  BY <1>3
<1>. QED
  BY <1>1, <1>4, <1>5

(* The pairs of answers the causes give to two questions.                  *)
PairsOf(a, b, n) == {<<a[c], b[c]>> : c \in 1..n}
AllDiffer(a, b, n) == \A c, e \in 1..n : c # e => a[c] # a[e] \/ b[c] # b[e]

(* The distinct pairs of answers are as many as the causes when no two     *)
(* causes give the same pair.                                              *)
LEMMA DistinctPairs ==
  ASSUME NEW n \in Nat, NEW a, NEW b
  PROVE  Cardinality(PairsOf(a, b, n)) = n <=> AllDiffer(a, b, n)
<1>. DEFINE seen == {<<a[c], b[c]>> : c \in 1..n}
            f == [c \in 1..n |-> <<a[c], b[c]>>]
<1>1. f \in Surjection(1..n, seen)
  BY DEF Surjection
<1>2. IsFiniteSet(1..n) /\ Cardinality(1..n) = n
  BY FS_Interval
<1>3. f \in Injection(1..n, seen) <=> \A c, e \in 1..n : c # e => a[c] # a[e] \/ b[c] # b[e]
  BY DEF Injection, IsInjective
<1>. HIDE DEF f, seen
<1>4. Cardinality(seen) = Cardinality(1..n) <=> f \in Injection(1..n, seen)
  BY <1>1, <1>2, FS_Surjection
<1>5. Cardinality(seen) = n <=> \A c, e \in 1..n : c # e => a[c] # a[e] \/ b[c] # b[e]
  BY <1>2, <1>3, <1>4
<1>. QED
  BY <1>5 DEF seen, PairsOf, AllDiffer

LEMMA SeparatingIsTellingApart ==
  ASSUME NEW answers \in Interviews, NEW p \in DOMAIN answers, NEW q \in DOMAIN answers, p < q
  PROVE  <<p, q>> \in Scores!SeparatingPairs(answers) <=> Scores!TellsApart(answers, <<p, q>>)
<1>. DEFINE causes == DOMAIN answers[1]
            apart == \A c, e \in causes : c # e => answers[p][c] # answers[p][e] \/ answers[q][c] # answers[q][e]
            useful(x) == \E c, e \in causes : answers[x][c] # answers[x][e]
            seen == {<<answers[p][c], answers[q][c]>> : c \in causes}
<1>1. PICK n \in Nat : n = Len(answers[1]) /\ causes = 1..n
  BY AnswersAre
<1>2. DOMAIN answers[p] = causes /\ DOMAIN answers[q] = causes /\ Len(answers[p]) = n
  BY <1>1, AnswersAre
<1>3. Cardinality(seen) = n <=> apart
  <2>1. Cardinality(PairsOf(answers[p], answers[q], n)) = n <=> AllDiffer(answers[p], answers[q], n)
    BY DistinctPairs
  <2>2. seen = PairsOf(answers[p], answers[q], n)
    BY <1>1 DEF PairsOf
  <2>3. apart <=> AllDiffer(answers[p], answers[q], n)
    BY <1>1 DEF AllDiffer
  <2>. HIDE DEF seen, apart
  <2>. QED
    BY <2>1, <2>2, <2>3
<1>4. <<p, q>> \in Scores!SeparatingPairs(answers) <=>
        useful(p) /\ useful(q) /\ Cardinality(seen) = n
  <2>1. PICK pair : pair = <<p, q>>
    OBVIOUS
  <2>2. pair[1] = p /\ pair[2] = q /\ pair \in (DOMAIN answers) \X (DOMAIN answers)
    BY <2>1
  <2>3. pair \in Scores!SeparatingPairs(answers) <=>
          /\ \E c, e \in DOMAIN answers[p] : answers[p][c] # answers[p][e]
          /\ \E c, e \in DOMAIN answers[q] : answers[q][c] # answers[q][e]
          /\ Scores!Cardinality({<<answers[p][c], answers[q][c]>> : c \in DOMAIN answers[p]}) = Len(answers[p])
    <3>1. pair \in Scores!SeparatingPairs(answers) <=>
            /\ pair[1] < pair[2]
            /\ \E c, e \in DOMAIN answers[pair[1]] : answers[pair[1]][c] # answers[pair[1]][e]
            /\ \E c, e \in DOMAIN answers[pair[2]] : answers[pair[2]][c] # answers[pair[2]][e]
            /\ Scores!Cardinality({<<answers[pair[1]][c], answers[pair[2]][c]>> : c \in DOMAIN answers[pair[1]]})
                 = Len(answers[pair[1]])
      BY <2>2, Zenon DEF Scores!SeparatingPairs
    <3>. QED
      BY <2>2, <3>1
  <2>4. seen = {<<answers[p][c], answers[q][c]>> : c \in DOMAIN answers[p]}
    BY <1>2
  <2>5. useful(p) <=> \E c, e \in DOMAIN answers[p] : answers[p][c] # answers[p][e]
    BY <1>2
  <2>6. useful(q) <=> \E c, e \in DOMAIN answers[q] : answers[q][c] # answers[q][e]
    BY <1>2
  <2>. HIDE DEF seen, useful
  <2>. QED
    BY <1>2, <2>1, <2>3, <2>4, <2>5, <2>6, ScoresCardinality
<1>5. Scores!TellsApart(answers, <<p, q>>) <=> apart /\ useful(p) /\ useful(q)
  <2>1. 1 \in 1..2 /\ 2 \in 1..2 /\ \A k \in 1..2 : k = 1 \/ k = 2
    OBVIOUS
  <2>2. <<p, q>>[1] = p /\ <<p, q>>[2] = q
    OBVIOUS
  <2>3. ASSUME Scores!TellsApart(answers, <<p, q>>) PROVE apart /\ useful(p) /\ useful(q)
    BY <2>1, <2>2, <2>3 DEF Scores!TellsApart
  <2>4. ASSUME apart, useful(p), useful(q) PROVE Scores!TellsApart(answers, <<p, q>>)
    BY <2>1, <2>2, <2>4 DEF Scores!TellsApart
  <2>. QED
    BY <2>3, <2>4
<1>. QED
  BY <1>3, <1>4, <1>5

LEMMA TwoElements ==
  ASSUME NEW x, NEW y, x # y
  PROVE  IsFiniteSet({x, y}) /\ Cardinality({x, y}) = 2
<1>1. IsFiniteSet({x}) /\ Cardinality({x}) = 1
  BY FS_Singleton
<1>2. IsFiniteSet({x} \cup {y}) /\ Cardinality({x} \cup {y}) = 2
  BY <1>1, FS_AddElement
<1>3. {x} \cup {y} = {x, y}
  OBVIOUS
<1>. QED
  BY <1>2, <1>3

LEMMA DiagnosticQuestionsKey == Scores!DiagnosticQuestions => Drafted
<1>. SUFFICES ASSUME NEW answers \in Interviews, NEW valid \in BOOLEAN, NEW correct,
                     valid => \E p, q \in DOMAIN answers :
                        /\ p < q /\ correct = {p, q}
                        /\ \A x, y \in DOMAIN answers :
                              x < y => (Scores!TellsApart(answers, <<x, y>>) <=> x = p /\ y = q),
                     Scores!Build(valid,
                        [template |-> "diagnostic-questions", type |-> "MULTI_SELECT_UNDER_CONSTRAINT",
                         table |-> [questions |-> DOMAIN answers], told |-> answers, exact |-> TRUE, correct |-> correct])
              PROVE  Drafted
  <2>1. ASSUME NEW answers \in Interviews, NEW unique \in BOOLEAN, NEW pairs, NEW pair, NEW correct,
               pairs = Scores!SeparatingPairs(answers), pair = CHOOSE p \in pairs : TRUE,
               correct = IF pairs = {} THEN {} ELSE {pair[1], pair[2]},
               Scores!Build(unique /\ Cardinality(pairs) = 1,
                        [template |-> "diagnostic-questions", type |-> "MULTI_SELECT_UNDER_CONSTRAINT",
                         table |-> [questions |-> DOMAIN answers], told |-> answers, exact |-> TRUE, correct |-> correct])
        PROVE  Drafted
    <3>1. PICK valid \in BOOLEAN : valid = (unique /\ Cardinality(pairs) = 1)
      OBVIOUS
    <3>2. ASSUME Cardinality(pairs) = 1
          PROVE  \E p, q \in DOMAIN answers :
                        /\ p < q /\ correct = {p, q}
                        /\ \A x, y \in DOMAIN answers :
                              x < y => (Scores!TellsApart(answers, <<x, y>>) <=> x = p /\ y = q)
      <4>1. IsFiniteSet(pairs)
        <5>1. answers \in Seq(Seq(STRING))
          BY ScoringAssumption
        <5>2. IsFiniteSet(DOMAIN answers)
          BY <5>1, FS_Interval
        <5>3. IsFiniteSet((DOMAIN answers) \X (DOMAIN answers))
          BY <5>2, FS_Product
        <5>4. pairs \subseteq (DOMAIN answers) \X (DOMAIN answers)
          BY <2>1 DEF Scores!SeparatingPairs
        <5>. QED
          BY <5>3, <5>4, FS_Subset
      <4>2. PICK u : pairs = {u}
        BY <3>2, <4>1, FS_Singleton
      <4>3. pair = u
        BY <2>1, <4>2
      <4>4. u \in (DOMAIN answers) \X (DOMAIN answers) /\ u[1] < u[2]
        BY <2>1, <4>2 DEF Scores!SeparatingPairs
      <4>5. PICK p \in DOMAIN answers, q \in DOMAIN answers : u = <<p, q>> /\ p < q
        BY <4>4
      <4>6. correct = {p, q}
        BY <2>1, <4>2, <4>3, <4>5
      <4>7. ASSUME NEW x \in DOMAIN answers, NEW y \in DOMAIN answers, x < y
            PROVE  Scores!TellsApart(answers, <<x, y>>) <=> x = p /\ y = q
        <5>1. Scores!TellsApart(answers, <<x, y>>) <=> <<x, y>> \in pairs
          BY <2>1, <4>7, SeparatingIsTellingApart
        <5>. QED
          BY <4>2, <4>5, <5>1
      <4>. QED
        BY <4>5, <4>6, <4>7
    <3>3. Scores!Build(valid,
            [template |-> "diagnostic-questions", type |-> "MULTI_SELECT_UNDER_CONSTRAINT",
             table |-> [questions |-> DOMAIN answers], told |-> answers, exact |-> TRUE, correct |-> correct])
      BY <2>1, <3>1, Zenon
    <3>4. valid => \E p, q \in DOMAIN answers :
                        /\ p < q /\ correct = {p, q}
                        /\ \A x, y \in DOMAIN answers :
                              x < y => (Scores!TellsApart(answers, <<x, y>>) <=> x = p /\ y = q)
      BY <3>1, <3>2, Zenon
    <3>. QED
      BY <3>3, <3>4, Zenon
  <2>2. SUFFICES ASSUME Scores!DiagnosticQuestions PROVE Drafted
    OBVIOUS
  <2>3. PICK answers \in Interviews, unique \in BOOLEAN :
          Scores!Build(unique /\ Scores!Cardinality(Scores!SeparatingPairs(answers)) = 1,
            [template |-> "diagnostic-questions", type |-> "MULTI_SELECT_UNDER_CONSTRAINT",
             table |-> [questions |-> DOMAIN answers], told |-> answers, exact |-> TRUE,
             correct |-> IF Scores!SeparatingPairs(answers) = {} THEN {}
                         ELSE {(CHOOSE p \in Scores!SeparatingPairs(answers) : TRUE)[1],
                               (CHOOSE p \in Scores!SeparatingPairs(answers) : TRUE)[2]}])
    BY <2>2, Zenon DEF Scores!DiagnosticQuestions
  <2>4. PICK pairs : pairs = Scores!SeparatingPairs(answers)
    OBVIOUS
  <2>5. PICK pair : pair = CHOOSE p \in pairs : TRUE
    OBVIOUS
  <2>6. PICK correct : correct = IF pairs = {} THEN {} ELSE {pair[1], pair[2]}
    OBVIOUS
  <2>7. Scores!Cardinality(pairs) = Cardinality(pairs)
    BY ScoresCardinality
  <2>8. Scores!Build(unique /\ Cardinality(pairs) = 1,
          [template |-> "diagnostic-questions", type |-> "MULTI_SELECT_UNDER_CONSTRAINT",
           table |-> [questions |-> DOMAIN answers], told |-> answers, exact |-> TRUE, correct |-> correct])
    BY <2>3, <2>4, <2>5, <2>6, <2>7, Zenon
  <2>. QED
    BY <2>1, <2>4, <2>5, <2>6, <2>8
<1>. DEFINE t == [template |-> "diagnostic-questions", type |-> "MULTI_SELECT_UNDER_CONSTRAINT",
                  table |-> [questions |-> DOMAIN answers], told |-> answers, exact |-> TRUE,
                  correct |-> correct]
<1>1. /\ t.template = "diagnostic-questions" /\ t.type = "MULTI_SELECT_UNDER_CONSTRAINT"
      /\ t.table.questions = DOMAIN answers /\ t.told = answers /\ t.correct = correct
  OBVIOUS
<1>. HIDE DEF t
<1>2. ASSUME valid PROVE KeyIsRight(t)
  <2>. SUFFICES ASSUME NEW r \in Scores!Responses(t), Scores!GradeObjective(t, r) # NoTask
                PROVE  /\ t.exact => Scores!GradeObjective(t, r).correct = Scores!RightParts(t, r)
                       /\ Scores!GradeObjective(t, r).total \in Nat \ {0}
                       /\ Scores!GradeObjective(t, r).correct \in 0..Scores!GradeObjective(t, r).total
    BY DEF KeyIsRight
  <2>1. PICK p \in DOMAIN answers, q \in DOMAIN answers :
           /\ p < q /\ correct = {p, q}
           /\ \A x, y \in DOMAIN answers :
                 x < y => (Scores!TellsApart(answers, <<x, y>>) <=> x = p /\ y = q)
    BY <1>2
  <2>2. p \in Nat /\ q \in Nat
    BY AnswersAre
  <2>3. Cardinality(correct) = 2
    <3>1. p # q /\ correct = {p, q}
      BY <2>1, <2>2
    <3>2. Cardinality({p, q}) = 2
      BY <3>1, TwoElements
    <3>. QED
      BY <3>1, <3>2
  <2>. DEFINE hits == IF r = NoTask THEN 0 ELSE Cardinality({i \in DOMAIN r : r[i] \in correct})
              wrong == IF r = NoTask THEN 0 ELSE Len(r) - hits
              earned == IF hits > wrong THEN hits - wrong ELSE 0
  <2>4. Scores!GradeObjective(t, r) = Scores!Parts(earned, 2)
    BY <1>1, <2>3, ScoresCardinality DEF Scores!GradeObjective, Scores!GradeMultiSelect
  <2>5. earned \in 0..2 /\ Scores!RightParts(t, r) = earned
    <3>1. CASE r = NoTask
      BY <3>1 DEF Scores!RightParts
    <3>2. CASE r # NoTask
      <4>1. r \in Scores!MultiSelectResponses(t)
        BY <1>1, <3>2 DEF Scores!Responses
      <4>2. PICK x \in DOMAIN answers, y \in DOMAIN answers : r = <<x, y>> /\ x < y
        BY <1>1, <4>1 DEF Scores!MultiSelectResponses
      <4>3. DOMAIN r = {1, 2} /\ Len(r) = 2 /\ r[1] = x /\ r[2] = y /\ x \in Nat /\ y \in Nat
        BY <4>2, AnswersAre
      <4>. DEFINE hit == {i \in DOMAIN r : r[i] \in correct}
      <4>4. hit = {i \in {1, 2} : r[i] \in correct}
        BY <4>3
      <4>5. IsFiniteSet({1, 2}) /\ Cardinality({1, 2}) = 2
        <5>1. {1, 2} = 1..2
          OBVIOUS
        <5>2. DOMAIN r = 1..2
          BY <4>3
        <5>3. IsFiniteSet(DOMAIN r) /\ Cardinality(DOMAIN r) = 2
          BY <5>2, CountedFrom
        <5>. QED
          BY <5>1, <5>2, <5>3
      <4>6. Cardinality(hit) \in 0..2 /\ (Cardinality(hit) = 2 <=> hit = {1, 2})
        <5>. HIDE DEF hit
        <5>1. hit \subseteq {1, 2}
          BY <4>4
        <5>2. Cardinality(hit) \in 0..2
          BY <4>5, <5>1, CountOfPart
        <5>. QED
          BY <4>5, <5>1, <5>2, FS_Subset
      <4>7. hit = {1, 2} <=> x \in {p, q} /\ y \in {p, q}
        BY <2>1, <4>3, <4>4
      <4>8. (x \in {p, q} /\ y \in {p, q}) <=> (x = p /\ y = q)
        BY <2>1, <2>2, <4>2, <4>3
      <4>9. Scores!TellsApart(answers, r) <=> x = p /\ y = q
        BY <2>1, <4>2
      <4>. HIDE DEF hit
      <4>10. hits = Cardinality(hit)
        BY <3>2 DEF hit
      <4>11. Scores!RightParts(t, r) = IF Scores!TellsApart(answers, r) THEN 2 ELSE 0
        BY <1>1, <3>2 DEF Scores!RightParts
      <4>12. wrong = 2 - Cardinality(hit)
        BY <3>2, <4>3, <4>10
      <4>. HIDE DEF hits, wrong
      <4>. QED
        BY <4>6, <4>7, <4>8, <4>9, <4>10, <4>11, <4>12
    <3>. QED
      BY <3>1, <3>2
  <2>. HIDE DEF earned
  <2>6. Scores!Parts(earned, 2).correct = earned /\ Scores!Parts(earned, 2).total = 2
    BY PartsOf
  <2>. QED
    BY <2>4, <2>5, <2>6
<1>. QED
  BY <1>2, BuiltIsDrafted DEF t

-----------------------------------------------------------------------------
(* Journal entries.                                                        *)

(* A sequence with the first match taken out.                              *)
WithoutFirst(lines, key, tolerance) ==
  Scores!RemoveAt(lines, Scores!SelectInSeq(lines, LAMBDA line : Scores!SameLine(line, key, tolerance)))

LEMMA TakenFromOne ==
  ASSUME NEW lines, NEW key, NEW tolerance
  PROVE  Scores!TakeLine({lines}, key, tolerance) =
           IF \E i \in DOMAIN lines : Scores!SameLine(lines[i], key, tolerance)
           THEN {WithoutFirst(lines, key, tolerance)} ELSE {}
<1>. DEFINE matched(l) == \E i \in DOMAIN l : Scores!SameLine(l[i], key, tolerance)
<1>1. Scores!TakeLine({lines}, key, tolerance) = {WithoutFirst(l, key, tolerance) : l \in {x \in {lines} : matched(x)}}
  BY DEF Scores!TakeLine, WithoutFirst
<1>2. {x \in {lines} : matched(x)} = IF matched(lines) THEN {lines} ELSE {}
  OBVIOUS
<1>. HIDE DEF matched
<1>3. Scores!TakeLine({lines}, key, tolerance) = IF matched(lines) THEN {WithoutFirst(lines, key, tolerance)} ELSE {}
  BY <1>1, <1>2
<1>. QED
  BY <1>3 DEF matched

(* The two lines of a key are taken one after the other.                   *)
LEMMA LeftOverOfTwo ==
  ASSUME NEW key, Len(key) = 2, NEW lines, NEW tolerance
  PROVE  Scores!LeftOver(key, lines, tolerance) =
           Scores!TakeLine(Scores!TakeLine({lines}, key[1], tolerance), key[2], tolerance)
<1>. DEFINE one == Scores!TakeLine({lines}, key[1], tolerance)
            two == Scores!TakeLine(one, key[2], tolerance)
            Is(f) == f = [i \in 0..2 |-> IF i = 0 THEN {lines} ELSE Scores!TakeLine(f[i - 1], key[i], tolerance)]
            g == [i \in 0..2 |-> IF i = 0 THEN {lines} ELSE IF i = 1 THEN one ELSE two]
            left == CHOOSE f : Is(f)
<1>1. Scores!LeftOver(key, lines, tolerance) = left[2]
  BY DEF Scores!LeftOver
<1>2. Is(g)
  <2>1. g[0] = {lines} /\ g[1] = one /\ g[2] = two
    BY DEF g
  <2>2. \A i \in 0..2 : g[i] = IF i = 0 THEN {lines} ELSE Scores!TakeLine(g[i - 1], key[i], tolerance)
    <3>. TAKE i \in 0..2
    <3>1. i = 0 \/ (i = 1 /\ i - 1 = 0) \/ (i = 2 /\ i - 1 = 1)
      OBVIOUS
    <3>. HIDE DEF g
    <3>. QED
      BY <2>1, <3>1
  <2>3. g = [i \in 0..2 |-> g[i]]
    OBVIOUS
  <2>. HIDE DEF g, one, two
  <2>. QED
    BY <2>2, <2>3
<1>3. Is(left)
  <2>. HIDE DEF g, Is
  <2>. QED
    BY <1>2
<1>. HIDE DEF left, g
<1>4. left[0] = {lines} /\ left[1] = Scores!TakeLine(left[0], key[1], tolerance)
      /\ left[2] = Scores!TakeLine(left[1], key[2], tolerance)
  BY <1>3
<1>. QED
  BY <1>1, <1>4

LEMMA OnlyTheOther ==
  ASSUME NEW S, NEW lines \in Seq(S), NEW n \in Nat, n = 2, Len(lines) = n, NEW k \in 1..n, NEW o \in 1..n, o # k
  PROVE  SubSeq(lines, 1, k - 1) \o SubSeq(lines, k + 1, n) = <<lines[o]>>
<1>. DEFINE front == SubSeq(lines, 1, k - 1)
            back == SubSeq(lines, k + 1, n)
            whole == front \o back
<1>1. \A i \in 1..n : lines[i] \in S
  OBVIOUS
<1>2. PICK b \in Int, f \in Int, one \in Int : b = k - 1 /\ f = k + 1 /\ one = 1
  OBVIOUS
<1>3. front \in Seq(S) /\ Len(front) = k - 1 /\ \A i \in 1..k - 1 : front[i] = lines[i]
  <2>1. \A i \in one..b : lines[i] \in S
    BY <1>1, <1>2
  <2>2. /\ SubSeq(lines, one, b) \in Seq(S)
        /\ Len(SubSeq(lines, one, b)) = IF one <= b THEN b - one + 1 ELSE 0
        /\ \A i \in 1..b - one + 1 : SubSeq(lines, one, b)[i] = lines[one + i - 1]
    BY <2>1, SubSeqProperties
  <2>. QED
    BY <1>2, <2>2
<1>4. back \in Seq(S) /\ Len(back) = n - k /\ \A i \in 1..n - k : back[i] = lines[k + i]
  <2>1. \A i \in f..n : lines[i] \in S
    BY <1>1, <1>2
  <2>2. /\ SubSeq(lines, f, n) \in Seq(S)
        /\ Len(SubSeq(lines, f, n)) = IF f <= n THEN n - f + 1 ELSE 0
        /\ \A i \in 1..n - f + 1 : SubSeq(lines, f, n)[i] = lines[f + i - 1]
    BY <2>1, SubSeqProperties
  <2>. QED
    BY <1>2, <2>2
<1>. HIDE DEF front, back
<1>5. /\ whole \in Seq(S) /\ Len(whole) = Len(front) + Len(back)
      /\ \A i \in 1..Len(front) + Len(back) :
            whole[i] = IF i <= Len(front) THEN front[i] ELSE back[i - Len(front)]
  BY <1>3, <1>4, ConcatProperties
<1>. HIDE DEF whole
<1>6. Len(whole) = 1 /\ whole[1] = lines[o]
  <2>1. Len(whole) = 1
    BY <1>3, <1>4, <1>5
  <2>2. CASE k = 1
    BY <1>3, <1>4, <1>5, <2>1, <2>2
  <2>3. CASE k = 2
    BY <1>3, <1>4, <1>5, <2>1, <2>3
  <2>. QED
    BY <2>1, <2>2, <2>3
<1>7. whole = <<lines[o]>>
  <2>1. PICK other : other = <<lines[o]>>
    OBVIOUS
  <2>2. lines[o] \in S
    BY <1>1
  <2>3. other \in Seq(S) /\ Len(other) = 1 /\ other[1] = lines[o]
    BY <2>1, <2>2
  <2>4. \A i \in 1..Len(whole) : whole[i] = other[i]
    BY <1>6, <2>3
  <2>5. Len(whole) = Len(other)
    BY <1>6, <2>3
  <2>6. whole = other
    BY <1>5, <2>3, <2>4, <2>5, SeqEqual
  <2>. QED
    BY <2>1, <2>6
<1>. QED
  BY <1>7 DEF whole, front, back

LEMMA FirstOfTwo ==
  ASSUME NEW S, NEW lines \in Seq(S), Len(lines) = 2, NEW key, NEW tolerance,
         NEW k \in 1..2, NEW o \in 1..2, o # k,
         Scores!SameLine(lines[k], key, tolerance), k = 1 \/ ~ Scores!SameLine(lines[o], key, tolerance)
  PROVE  WithoutFirst(lines, key, tolerance) = <<lines[o]>>
<1>. DEFINE I == {i \in 1..Len(lines) : Scores!SameLine(lines[i], key, tolerance)}
            first == CHOOSE x \in I : \A y \in I : x <= y
<1>1. k \in I /\ \A y \in I : y \in Nat /\ k <= y
  OBVIOUS
<1>. HIDE DEF I
<1>2. first = k
  <2>1. first \in I /\ \A y \in I : first <= y
    BY <1>1
  <2>. HIDE DEF first
  <2>. QED
    BY <1>1, <2>1
<1>3. Scores!SelectInSeq(lines, LAMBDA line : Scores!SameLine(line, key, tolerance)) = k
  <2>1. Scores!SelectInSeq(lines, LAMBDA line : Scores!SameLine(line, key, tolerance)) =
          IF I # {} THEN first ELSE 0
    BY DEF Scores!SelectInSeq, Scores!Min, I
  <2>. QED
    BY <1>1, <1>2, <2>1
<1>4. WithoutFirst(lines, key, tolerance) = SubSeq(lines, 1, k - 1) \o SubSeq(lines, k + 1, 2)
  BY <1>3 DEF WithoutFirst, Scores!RemoveAt
<1>5. PICK n \in Nat : n = 2
  OBVIOUS
<1>6. SubSeq(lines, 1, k - 1) \o SubSeq(lines, k + 1, n) = <<lines[o]>>
  BY <1>5, OnlyTheOther
<1>. QED
  BY <1>4, <1>5, <1>6

(* The two lines of a key are among those given, each once, and no other.  *)
PairedUp(lines, key, tolerance) ==
  /\ Len(lines) = 2
  /\ \E k, o \in 1..2 : /\ o # k /\ Scores!SameLine(lines[k], key[1], tolerance)
                        /\ Scores!SameLine(lines[o], key[2], tolerance)

LEMMA MatchesIsPairing ==
  ASSUME NEW S, NEW lines \in Seq(S), NEW key, Len(key) = 2, key[1].side # key[2].side, NEW tolerance
  PROVE  Scores!EntryMatches(key, lines, tolerance) <=> PairedUp(lines, key, tolerance)
<1>. DEFINE Same(line, n) == Scores!SameLine(line, key[n], tolerance)
<1>1. \A line : ~ (Same(line, 1) /\ Same(line, 2))
  BY DEF Scores!SameLine
<1>2. CASE Len(lines) # 2
  BY <1>2 DEF Scores!EntryMatches, PairedUp
<1>3. CASE Len(lines) = 2
  <2>. DEFINE left == Scores!TakeLine({lines}, key[1], tolerance)
  <2>1. Scores!EntryMatches(key, lines, tolerance) <=> Scores!TakeLine(left, key[2], tolerance) # {}
    BY <1>3, LeftOverOfTwo DEF Scores!EntryMatches
  <2>2. PairedUp(lines, key, tolerance) <=> \E k, o \in 1..2 : o # k /\ Same(lines[k], 1) /\ Same(lines[o], 2)
    BY <1>3 DEF PairedUp
  <2>3. DOMAIN lines = 1..2
    BY <1>3
  <2>4. CASE \A i \in 1..2 : ~ Same(lines[i], 1)
    <3>1. left = {}
      BY <2>3, <2>4, TakenFromOne
    <3>2. Scores!TakeLine({}, key[2], tolerance) = {}
      BY DEF Scores!TakeLine
    <3>. QED
      BY <2>1, <2>2, <2>4, <3>1, <3>2
  <2>5. CASE \E i \in 1..2 : Same(lines[i], 1)
    <3>1. PICK k \in 1..2, o \in 1..2 : o # k /\ Same(lines[k], 1) /\ (k = 1 \/ ~ Same(lines[o], 1))
      <4>1. 1 \in 1..2 /\ 2 \in 1..2 /\ \A i \in 1..2 : i = 1 \/ i = 2
        OBVIOUS
      <4>. QED
        BY <2>5, <4>1
    <3>2. WithoutFirst(lines, key[1], tolerance) = <<lines[o]>>
      BY <1>3, <3>1, FirstOfTwo
    <3>3. left = {<<lines[o]>>}
      BY <2>3, <2>5, <3>2, TakenFromOne
    <3>4. PICK rest : rest = <<lines[o]>>
      OBVIOUS
    <3>5. DOMAIN rest = {1} /\ rest[1] = lines[o]
      BY <3>4
    <3>6. Scores!TakeLine({rest}, key[2], tolerance) # {} <=> Same(lines[o], 2)
      BY <3>5, TakenFromOne
    <3>7. PairedUp(lines, key, tolerance) <=> Same(lines[o], 2)
      <4>. HIDE DEF Same
      <4>1. ASSUME NEW a \in 1..2, NEW b \in 1..2, b # a, Same(lines[a], 1), Same(lines[b], 2)
            PROVE  Same(lines[o], 2)
        <5>1. a = k \/ b = k
          BY <3>1, <4>1
        <5>2. b # k
          BY <1>1, <3>1, <4>1
        <5>3. b = o
          BY <3>1, <4>1, <5>2
        <5>. QED
          BY <4>1, <5>3
      <4>. QED
        BY <2>2, <3>1, <4>1
    <3>. QED
      BY <2>1, <3>3, <3>4, <3>6, <3>7
  <2>. QED
    BY <2>4, <2>5
<1>. QED
  BY <1>2, <1>3

LEMMA RightEntryIsPairing ==
  ASSUME NEW S, NEW lines \in Seq(S), NEW t, NEW i, NEW account,
         t.table.amounts = Amounts,
         account = IF t.told[i] = "CAPITALISE" THEN "PPE" ELSE "REPAIRS",
         NEW key, key[1] = [account |-> account, side |-> "DEBIT", amount |-> Amounts[i]],
         key[2] = [account |-> "CASH", side |-> "CREDIT", amount |-> Amounts[i]]
  PROVE  Scores!RightEntry(t, i, lines) <=> PairedUp(lines, key, 10)
<1>. DEFINE Sides == {"DEBIT", "CREDIT"}
            Same(line, n) == Scores!SameLine(line, key[n], 10)
            Pairs(f) == Same(lines[f["DEBIT"]], 1) /\ Same(lines[f["CREDIT"]], 2)
<1>1. Scores!RightEntry(t, i, lines) <=> \E f \in Bijection(Sides, DOMAIN lines) : Pairs(f)
  <2>1. \A line : Same(line, 1) <=> /\ line.account = account /\ line.side = "DEBIT"
                                    /\ Scores!Within(line.amount, Amounts[i], 10)
    BY DEF Scores!SameLine
  <2>2. \A line : Same(line, 2) <=> /\ line.account = "CASH" /\ line.side = "CREDIT"
                                    /\ Scores!Within(line.amount, Amounts[i], 10)
    BY DEF Scores!SameLine
  <2>3. Scores!Bijection(Sides, DOMAIN lines) = Bijection(Sides, DOMAIN lines)
    BY DEF Scores!Bijection, Bijection, Scores!Injection, Injection, Scores!Surjection, Surjection,
           Scores!IsInjective, IsInjective
  <2>4. Scores!RightEntry(t, i, lines) <=> \E f \in Scores!Bijection(Sides, DOMAIN lines) : Pairs(f)
    <3>. HIDE DEF Same
    <3>. QED
      BY <2>1, <2>2 DEF Scores!RightEntry, Scores!CENT_TOLERANCE
  <2>. QED
    BY <2>3, <2>4
<1>2. DOMAIN lines = 1..Len(lines) /\ Len(lines) \in Nat
  OBVIOUS
<1>. HIDE DEF Same
<1>3. ASSUME NEW f \in Bijection(Sides, DOMAIN lines), Pairs(f) PROVE PairedUp(lines, key, 10)
  <2>. DEFINE k == f["DEBIT"]
              o == f["CREDIT"]
  <2>1. k \in 1..Len(lines) /\ o \in 1..Len(lines) /\ k # o /\ \A x \in 1..Len(lines) : x = k \/ x = o
    BY <1>2 DEF Bijection, Injection, Surjection, IsInjective
  <2>2. Same(lines[k], 1) /\ Same(lines[o], 2)
    BY <1>3
  <2>. HIDE DEF k, o
  <2>3. Len(lines) = 2
    <3>1. Len(lines) >= 1 /\ Len(lines) # 1
      BY <1>2, <2>1
    <3>2. ASSUME Len(lines) >= 3 PROVE FALSE
      <4>1. 1 \in 1..Len(lines) /\ 2 \in 1..Len(lines) /\ 3 \in 1..Len(lines)
        BY <1>2, <3>2
      <4>. QED
        BY <2>1, <4>1
    <3>. QED
      BY <1>2, <3>1, <3>2
  <2>. QED
    BY <2>1, <2>2, <2>3 DEF PairedUp, Same
<1>4. ASSUME PairedUp(lines, key, 10) PROVE \E f \in Bijection(Sides, DOMAIN lines) : Pairs(f)
  <2>1. PICK k \in 1..2, o \in 1..2 : o # k /\ Same(lines[k], 1) /\ Same(lines[o], 2)
    BY <1>4 DEF PairedUp, Same
  <2>2. Len(lines) = 2
    BY <1>4 DEF PairedUp
  <2>. DEFINE f == [s \in Sides |-> IF s = "DEBIT" THEN k ELSE o]
  <2>3. f["DEBIT"] = k /\ f["CREDIT"] = o
    OBVIOUS
  <2>4. f \in [Sides -> DOMAIN lines] /\ \A x \in DOMAIN lines : x = k \/ x = o
    BY <1>2, <2>1, <2>2
  <2>. HIDE DEF f
  <2>5. f \in Bijection(Sides, DOMAIN lines)
    BY <2>1, <2>3, <2>4 DEF Bijection, Injection, Surjection, IsInjective
  <2>. QED
    BY <2>1, <2>3, <2>5
<1>. QED
  BY <1>1, <1>3, <1>4

LEMMA LineListsAre ==
  ASSUME NEW S, NEW key \in Seq(S), Len(key) = 2, NEW tolerance, NEW lines \in Scores!LineLists(key, tolerance)
  PROVE  \E L : lines \in Seq(L)
<1>1. key[1] \in S /\ key[2] \in S
  OBVIOUS
<1>2. CASE lines \in {key, Scores!Reverse(key), Append(key, key[2]), <<>>}
  <2>1. Scores!Reverse(key) \in Seq(S)
    BY DEF Scores!Reverse
  <2>2. Append(key, key[2]) \in Seq(S) /\ <<>> \in Seq(S)
    BY <1>1
  <2>. QED
    BY <1>2, <2>1, <2>2
<1>3. ASSUME NEW a, NEW b, lines = <<a, b>> PROVE lines \in Seq({a, b})
  BY <1>3
<1>4. ASSUME NEW a, lines = <<a>> PROVE lines \in Seq({a})
  BY <1>4
<1>5. CASE lines \in {<<key[1], key[1]>>, <<key[2], key[2]>>, <<Scores!Flip(key[1]), Scores!Flip(key[2])>>}
           \cup {<<key[1], [key[2] EXCEPT !.amount = a]>> : a \in Scores!Near(key[2].amount, tolerance)}
  <2>1. \E a, b : lines = <<a, b>>
    BY <1>5
  <2>. QED
    BY <1>3, <2>1
<1>6. CASE lines = <<key[1]>>
  BY <1>4, <1>6
<1>. QED
  BY <1>2, <1>5, <1>6 DEF Scores!LineLists

LEMMA JournalEntryKey == Scores!JournalEntry => Drafted
<1>. DEFINE account(treatment, i) == IF treatment[i] = "CAPITALISE" THEN "PPE" ELSE "REPAIRS"
            entry(treatment, i) == <<[account |-> account(treatment, i), side |-> "DEBIT", amount |-> Amounts[i]],
                                     [account |-> "CASH", side |-> "CREDIT", amount |-> Amounts[i]]>>
            shown == Scores!ShownEach(Amounts)
<1>1. SUFFICES ASSUME NEW treatment, NEW valid \in BOOLEAN, NEW clear,
                      valid => \E i \in Scores!Lines : clear = Scores!Lines \ {i},
                      Scores!Build(valid,
                        [template |-> "journal-entry", type |-> "JOURNAL_ENTRY",
                         table |-> [amounts |-> shown], told |-> treatment, exact |-> shown = Amounts,
                         entries |-> [i \in clear |-> entry(treatment, i)], tolerance |-> 10])
               PROVE  Drafted
  <2>. SUFFICES ASSUME Scores!JournalEntry PROVE Drafted
    OBVIOUS
  <2>1. PICK treatment \in [Scores!Lines -> {"CAPITALISE", "EXPENSE", "AMBIGUOUS"}], unique \in BOOLEAN :
          Scores!Build(unique /\ \E i \in Scores!Lines : {j \in Scores!Lines : treatment[j] = "AMBIGUOUS"} = {i},
                       [template |-> "journal-entry", type |-> "JOURNAL_ENTRY",
                        table |-> [amounts |-> shown], told |-> treatment, exact |-> shown = Amounts,
                        entries |-> [i \in Scores!Lines \ {j \in Scores!Lines : treatment[j] = "AMBIGUOUS"} |->
                                        entry(treatment, i)],
                        tolerance |-> 10])
    BY Zenon DEF Scores!JournalEntry, Scores!CENT_TOLERANCE
  <2>2. PICK ambiguous : ambiguous = {j \in Scores!Lines : treatment[j] = "AMBIGUOUS"}
    OBVIOUS
  <2>3. PICK valid \in BOOLEAN : valid = (unique /\ \E i \in Scores!Lines : ambiguous = {i})
    OBVIOUS
  <2>4. PICK clear : clear = Scores!Lines \ ambiguous
    OBVIOUS
  <2>. HIDE DEF entry
  <2>5. Scores!Build(valid,
                        [template |-> "journal-entry", type |-> "JOURNAL_ENTRY",
                         table |-> [amounts |-> shown], told |-> treatment, exact |-> shown = Amounts,
                         entries |-> [i \in clear |-> entry(treatment, i)], tolerance |-> 10])
    BY <2>1, <2>2, <2>3, <2>4, Zenon
  <2>6. valid => \E i \in Scores!Lines : clear = Scores!Lines \ {i}
    BY <2>3, <2>4
  <2>. QED
    BY <1>1, <2>5, <2>6, Zenon
<1>. DEFINE entries == [i \in clear |-> entry(treatment, i)]
            t == [template |-> "journal-entry", type |-> "JOURNAL_ENTRY", table |-> [amounts |-> shown], told |-> treatment, exact |-> shown = Amounts,
                  entries |-> entries, tolerance |-> 10]
<1>2. /\ t.template = "journal-entry" /\ t.type = "JOURNAL_ENTRY" /\ t.told = treatment /\ t.table.amounts = shown
      /\ t.exact = (shown = Amounts)
      /\ t.entries = entries /\ t.tolerance = 10
  OBVIOUS
<1>3. DOMAIN entries = clear /\ \A i \in clear : entries[i] = entry(treatment, i)
  OBVIOUS
<1>4. \A i : LET key == entry(treatment, i)
             IN  /\ key[1] = [account |-> account(treatment, i), side |-> "DEBIT", amount |-> Amounts[i]]
                 /\ key[2] = [account |-> "CASH", side |-> "CREDIT", amount |-> Amounts[i]]
                 /\ Len(key) = 2 /\ key[1].side # key[2].side
                 /\ \E S : key \in Seq(S)
  <2>. TAKE i
  <2>. DEFINE key == entry(treatment, i)
  <2>1. key \in Seq({key[1], key[2]})
    OBVIOUS
  <2>. QED
    BY <2>1
<1>. HIDE DEF t, entries, entry
<1>5. ASSUME valid PROVE KeyIsRight(t)
  <2>. SUFFICES ASSUME NEW r \in Scores!Responses(t), Scores!GradeObjective(t, r) # NoTask
                PROVE  /\ t.exact => Scores!GradeObjective(t, r).correct = Scores!RightParts(t, r)
                       /\ Scores!GradeObjective(t, r).total \in Nat \ {0}
                       /\ Scores!GradeObjective(t, r).correct \in 0..Scores!GradeObjective(t, r).total
    BY DEF KeyIsRight
  <2>. DEFINE good == {i \in clear : r # NoTask /\ Scores!EntryMatches(entries[i], r[i], 10)}
  <2>1. IsFiniteSet(clear) /\ Cardinality(clear) \in Nat \ {0}
    <3>1. PICK a \in Scores!Lines : clear = Scores!Lines \ {a}
      BY <1>1, <1>5
    <3>2. IsFiniteSet(clear)
      BY <3>1, LinesAre, FS_RemoveElement
    <3>3. clear # {}
      <4>1. PICK x \in Scores!Lines, y \in Scores!Lines : x # y
        <5>1. 1 \in Scores!Lines /\ Len(Amounts) \in Scores!Lines
          BY LinesAre
        <5>2. Len(Amounts) # 1
          BY LinesAre
        <5>. QED
          BY <5>1, <5>2
      <4>. QED
        BY <3>1, <4>1
    <3>. QED
      BY <3>2, <3>3, FS_CardinalityType, FS_EmptySet
  <2>2. PICK n \in Nat \ {0} : n = Cardinality(clear)
    BY <2>1
  <2>3. PICK c \in 0..n : c = Cardinality(good)
    <3>1. good \subseteq clear
      OBVIOUS
    <3>. HIDE DEF good
    <3>. QED
      BY <2>1, <2>2, <3>1, CountOfPart
  <2>4. Scores!GradeObjective(t, r) = Scores!Parts(c, n)
    BY <1>2, <1>3, <2>2, <2>3, ScoresCardinality DEF Scores!GradeObjective, Scores!GradeJournalEntry
  <2>5. ASSUME t.exact PROVE Scores!RightParts(t, r) = c
    <3>1. CASE r = NoTask
      <4>1. good = {}
        BY <3>1
      <4>. HIDE DEF good
      <4>2. c = 0
        BY <2>3, <4>1, FS_EmptySet
      <4>. QED
        BY <3>1, <4>2 DEF Scores!RightParts
    <3>2. CASE r # NoTask
      <4>1. r \in Scores!JournalEntryResponses(t)
        BY <1>2, <3>2 DEF Scores!Responses
      <4>2. DOMAIN r = clear /\ \A i \in clear : r[i] \in Scores!LineLists(entries[i], 10)
        BY <1>2, <1>3, <4>1 DEF Scores!JournalEntryResponses
      <4>. t.table.amounts = Amounts
        BY <1>2, <2>5
      <4>3. ASSUME NEW i \in clear
            PROVE  Scores!RightEntry(t, i, r[i]) <=> Scores!EntryMatches(entries[i], r[i], 10)
        <5>. DEFINE key == entries[i]
        <5>1. /\ key[1] = [account |-> account(treatment, i), side |-> "DEBIT", amount |-> Amounts[i]]
              /\ key[2] = [account |-> "CASH", side |-> "CREDIT", amount |-> Amounts[i]]
              /\ Len(key) = 2 /\ key[1].side # key[2].side
              /\ \E S : key \in Seq(S)
          BY <1>3, <1>4
        <5>. HIDE DEF key
        <5>2. PICK L : r[i] \in Seq(L)
          BY <4>2, <5>1, LineListsAre DEF key
        <5>3. Scores!EntryMatches(key, r[i], 10) <=> PairedUp(r[i], key, 10)
          BY <5>1, <5>2, MatchesIsPairing
        <5>4. account(treatment, i) = IF t.told[i] = "CAPITALISE" THEN "PPE" ELSE "REPAIRS"
          BY <1>2
        <5>5. Scores!RightEntry(t, i, r[i]) <=> PairedUp(r[i], key, 10)
          <6>. HIDE DEF account
          <6>. QED
            BY <5>1, <5>2, <5>4, RightEntryIsPairing
        <5>. QED
          BY <5>3, <5>5 DEF key
      <4>4. {i \in DOMAIN r : Scores!RightEntry(t, i, r[i])} = good
        BY <3>2, <4>2, <4>3
      <4>. HIDE DEF good
      <4>. QED
        BY <1>2, <2>3, <3>2, <4>4, ScoresCardinality DEF Scores!RightParts
    <3>. QED
      BY <3>1, <3>2
  <2>6. Scores!Parts(c, n).correct = c /\ Scores!Parts(c, n).total = n
    BY PartsOf
  <2>. QED
    BY <2>3, <2>4, <2>5, <2>6
<1>. QED
  BY <1>1, <1>5, BuiltIsDrafted DEF t, entries

-----------------------------------------------------------------------------
(* The numbers of a submission.                                            *)

LEMMA PercentageOf ==
  ASSUME NEW d \in Nat \ {0}, NEW n \in 0..100 * d
  PROVE  Scores!Rounded(n, d) \in 0..100
<1>1. PICK high \in Nat : high = 100
  OBVIOUS
<1>2. n \in Int /\ d * 0 <= n /\ n <= d * high
  BY <1>1
<1>3. Scores!Rounded(n, d) \in 0..high
  BY <1>2, RoundedIsBetween DEF Scores!Rounded
<1>. QED
  BY <1>1, <1>3

LEMMA CriteriaAre ==
  /\ Scores!Criteria = {"problemSolving", "judgment", "written", "commercial"}
  /\ IsFiniteSet(Scores!Criteria) /\ Cardinality(Scores!Criteria) = 4
<1>1. IsFiniteSet({"commercial", "written"}) /\ Cardinality({"commercial", "written"}) = 2
  BY TwoElements
<1>2. /\ IsFiniteSet({"commercial", "written"} \cup {"judgment"})
      /\ Cardinality({"commercial", "written"} \cup {"judgment"}) = 3
  BY <1>1, FS_AddElement
<1>3. /\ IsFiniteSet({"commercial", "written"} \cup {"judgment"} \cup {"problemSolving"})
      /\ Cardinality({"commercial", "written"} \cup {"judgment"} \cup {"problemSolving"}) = 4
  BY <1>2, FS_AddElement
<1>4. Scores!Criteria = {"commercial", "written"} \cup {"judgment"} \cup {"problemSolving"}
  BY DEF Scores!Criteria
<1>. QED
  BY <1>3, <1>4 DEF Scores!Criteria

LEMMA WeightsAre ==
  ASSUME NEW weights \in Scores!CategoryWeights
  PROVE  /\ \A c \in Scores!Criteria : weights[c] \in Nat
         /\ SumFunctionOnSet(weights, Scores!Criteria) = 100
<1>1. /\ weights["problemSolving"] \in Nat /\ weights["judgment"] \in Nat /\ weights["written"] \in Nat
      /\ weights["commercial"] \in Nat
      /\ weights["problemSolving"] + weights["judgment"] + weights["written"] + weights["commercial"] = 100
  BY DEF Scores!CategoryWeights
<1>. DEFINE four == {"problemSolving", "judgment", "written", "commercial"}
            three == {"judgment", "written", "commercial"}
            two == {"written", "commercial"}
            one == {"commercial"}
<1>2. IsFiniteSet(four) /\ IsFiniteSet(three) /\ IsFiniteSet(two) /\ IsFiniteSet(one) /\ IsFiniteSet({})
  <2>1. four = Scores!Criteria /\ three \subseteq four /\ two \subseteq four /\ one \subseteq four /\ {} \subseteq four
    BY DEF Scores!Criteria
  <2>. HIDE DEF four, three, two, one
  <2>. QED
    BY <2>1, CriteriaAre, FS_Subset
<1>3. /\ four \ {"problemSolving"} = three /\ three \ {"judgment"} = two /\ two \ {"written"} = one
      /\ one \ {"commercial"} = {}
      /\ "problemSolving" \in four /\ "judgment" \in three /\ "written" \in two /\ "commercial" \in one
  OBVIOUS
<1>4. /\ \A c \in four : weights[c] \in Int
      /\ \A c \in three : weights[c] \in Int
      /\ \A c \in two : weights[c] \in Int
      /\ \A c \in one : weights[c] \in Int
  BY <1>1
<1>. HIDE DEF four, three, two, one
<1>5. SumFunctionOnSet(weights, four) = weights["problemSolving"] + SumFunctionOnSet(weights, three)
  BY <1>2, <1>3, <1>4, SumTakeOut
<1>6. SumFunctionOnSet(weights, three) = weights["judgment"] + SumFunctionOnSet(weights, two)
  BY <1>2, <1>3, <1>4, SumTakeOut
<1>7. SumFunctionOnSet(weights, two) = weights["written"] + SumFunctionOnSet(weights, one)
  BY <1>2, <1>3, <1>4, SumTakeOut
<1>8. SumFunctionOnSet(weights, one) = weights["commercial"] + SumFunctionOnSet(weights, {})
  BY <1>2, <1>3, <1>4, SumTakeOut
<1>9. SumFunctionOnSet(weights, four) = 100
  BY <1>1, <1>5, <1>6, <1>7, <1>8, SumOfNone
<1>. QED
  BY <1>1, <1>9 DEF four, Scores!Criteria

LEMMA WeightedScore ==
  ASSUME NEW weights \in Scores!CategoryWeights, NEW p \in [Scores!Criteria -> 0..100]
  PROVE  Scores!Rounded(Scores!WeightedSum(p, weights), 100) \in 0..100
<1>. DEFINE f == [c \in Scores!Criteria |-> p[c] * weights[c]]
<1>1. PICK high \in Nat : high = 100
  OBVIOUS
<1>2. \A c \in Scores!Criteria : weights[c] \in Nat /\ p[c] \in 0..high
  BY <1>1, WeightsAre
<1>3. \A c \in Scores!Criteria : f[c] = weights[c] * p[c]
  <2>. TAKE c \in Scores!Criteria
  <2>1. weights[c] \in Int /\ p[c] \in Int /\ f[c] = p[c] * weights[c]
    BY <1>2
  <2>. QED
    BY <2>1
<1>. HIDE DEF f
<1>4. SumFunctionOnSet(f, Scores!Criteria) \in 0..high * SumFunctionOnSet(weights, Scores!Criteria)
  BY <1>2, <1>3, CriteriaAre, WeightedSumIsBounded
<1>5. Scores!WeightedSum(p, weights) \in 0..100 * 100
  <2>1. Scores!WeightedSum(p, weights) = SumFunctionOnSet(f, Scores!Criteria)
    BY ScoresSums DEF Scores!WeightedSum, f
  <2>. QED
    BY <1>1, <1>4, <2>1, WeightsAre
<1>6. PICK d \in Nat \ {0} : d = 100
  OBVIOUS
<1>7. PICK n \in 0..100 * d : n = Scores!WeightedSum(p, weights)
  BY <1>5, <1>6
<1>8. Scores!Rounded(n, d) \in 0..100
  BY PercentageOf
<1>. QED
  BY <1>6, <1>7, <1>8

LEMMA TaskScoreIsBounded ==
  ASSUME NEW r \in [Scores!Criteria -> 0..100]
  PROVE  Scores!TaskScorePercent(r) \in 0..100
<1>. DEFINE f == [c \in Scores!Criteria |-> r[c]]
<1>1. PICK high \in Nat, n \in Nat \ {0} : high = 100 /\ n = 4
  OBVIOUS
<1>2. \A c \in Scores!Criteria : f[c] \in 0..high
  BY <1>1
<1>3. Scores!SumFunction(f) = SumFunctionOnSet(f, Scores!Criteria)
  BY ScoresSums
<1>. HIDE DEF f
<1>4. SumFunctionOnSet(f, Scores!Criteria) \in 0..high * Cardinality(Scores!Criteria)
  BY <1>2, CriteriaAre, SumIsBounded
<1>5. Scores!SumFunction(f) \in 0..100 * n
  BY <1>1, <1>3, <1>4, CriteriaAre
<1>6. Scores!Rounded(Scores!SumFunction(f), n) \in 0..100
  BY <1>5, PercentageOf
<1>. QED
  BY <1>1, <1>6 DEF Scores!TaskScorePercent, f

LEMMA AverageIsBounded ==
  ASSUME results \in Seq([Scores!Criteria -> 0..100]), results # <<>>, NEW c \in Scores!Criteria
  PROVE  Scores!CategoryAverage(c) \in 0..100
<1>. DEFINE f == [i \in DOMAIN results |-> results[i][c]]
<1>1. PICK high \in Nat : high = 100
  OBVIOUS
<1>2. PICK n \in Nat \ {0} : n = Len(results) /\ DOMAIN results = 1..n
  <2>1. Len(results) \in Nat \ {0}
    BY EmptySeq, Zenon
  <2>2. DOMAIN results = 1..Len(results)
    OBVIOUS
  <2>. QED
    BY <2>1, <2>2
<1>3. \A i \in 1..n : f[i] \in 0..high
  <2>1. \A i \in 1..n : results[i] \in [Scores!Criteria -> 0..100]
    BY <1>2
  <2>. QED
    BY <1>1, <1>2, <2>1
<1>4. DOMAIN f = 1..n
  BY <1>2
<1>. HIDE DEF f
<1>5. Scores!SumFunction(f) \in 0..100 * n
  <2>1. IsFiniteSet(1..n) /\ Cardinality(1..n) = n
    BY FS_Interval
  <2>2. SumFunctionOnSet(f, 1..n) \in 0..high * Cardinality(1..n)
    BY <1>3, <2>1, SumIsBounded
  <2>. QED
    BY <1>1, <1>4, <2>1, <2>2, ScoresSums
<1>6. Scores!Rounded(Scores!SumFunction(f), n) \in 0..100
  BY <1>5, PercentageOf
<1>. QED
  BY <1>2, <1>6 DEF Scores!CategoryAverage, f

-----------------------------------------------------------------------------
(* Scoring: the invariant.                                                 *)

(* Which fields are set when, and that the key of the open task is right.  *)
ScoringInv ==
  /\ phase \in {"draft", "open", "answered", "graded", "rolledUp"}
  /\ results \in Seq([Scores!Criteria -> 0..100]) /\ Len(results) <= Len(Plan)
  /\ phase \in {"open", "answered"} => Len(results) < Len(Plan)
  /\ phase \in {"draft", "rolledUp"} => task = Scores!Rejected
  /\ phase \in {"open", "answered", "graded"} =>
       KeyIsRight(task) /\ \E i \in DOMAIN Plan : task.template \in Plan[i]
  /\ phase \in {"answered", "graded"} => answer.response \in Scores!Responses(task)
  /\ objective # NoTask => phase = "graded" /\ objective = Scores!GradeObjective(task, answer.response)
  /\ overall # NoTask => /\ phase = "rolledUp" /\ overall.score \in 0..100
                         /\ overall.categories \in [Scores!Criteria -> 0..100]
                         /\ overall.tasks \in [DOMAIN results -> 0..100]

LEMMA ScoringInit == Scores!Init => ScoringInv
<1>. SUFFICES ASSUME Scores!Init PROVE ScoringInv
  OBVIOUS
<1>1. <<>> \in Seq([Scores!Criteria -> 0..100]) /\ Len(<<>>) = 0 /\ Len(Plan) \in Nat
  BY ScoringAssumption
<1>. QED
  BY <1>1 DEF Scores!Init, ScoringInv

LEMMA ScoringTypes == ScoringInv => Scores!TypeOK
<1>. SUFFICES ASSUME ScoringInv PROVE Scores!TypeOK
  OBVIOUS
<1>1. task.template \in {"none"} \cup UNION {Plan[i] : i \in DOMAIN Plan}
  BY DEF ScoringInv, Scores!Rejected
<1>2. objective # NoTask => objective.total > 0 /\ objective.correct \in 0..objective.total
  <2>. SUFFICES ASSUME objective # NoTask PROVE objective.total > 0 /\ objective.correct \in 0..objective.total
    OBVIOUS
  <2>1. /\ KeyIsRight(task) /\ answer.response \in Scores!Responses(task)
        /\ objective = Scores!GradeObjective(task, answer.response)
    BY DEF ScoringInv
  <2>. QED
    BY <2>1 DEF KeyIsRight
<1>. QED
  BY <1>1, <1>2 DEF ScoringInv, Scores!TypeOK, Scores!Scores

LEMMA ScoringKeys == ScoringInv => Scores!KeyAgreesWithTheCase
<1>. SUFFICES ASSUME ScoringInv, objective # NoTask, task.exact
              PROVE  objective.correct = Scores!RightParts(task, answer.response)
  BY DEF Scores!KeyAgreesWithTheCase
<1>1. /\ KeyIsRight(task) /\ answer.response \in Scores!Responses(task)
      /\ objective = Scores!GradeObjective(task, answer.response)
  BY DEF ScoringInv
<1>. QED
  BY <1>1 DEF KeyIsRight

LEMMA MaterializeDrafts ==
  Scores!Materialize => /\ phase = "draft" /\ Len(results) < Len(Plan) /\ Drafted
                        /\ UNCHANGED <<results, answer, objective, overall>>
<1>. SUFFICES ASSUME Scores!Materialize PROVE Drafted
  BY DEF Scores!Materialize
<1>. QED
  BY ReconciliationKey, JournalEntryKey, VarianceKey, VarianceBridgeKey, ForecastKey, LineTrendKey,
     RevenueUnitsKey, StatementKey, TicketTriageKey, DiagnosticQuestionsKey, RefundPolicyKey,
     DeEscalationKey, EscalationHandoffKey, ImproperRequestKey DEF Scores!Materialize

(* A score the key settles is a percentage; the others are the model's.    *)
LEMMA CombinedIsBounded ==
  ASSUME NEW result, result # NoTask => result.total \in Nat \ {0} /\ result.correct \in 0..result.total,
         NEW llm \in [Scores!CriteriaForLlm(result) -> LlmScores], NEW triggered
  PROVE  Scores!CombineCategoryScores(llm, result, triggered) \in [Scores!Criteria -> 0..100]
<1>1. ASSUME NEW c \in Scores!Criteria, result # NoTask /\ c \in Scores!SettledByKey
      PROVE  Scores!PercentOf(result) \in 0..100
  <2>1. PICK d \in Nat \ {0} : d = result.total
    BY <1>1
  <2>2. PICK n \in 0..100 * d : n = 100 * result.correct
    BY <1>1, <2>1
  <2>3. Scores!Rounded(n, d) \in 0..100
    BY PercentageOf
  <2>. QED
    BY <2>1, <2>2, <2>3 DEF Scores!PercentOf
<1>2. ASSUME NEW c \in Scores!Criteria, ~ (result # NoTask /\ c \in Scores!SettledByKey)
      PROVE  llm[c] \in 0..100
  <2>1. c \in Scores!CriteriaForLlm(result)
    BY <1>2 DEF Scores!CriteriaForLlm
  <2>2. llm[c] \in LlmScores
    BY <2>1
  <2>. QED
    BY <2>2, ScoringAssumption
<1>. QED
  BY <1>1, <1>2 DEF Scores!CombineCategoryScores, Scores!GATE_JUDGMENT_CAP

LEMMA AppendedResult ==
  ASSUME ScoringInv, phase = "answered", NEW r \in [Scores!Criteria -> 0..100], results' = Append(results, r)
  PROVE  results' \in Seq([Scores!Criteria -> 0..100]) /\ Len(results') <= Len(Plan)
<1>1. /\ results \in Seq([Scores!Criteria -> 0..100]) /\ Len(results) < Len(Plan)
      /\ Len(results) \in Nat /\ Len(Plan) \in Nat
  BY ScoringAssumption DEF ScoringInv
<1>2. /\ Append(results, r) \in Seq([Scores!Criteria -> 0..100])
      /\ Len(Append(results, r)) = Len(results) + 1
  BY <1>1, AppendProperties, Zenon
<1>3. Len(results) + 1 <= Len(Plan)
  BY <1>1
<1>. QED
  BY <1>2, <1>3, Zenon

LEMMA NextScoring == ScoringInv /\ [Scores!Next]_(Scores!vars) => ScoringInv'
<1>. SUFFICES ASSUME ScoringInv, [Scores!Next]_(Scores!vars) PROVE ScoringInv'
  OBVIOUS
<1>1. CASE Scores!Materialize
  <2>1. /\ phase = "draft" /\ Len(results) < Len(Plan)
        /\ results' = results /\ answer' = answer /\ objective' = objective /\ overall' = overall
    BY <1>1, MaterializeDrafts
  <2>2. objective = NoTask /\ overall = NoTask
    BY <2>1 DEF ScoringInv
  <2>3. CASE phase' = "draft" /\ task' = Scores!Rejected
    BY <2>1, <2>2, <2>3 DEF ScoringInv
  <2>4. CASE phase' = "open" /\ task'.template \in Plan[Len(results) + 1] /\ KeyIsRight(task')
    <3>1. Len(results) + 1 \in DOMAIN Plan
      <4>1. /\ Len(results) \in Nat /\ Len(results) < Len(Plan) /\ Len(Plan) \in Nat
            /\ DOMAIN Plan = 1..Len(Plan)
        BY <2>1, ScoringAssumption DEF ScoringInv
      <4>. QED
        BY <4>1
    <3>2. KeyIsRight(task)'
      BY <2>4 DEF KeyIsRight
    <3>. QED
      BY <2>1, <2>2, <2>4, <3>1, <3>2 DEF ScoringInv
  <2>. QED
    BY <1>1, <2>3, <2>4, MaterializeDrafts DEF Drafted
<1>2. CASE Scores!Submit
  <2>1. /\ phase = "open" /\ phase' = "answered" /\ task' = task /\ results' = results
        /\ objective' = objective /\ overall' = overall
        /\ answer'.response \in Scores!Responses(task)
    BY <1>2 DEF Scores!Submit
  <2>2. KeyIsRight(task)' <=> KeyIsRight(task)
    BY <2>1 DEF KeyIsRight
  <2>. QED
    BY <2>1, <2>2 DEF ScoringInv
<1>3. CASE Scores!GradeNotAttempted
  <2>1. /\ phase = "answered" /\ phase' = "graded" /\ task' = task /\ answer' = answer
        /\ objective' = objective /\ overall' = overall
        /\ results' = Append(results, Scores!NotAttempted)
    BY <1>3 DEF Scores!GradeNotAttempted
  <2>2. Scores!NotAttempted \in [Scores!Criteria -> 0..100]
    BY DEF Scores!NotAttempted
  <2>3. results' \in Seq([Scores!Criteria -> 0..100]) /\ Len(results') <= Len(Plan)
    BY <2>1, <2>2, AppendedResult
  <2>4. KeyIsRight(task)' <=> KeyIsRight(task)
    BY <2>1 DEF KeyIsRight
  <2>5. objective = NoTask /\ overall = NoTask
    BY <2>1 DEF ScoringInv
  <2>. QED
    BY <2>1, <2>3, <2>4, <2>5 DEF ScoringInv
<1>4. CASE Scores!GradeAnswer
  <2>. DEFINE result == Scores!GradeObjective(task, answer.response)
  <2>1. /\ phase = "answered" /\ phase' = "graded" /\ task' = task /\ answer' = answer
        /\ objective' = result /\ overall' = overall
        /\ \E llm \in [Scores!CriteriaForLlm(result) -> LlmScores], triggered \in BOOLEAN :
              results' = Append(results, Scores!CombineCategoryScores(llm, result, triggered))
    BY <1>4 DEF Scores!GradeAnswer
  <2>2. result # NoTask => result.total \in Nat \ {0} /\ result.correct \in 0..result.total
    BY <2>1 DEF ScoringInv, KeyIsRight
  <2>. HIDE DEF result
  <2>3. PICK r \in [Scores!Criteria -> 0..100] : results' = Append(results, r)
    BY <2>1, <2>2, CombinedIsBounded
  <2>4. results' \in Seq([Scores!Criteria -> 0..100]) /\ Len(results') <= Len(Plan)
    BY <2>1, <2>3, AppendedResult
  <2>5. KeyIsRight(task)' <=> KeyIsRight(task)
    BY <2>1 DEF KeyIsRight
  <2>6. overall = NoTask
    BY <2>1 DEF ScoringInv
  <2>. QED
    BY <2>1, <2>4, <2>5, <2>6 DEF ScoringInv, result
<1>5. CASE Scores!NextTask
  BY <1>5 DEF Scores!NextTask, ScoringInv
<1>6. CASE Scores!RollUp
  <2>1. /\ phase = "draft" /\ phase' = "rolledUp" /\ results # <<>>
        /\ task' = task /\ results' = results /\ answer' = answer /\ objective' = objective
    BY <1>6 DEF Scores!RollUp
  <2>2. PICK weights \in Scores!CategoryWeights :
          overall' = [categories |-> [c \in Scores!Criteria |-> Scores!CategoryAverage(c)],
                      score |-> Scores!Rounded(Scores!WeightedSum(
                                   [c \in Scores!Criteria |-> Scores!CategoryAverage(c)], weights), 100),
                      tasks |-> [i \in DOMAIN results |-> Scores!TaskScorePercent(results[i])]]
    BY <1>6, Zenon DEF Scores!RollUp
  <2>. DEFINE p == [c \in Scores!Criteria |-> Scores!CategoryAverage(c)]
  <2>3. p \in [Scores!Criteria -> 0..100]
    BY <2>1, AverageIsBounded DEF ScoringInv
  <2>. HIDE DEF p
  <2>4. Scores!Rounded(Scores!WeightedSum(p, weights), 100) \in 0..100
    BY <2>3, WeightedScore
  <2>5. \A i \in DOMAIN results : Scores!TaskScorePercent(results[i]) \in 0..100
    <3>1. \A i \in DOMAIN results : results[i] \in [Scores!Criteria -> 0..100]
      BY DEF ScoringInv
    <3>. QED
      BY <3>1, TaskScoreIsBounded
  <2>6. overall'.categories = p /\ overall'.score = Scores!Rounded(Scores!WeightedSum(p, weights), 100)
        /\ overall'.tasks = [i \in DOMAIN results |-> Scores!TaskScorePercent(results[i])]
    BY <2>2 DEF p
  <2>7. /\ overall'.score \in 0..100 /\ overall'.categories \in [Scores!Criteria -> 0..100]
        /\ overall'.tasks \in [DOMAIN results' -> 0..100]
    BY <2>1, <2>3, <2>4, <2>5, <2>6
  <2>8. objective = NoTask
    BY <2>1 DEF ScoringInv
  <2>. QED
    BY <2>1, <2>7, <2>8 DEF ScoringInv
<1>7. CASE UNCHANGED Scores!vars
  <2>1. /\ phase' = phase /\ task' = task /\ results' = results /\ answer' = answer
        /\ objective' = objective /\ overall' = overall
    BY <1>7 DEF Scores!vars
  <2>2. KeyIsRight(task)' <=> KeyIsRight(task)
    BY <2>1 DEF KeyIsRight
  <2>. QED
    BY <2>1, <2>2 DEF ScoringInv
<1>. QED
  BY <1>1, <1>2, <1>3, <1>4, <1>5, <1>6, <1>7 DEF Scores!Next

LEMMA ScoringIsKept == Scores!Spec => []ScoringInv
BY ScoringInit, NextScoring, PTL DEF Scores!Spec

(* The key stored with a task agrees with the case: whatever the amounts,  *)
(* figures, tickets, interviews and currency, when the table shows every   *)
(* figure as it was given, each answer of Responses (the key, near misses  *)
(* on both sides of a tolerance, swapped and missing parts) earns exactly  *)
(* the parts that are right when the case is solved again from the table   *)
(* (the materialise functions of generation/roles, objective-grader.ts).   *)
(* It says nothing of a case with a figure that is shown rounded: see      *)
(* ReconciliationIsExact.                                                  *)
THEOREM KeysRight == Scores!Spec => []KeyAgreesWithTheCase
BY ScoringIsKept, ScoringKeys, PTL DEF KeyAgreesWithTheCase

(* Every score is a whole number from 0 to 100, of a criterion, a task, a  *)
(* category and the submission, and no answer of Responses is awarded more *)
(* parts than there are (task-category-scores.ts, roll-up.ts).  Answers    *)
(* that pick one option twice are not among them: see ScoreIsOutOfHundred. *)
THEOREM ScoresTyped == Scores!Spec => []Scores!TypeOK
BY ScoringIsKept, ScoringTypes, PTL
=============================================================================
