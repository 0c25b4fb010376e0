------------------------------ MODULE QueueProofs -----------------------------
(***************************************************************************)
(* The two users of WaitableQueue.  For the thread pool: the balance of    *)
(* its counts, and that a paused pool starts nothing, for any number of    *)
(* threads, tasks, pauses and resizes.  For the logger, at the end: that   *)
(* nothing queued at shutdown is lost.                                     *)
(***************************************************************************)
EXTENDS ThreadPool, Logger, FiniteSetTheorems, SequenceTheorems, WellFoundedInduction, TLAPS

\* How many tasks of a kind are in q, and how many threads are at a place of X.
KindIn(q, kind) == {i \in DOMAIN q : q[i].kind = kind}
Tally(q, kind) == Cardinality(KindIn(q, kind))
Within(f, X) == {t \in Tids : f[t] \in X}
NumOf(f, X) == Cardinality(Within(f, X))

\* Where a thread still takes tasks.
LiveStates == {"popping", "running", "pausing", "waiting", "notified"}
Live(f) == NumOf(f, LiveStates)
Held(f) == NumOf(f, {"waiting"})
Stopping(f) == NumOf(f, {"pausing"})

\* Special tasks are CRITICAL, users' tasks are not.
Tasks == [kind : {"user"}, priority : Priorities] \cup {PauseTask, EndTask}
QueueInv == m_pq \in Seq(Tasks)

\* Tids for reuse are those of different threads, which have ended.
DeletedEnded ==
    /\ \A i \in DOMAIN m_deleted_threads : threads[m_deleted_threads[i]] = "ended"
    /\ \A i, j \in DOMAIN m_deleted_threads :
           m_deleted_threads[i] = m_deleted_threads[j] => i = j

\* Tids not taken yet are those of no thread, and there are enough for a resize.
NewTids ==
    /\ \A t \in Tids : t >= m_tid => threads[t] = "absent"
    /\ call = "growing" => m_tid + left <= Cardinality(Tids)

\* During SetNumThreads the threads still to be added, or the end tasks still to be
\* pushed, are missing.
Balanced ==
    /\ call \in {"none", "pausing", "acquiring"} =>
           Live(threads) = m_total_threads + Tally(m_pq, "end")
    /\ call = "growing" =>
           Live(threads) + left = target + Tally(m_pq, "end")
    /\ call = "shrinking" =>
           Live(threads) = target + left + Tally(m_pq, "end")

\* Every pause task that was pushed is in the queue, with a thread, or a token that
\* Pause has still to acquire.
PauseTokens ==
    Tally(m_pq, "pause") + Stopping(threads) + m_pause_sem =
        (IF call = "pausing" THEN m_total_threads - left
         ELSE IF call = "acquiring" THEN left ELSE 0)

\* A thread waits for every token, acquired or not; and once Pause has returned, those
\* that do not wait are as many as there are end tasks.
PauseWaits ==
    /\ call = "pausing" => m_paused /\ Held(threads) >= m_pause_sem
    /\ call = "acquiring" =>
           m_paused /\ Held(threads) + left >= m_pause_sem + m_total_threads
    /\ quiet => m_paused
    /\ grown => quiet
    /\ quiet /\ call = "growing" => grown
    /\ quiet /\ ~grown =>
           Live(threads) <= Held(threads) + Tally(m_pq, "end")

PoolInv ==
    TypeOK /\ QueueInv /\ DeletedEnded /\ NewTids /\ Balanced /\ PauseTokens /\ PauseWaits

-------------------------------------------------------------------------------
(* The queue. *)

\* A set of natural numbers that is not empty has a least element.
LEMMA LeastNat ==
    ASSUME NEW T, T \subseteq Nat, T # {}
    PROVE  \E x \in T : \A y \in T : x <= y
  <1> DEFINE R == OpToRel(<, Nat)
  <1>1. IsWellFoundedOn(R, Nat)
    BY NatLessThanWellFounded
  <1>2. \A x, y \in Nat : x < y => <<x, y>> \in R
    BY DEF OpToRel
  <1> HIDE DEF R
  <1>3. \E x \in T : \A y \in T : ~ (<<y, x>> \in R)
    BY <1>1, WFMin
  <1>4. PICK x \in T : \A y \in T : ~ (<<y, x>> \in R)
    BY <1>3
  <1>5. ASSUME NEW y \in T PROVE x <= y
    <2>1. x \in Nat /\ y \in Nat /\ <<y, x>> \notin R
      BY <1>4
    <2>2. ~(y < x)
      BY <1>2, <2>1
    <2> QED BY <2>1, <2>2
  <1> QED BY <1>4, <1>5

\* The queue has a top: the tasks of the highest priority, and the last of these.
LEMMA TopInQueue ==
    ASSUME NEW q \in Seq(Tasks), q # << >>
    PROVE  Top(q) \in DOMAIN q /\ \A j \in DOMAIN q : q[j].priority <= q[Top(q)].priority
  <1> DEFINE low(i) == CRITICAL - q[i].priority
             Lows == {low(i) : i \in DOMAIN q}
  <1>1. DOMAIN q = 1..Len(q) /\ Len(q) \in Nat /\ 1 \in DOMAIN q
    OBVIOUS
  <1>2. \A i \in DOMAIN q : q[i] \in Tasks
    OBVIOUS
  <1>3. \A i \in DOMAIN q : q[i].priority \in {1, 3, 4}
    BY <1>2 DEF Tasks, Priorities, CRITICAL, PauseTask, EndTask, Task
  <1>4. Lows \subseteq Nat /\ Lows # {}
    BY <1>1, <1>3 DEF CRITICAL
  <1>5. PICK x \in Lows : \A y \in Lows : x <= y
    <2> HIDE DEF Lows
    <2> QED BY <1>4, LeastNat
  <1>6. PICK m \in DOMAIN q : x = low(m)
    BY <1>5
  <1>7. \A i \in DOMAIN q : q[i].priority <= q[m].priority
    <2> SUFFICES ASSUME NEW i \in DOMAIN q PROVE q[i].priority <= q[m].priority
      OBVIOUS
    <2>1. low(m) <= low(i)
      BY <1>5, <1>6
    <2> QED BY <1>3, <2>1 DEF CRITICAL
  <1> DEFINE Ages == {Len(q) - i : i \in {j \in DOMAIN q : q[j].priority = q[m].priority}}
  <1>8. Ages \subseteq Nat /\ Ages # {}
    BY <1>1
  <1>9. PICK y \in Ages : \A z \in Ages : y <= z
    <2> HIDE DEF Ages
    <2> QED BY <1>8, LeastNat
  <1>10. PICK k \in DOMAIN q : q[k].priority = q[m].priority /\ y = Len(q) - k
    BY <1>9
  <1>11. ASSUME NEW j \in DOMAIN q
         PROVE  \/ q[j].priority < q[k].priority
                \/ q[j].priority = q[k].priority /\ j <= k
    <2>1. CASE q[j].priority = q[m].priority
      <3>1. Len(q) - k <= Len(q) - j
        BY <1>9, <1>10, <2>1
      <3> QED BY <1>1, <1>10, <2>1, <3>1
    <2>2. CASE q[j].priority # q[m].priority
      BY <1>3, <1>7, <1>10, <2>2
    <2> QED BY <2>1, <2>2
  <1> DEFINE IsTop(i) == \A j \in DOMAIN q : \/ q[j].priority < q[i].priority
                                             \/ q[j].priority = q[i].priority /\ j <= i
  <1>12. \E i \in DOMAIN q : IsTop(i)
    BY <1>11
  <1>13. Top(q) = CHOOSE i \in DOMAIN q : IsTop(i)
    BY DEF Top
  <1> HIDE DEF IsTop
  <1>14. Top(q) \in DOMAIN q /\ IsTop(Top(q))
    BY <1>12, <1>13
  <1>15. PICK p \in DOMAIN q : p = Top(q) /\ IsTop(p)
    BY <1>14
  <1>16. \A j \in DOMAIN q : q[j].priority <= q[p].priority
    BY <1>3, <1>15 DEF IsTop
  <1> QED BY <1>15, <1>16

\* The tasks of a kind can be counted.
LEMMA TallyType ==
    ASSUME NEW q \in Seq(Tasks), NEW kind
    PROVE  IsFiniteSet(KindIn(q, kind)) /\ Tally(q, kind) \in Nat
  <1>1. IsFiniteSet(1..Len(q)) /\ DOMAIN q = 1..Len(q)
    BY FS_Interval
  <1>2. KindIn(q, kind) \in SUBSET (1..Len(q))
    BY <1>1 DEF KindIn
  <1>3. IsFiniteSet(KindIn(q, kind))
    BY <1>1, <1>2, FS_Subset
  <1> QED BY <1>3, FS_CardinalityType DEF Tally

\* A push adds one task of its kind.
LEMMA TallyAppend ==
    ASSUME NEW q \in Seq(Tasks), NEW x \in Tasks, NEW kind
    PROVE  Tally(Append(q, x), kind) = Tally(q, kind) + (IF x.kind = kind THEN 1 ELSE 0)
  <1>1. /\ DOMAIN Append(q, x) = 1..(Len(q) + 1) /\ DOMAIN q = 1..Len(q) /\ Len(q) \in Nat
        /\ \A i \in 1..Len(q) : Append(q, x)[i] = q[i]
        /\ Append(q, x)[Len(q) + 1] = x
    OBVIOUS
  <1>2. Len(q) + 1 \notin KindIn(q, kind)
    BY <1>1 DEF KindIn
  <1>3. CASE x.kind = kind
    <2>1. KindIn(Append(q, x), kind) = KindIn(q, kind) \cup {Len(q) + 1}
      BY <1>1, <1>3 DEF KindIn
    <2> QED BY <1>2, <1>3, <2>1, TallyType, FS_AddElement DEF Tally
  <1>4. CASE x.kind # kind
    <2>1. KindIn(Append(q, x), kind) = KindIn(q, kind)
      BY <1>1, <1>4 DEF KindIn
    <2> QED BY <1>4, <2>1, TallyType DEF Tally
  <1> QED BY <1>3, <1>4

\* What is left in the queue when the task at position i is taken.
LEMMA Removed ==
    ASSUME NEW q \in Seq(Tasks), NEW i \in DOMAIN q
    PROVE  /\ Remove(q, i) \in Seq(Tasks) /\ Len(Remove(q, i)) = Len(q) - 1
           /\ \A j \in 1..(Len(q) - 1) : Remove(q, i)[j] = IF j < i THEN q[j] ELSE q[j + 1]
  <1> DEFINE x == SubSeq(q, 1, i - 1)
             y == SubSeq(q, i + 1, Len(q))
  <1>1. Len(q) \in Nat /\ i \in 1..Len(q) /\ i \in Int
    OBVIOUS
  <1>2. (\A j \in 1..(i - 1) : q[j] \in Tasks) /\ (\A j \in (i + 1)..Len(q) : q[j] \in Tasks)
    BY <1>1
  <1>3. x \in Seq(Tasks) /\ Len(x) = i - 1 /\ \A j \in 1..(i - 1) : x[j] = q[j]
    BY <1>1, <1>2, SubSeqProperties
  <1>4. y \in Seq(Tasks) /\ Len(y) = Len(q) - i /\ \A j \in 1..(Len(q) - i) : y[j] = q[i + j]
    BY <1>1, <1>2, SubSeqProperties
  <1>5. Remove(q, i) = x \o y
    BY DEF Remove
  <1> HIDE DEF x, y
  <1>6. /\ x \o y \in Seq(Tasks) /\ Len(x \o y) = Len(q) - 1
        /\ \A j \in 1..(Len(q) - 1) : (x \o y)[j] = IF j < i THEN x[j] ELSE y[j - (i - 1)]
    <2>1. /\ x \o y \in Seq(Tasks) /\ Len(x \o y) = Len(x) + Len(y)
          /\ \A j \in 1..(Len(x) + Len(y)) :
                 (x \o y)[j] = IF j <= Len(x) THEN x[j] ELSE y[j - Len(x)]
      BY <1>3, <1>4, ConcatProperties, Zenon
    <2>2. PICK z : z = x \o y
      OBVIOUS
    <2>3. Len(x) + Len(y) = Len(q) - 1
      BY <1>1, <1>3, <1>4
    <2>4. /\ Len(z) = Len(q) - 1
          /\ \A j \in 1..(Len(q) - 1) : z[j] = IF j <= i - 1 THEN x[j] ELSE y[j - (i - 1)]
      <3>1. Len(x) = i - 1
        BY <1>3
      <3> QED BY <2>1, <2>2, <2>3, <3>1, Zenon
    <2>5. ASSUME NEW j \in 1..(Len(q) - 1) PROVE (j <= i - 1) = (j < i)
      BY <1>1
    <2>6. \A j \in 1..(Len(q) - 1) : z[j] = IF j < i THEN x[j] ELSE y[j - (i - 1)]
      BY <2>4, <2>5, Zenon
    <2> QED BY <2>1, <2>2, <2>4, <2>6, Zenon
  <1>7. ASSUME NEW j \in 1..(Len(q) - 1) PROVE (x \o y)[j] = IF j < i THEN q[j] ELSE q[j + 1]
    <2>1. CASE j < i
      BY <1>1, <1>3, <1>6, <2>1
    <2>2. CASE ~(j < i)
      <3>1. j - (i - 1) \in 1..(Len(q) - i) /\ i + (j - (i - 1)) = j + 1
        BY <1>1, <2>2
      <3> QED BY <1>4, <1>6, <2>2, <3>1
    <2> QED BY <2>1, <2>2
  <1> QED BY <1>5, <1>6, <1>7

\* A pop takes one task of its kind.
LEMMA TallyRemove ==
    ASSUME NEW q \in Seq(Tasks), NEW i \in DOMAIN q, NEW kind
    PROVE  Tally(Remove(q, i), kind) = Tally(q, kind) - (IF q[i].kind = kind THEN 1 ELSE 0)
  <1>1. PICK r \in Seq(Tasks) :
            /\ r = Remove(q, i) /\ Len(r) = Len(q) - 1
            /\ \A j \in 1..(Len(q) - 1) : r[j] = IF j < i THEN q[j] ELSE q[j + 1]
    BY Removed
  <1>2. /\ Len(q) \in Nat /\ i \in 1..Len(q)
        /\ DOMAIN q = 1..Len(q) /\ DOMAIN r = 1..(Len(q) - 1)
    BY <1>1
  <1> DEFINE A == KindIn(r, kind)
             B == KindIn(q, kind) \ {i}
             f == [j \in A |-> IF j < i THEN j ELSE j + 1]
  <1>3. f \in [A -> B]
    BY <1>1, <1>2 DEF KindIn
  <1>4. \A j, k \in A : f[j] = f[k] => j = k
    BY <1>2 DEF KindIn
  <1>5. \A k \in B : \E j \in A : f[j] = k
    <2> SUFFICES ASSUME NEW k \in B PROVE \E j \in A : f[j] = k
      OBVIOUS
    <2>1. k \in 1..Len(q) /\ k # i /\ q[k].kind = kind
      BY <1>2 DEF KindIn
    <2>2. CASE k < i
      <3>1. k \in A
        BY <1>1, <1>2, <2>1, <2>2 DEF KindIn
      <3> QED BY <2>2, <3>1
    <2>3. CASE k > i
      <3>1. k - 1 \in 1..(Len(q) - 1) /\ ~(k - 1 < i) /\ (k - 1) + 1 = k
        BY <1>2, <2>1, <2>3
      <3>2. k - 1 \in A
        BY <1>1, <1>2, <2>1, <3>1 DEF KindIn
      <3> QED BY <3>1, <3>2
    <2>4. k \in Int /\ i \in Int
      BY <1>2, <2>1
    <2> QED BY <2>1, <2>2, <2>3, <2>4
  <1>6. ExistsBijection(A, B)
    BY <1>3, <1>4, <1>5 DEF ExistsBijection, Bijection, Injection, Surjection, IsInjective
  <1>7. IsFiniteSet(A) /\ IsFiniteSet(KindIn(q, kind)) /\ Tally(q, kind) \in Nat
    BY <1>1, TallyType
  <1>8. Cardinality(B) = Cardinality(A)
    BY <1>6, <1>7, FS_Bijection
  <1>9. Cardinality(B) = Tally(q, kind) - (IF q[i].kind = kind THEN 1 ELSE 0)
    <2>1. i \in KindIn(q, kind) <=> q[i].kind = kind
      BY DEF KindIn
    <2>2. Cardinality(KindIn(q, kind) \ {i}) =
              IF i \in KindIn(q, kind) THEN Cardinality(KindIn(q, kind)) - 1
              ELSE Cardinality(KindIn(q, kind))
      BY <1>7, FS_RemoveElement
    <2> QED BY <1>7, <2>1, <2>2 DEF Tally
  <1> QED BY <1>1, <1>8, <1>9 DEF Tally

-------------------------------------------------------------------------------
(* The threads. *)

\* The threads at a place can be counted.
LEMMA NumOfType ==
    ASSUME NEW f, NEW X
    PROVE  IsFiniteSet(Within(f, X)) /\ NumOf(f, X) \in Nat
  <1>1. Within(f, X) \in SUBSET Tids
    BY DEF Within
  <1>2. IsFiniteSet(Within(f, X))
    BY <1>1, ThreadPoolAssumption, FS_Subset
  <1> QED BY <1>2, FS_CardinalityType DEF NumOf

\* One thread that moves changes the counts of the places it leaves and enters.
LEMMA MoveThread ==
    ASSUME NEW f \in [Tids -> ThreadStates], NEW t \in Tids, NEW v, NEW X
    PROVE  NumOf([f EXCEPT ![t] = v], X) =
               NumOf(f, X) - (IF f[t] \in X THEN 1 ELSE 0) + (IF v \in X THEN 1 ELSE 0)
  <1> DEFINE S == Within(f, X)
             T == Within([f EXCEPT ![t] = v], X)
  <1>1. IsFiniteSet(S) /\ Cardinality(S) \in Nat
    BY NumOfType DEF NumOf
  <1>2. t \in S <=> f[t] \in X
    BY DEF Within
  <1>3. CASE v \in X
    <2>1. T = S \cup {t}
      BY <1>3 DEF Within
    <2>2. Cardinality(T) = IF t \in S THEN Cardinality(S) ELSE Cardinality(S) + 1
      BY <1>1, <2>1, FS_AddElement
    <2> HIDE DEF S, T
    <2>3. Cardinality(T) = Cardinality(S) - (IF f[t] \in X THEN 1 ELSE 0) + 1
      BY <1>1, <1>2, <2>2
    <2> QED BY <1>3, <2>3 DEF NumOf, S, T
  <1>4. CASE v \notin X
    <2>1. T = S \ {t}
      BY <1>4 DEF Within
    <2>2. Cardinality(T) = IF t \in S THEN Cardinality(S) - 1 ELSE Cardinality(S)
      BY <1>1, <2>1, FS_RemoveElement
    <2> HIDE DEF S, T
    <2>3. Cardinality(T) = Cardinality(S) - (IF f[t] \in X THEN 1 ELSE 0) + 0
      BY <1>1, <1>2, <2>2
    <2> QED BY <1>4, <2>3 DEF NumOf, S, T
  <1> QED BY <1>3, <1>4

\* A thread that takes tasks and does not wait is counted beyond those that wait.
LEMMA NotWaiting ==
    ASSUME NEW f, NEW t \in Tids, f[t] \in LiveStates \ {"waiting"}
    PROVE  Live(f) >= Held(f) + 1
  <1> DEFINE W == Within(f, {"waiting"})
  <1>1. W \cup {t} \in SUBSET Within(f, LiveStates) /\ t \notin W
    BY DEF Within, LiveStates
  <1>2. IsFiniteSet(W) /\ Cardinality(W \cup {t}) = Cardinality(W) + 1
    BY <1>1, NumOfType, FS_AddElement
  <1>3. Cardinality(W \cup {t}) <= Cardinality(Within(f, LiveStates))
    BY <1>1, NumOfType, FS_Subset
  <1> QED BY <1>2, <1>3, NumOfType DEF NumOf, Live, Held

-------------------------------------------------------------------------------
(* Each step keeps the counts. *)

\* The counts the invariant relates are numbers.
LEMMA CountTypes ==
    ASSUME PoolInv
    PROVE  /\ Live(threads) \in Nat /\ Held(threads) \in Nat
           /\ Stopping(threads) \in Nat
           /\ Tally(m_pq, "end") \in Nat /\ Tally(m_pq, "pause") \in Nat
           /\ m_total_threads \in Nat /\ m_pause_sem \in Nat /\ left \in Nat /\ target \in Nat
  BY NumOfType, TallyType DEF PoolInv, QueueInv, TypeOK, Live, Held, Stopping

\* The constructor's threads are all there are, and they wait for tasks.
LEMMA InitPool == Init => PoolInv
  <1> SUFFICES ASSUME Init PROVE PoolInv
    OBVIOUS
  <1>1. Cardinality(Tids) \in Nat /\ InitialThreads \in Nat /\ InitialThreads <= Cardinality(Tids)
    BY ThreadPoolAssumption, FS_CardinalityType
  <1>2. m_pq \in Seq(Tasks) /\ KindIn(m_pq, "end") = {} /\ KindIn(m_pq, "pause") = {}
    BY DEF Init, KindIn
  <1>3. Tally(m_pq, "end") = 0 /\ Tally(m_pq, "pause") = 0
    BY <1>2, FS_EmptySet DEF Tally
  <1>4. Live(threads) = InitialThreads
    <2>1. Within(threads, LiveStates) = 0..(InitialThreads - 1)
      BY <1>1, ThreadPoolAssumption DEF Init, Within, LiveStates
    <2> QED BY <1>1, <2>1, FS_Interval DEF NumOf, Live
  <1>5. Stopping(threads) = 0
    <2>1. Within(threads, {"pausing"}) = {}
      BY DEF Init, Within
    <2> QED BY <2>1, FS_EmptySet DEF NumOf, Stopping
  <1>6. TypeOK
    <2>1. {m_paused, quiet, grown} \subseteq BOOLEAN
      BY DEF Init
    <2>2. tasks \in 0..MaxTasks /\ pauses \in 0..MaxPauses /\ resizes \in 0..MaxResizes
      BY ThreadPoolAssumption DEF Init
    <2>3. m_tid \in 0..Cardinality(Tids) /\ m_total_threads \in Nat
      BY <1>1 DEF Init
    <2>4. threads \in [Tids -> ThreadStates]
      BY DEF Init, ThreadStates
    <2> QED BY <2>1, <2>2, <2>3, <2>4 DEF Init, TypeOK
  <1>7. NewTids
    BY <1>1, ThreadPoolAssumption DEF Init, NewTids
  <1>8. DeletedEnded
    BY DEF Init, DeletedEnded
  <1>9. Balanced /\ PauseTokens
    BY <1>1, <1>3, <1>4, <1>5 DEF Init, Balanced, PauseTokens
  <1>10. PauseWaits
    BY DEF Init, PauseWaits
  <1> QED BY <1>2, <1>6, <1>7, <1>8, <1>9, <1>10 DEF PoolInv, QueueInv

\* A thread goes from one place to another.
LEMMA ThreadMoves ==
    ASSUME PoolInv, NEW t \in Tids, NEW v \in ThreadStates,
           threads' = [threads EXCEPT ![t] = v]
    PROVE  /\ threads' \in [Tids -> ThreadStates]
           /\ threads'[t] = v /\ \A u \in Tids \ {t} : threads'[u] = threads[u]
           /\ Live(threads') = Live(threads) - (IF threads[t] \in LiveStates THEN 1 ELSE 0)
                                             + (IF v \in LiveStates THEN 1 ELSE 0)
           /\ Held(threads') = Held(threads) - (IF threads[t] = "waiting" THEN 1 ELSE 0)
                                             + (IF v = "waiting" THEN 1 ELSE 0)
           /\ Stopping(threads') = Stopping(threads) - (IF threads[t] = "pausing" THEN 1 ELSE 0)
                                                     + (IF v = "pausing" THEN 1 ELSE 0)
  <1>1. threads \in [Tids -> ThreadStates]
    BY DEF PoolInv, TypeOK
  <1>2. /\ threads' \in [Tids -> ThreadStates]
        /\ threads'[t] = v /\ \A u \in Tids \ {t} : threads'[u] = threads[u]
    BY <1>1
  <1> DEFINE f == [threads EXCEPT ![t] = v]
  <1>0. \A X : NumOf(f, X) =
               NumOf(threads, X) - (IF threads[t] \in X THEN 1 ELSE 0) + (IF v \in X THEN 1 ELSE 0)
    BY <1>1, MoveThread
  <1>6. threads' = f
    OBVIOUS
  <1> HIDE DEF f
  <1>3. NumOf(f, LiveStates) = NumOf(threads, LiveStates)
            - (IF threads[t] \in LiveStates THEN 1 ELSE 0) + (IF v \in LiveStates THEN 1 ELSE 0)
    BY <1>0
  <1>4. NumOf(f, {"waiting"}) = NumOf(threads, {"waiting"})
            - (IF threads[t] \in {"waiting"} THEN 1 ELSE 0) + (IF v \in {"waiting"} THEN 1 ELSE 0)
    BY <1>0
  <1>5. NumOf(f, {"pausing"}) = NumOf(threads, {"pausing"})
            - (IF threads[t] \in {"pausing"} THEN 1 ELSE 0) + (IF v \in {"pausing"} THEN 1 ELSE 0)
    BY <1>0
  <1>7. /\ threads[t] \in {"waiting"} <=> threads[t] = "waiting"
        /\ v \in {"waiting"} <=> v = "waiting"
        /\ threads[t] \in {"pausing"} <=> threads[t] = "pausing"
        /\ v \in {"pausing"} <=> v = "pausing"
    OBVIOUS
  <1>8. Live(threads') = Live(threads) - (IF threads[t] \in LiveStates THEN 1 ELSE 0)
                                       + (IF v \in LiveStates THEN 1 ELSE 0)
    BY <1>3, <1>6 DEF Live
  <1>9. Held(threads') = Held(threads) - (IF threads[t] = "waiting" THEN 1 ELSE 0)
                                       + (IF v = "waiting" THEN 1 ELSE 0)
    BY <1>4, <1>6, <1>7 DEF Held
  <1>10. Stopping(threads') = Stopping(threads) - (IF threads[t] = "pausing" THEN 1 ELSE 0)
                                                + (IF v = "pausing" THEN 1 ELSE 0)
    BY <1>5, <1>6, <1>7 DEF Stopping
  <1> QED BY <1>2, <1>8, <1>9, <1>10

\* The top task is taken from the queue.
LEMMA TopTaken ==
    ASSUME PoolInv, m_pq # << >>, m_pq' = Remove(m_pq, Top(m_pq))
    PROVE  /\ Top(m_pq) \in DOMAIN m_pq /\ m_pq[Top(m_pq)] \in Tasks /\ m_pq' \in Seq(Tasks)
           /\ \A kind : Tally(m_pq', kind) =
                  Tally(m_pq, kind) - (IF m_pq[Top(m_pq)].kind = kind THEN 1 ELSE 0)
  <1>1. m_pq \in Seq(Tasks)
    BY DEF PoolInv, QueueInv
  <1>2. PICK i \in DOMAIN m_pq : i = Top(m_pq)
    BY <1>1, TopInQueue
  <1>3. m_pq[i] \in Tasks
    BY <1>1
  <1>4. Remove(m_pq, i) \in Seq(Tasks)
    BY <1>1, Removed
  <1>5. \A kind : Tally(Remove(m_pq, i), kind) =
                      Tally(m_pq, kind) - (IF m_pq[i].kind = kind THEN 1 ELSE 0)
    BY <1>1, TallyRemove
  <1> QED BY <1>2, <1>3, <1>4, <1>5

\* The queue's type in TypeOK follows from that of its tasks.
LEMMA TasksType ==
    \A q \in Seq(Tasks) :
        q \in Seq([kind : {"user", "pause", "end"}, priority : Priorities \cup {CRITICAL}])
  <1>1. Tasks \subseteq [kind : {"user", "pause", "end"}, priority : Priorities \cup {CRITICAL}]
    BY DEF Tasks, PauseTask, EndTask, Task
  <1> SUFFICES ASSUME NEW S, NEW T, S \subseteq T, NEW q \in Seq(S) PROVE q \in Seq(T)
    BY <1>1
  <1>2. \A i \in 1..Len(q) : q[i] \in T
    OBVIOUS
  <1>3. q = [i \in 1..Len(q) |-> q[i]] /\ Len(q) \in Nat
    OBVIOUS
  <1> QED BY <1>2, <1>3, IsASeq

\* The task a thread pops leaves the queue, and the thread goes where it belongs.
LEMMA PopKeepsPool ==
    ASSUME PoolInv, NEW t \in Tids, Pop(t) PROVE PoolInv'
  <1> DEFINE kind == m_pq[Top(m_pq)].kind
             v == Start(kind)
  <1>1. /\ threads[t] = "popping" /\ m_pq # << >> /\ threads' = [threads EXCEPT ![t] = v]
        /\ m_pq' = Remove(m_pq, Top(m_pq))
        /\ UNCHANGED <<poolVars, pauseVars, callVars, countVars>>
    BY DEF Pop
  <1>2. /\ m_pq[Top(m_pq)] \in Tasks /\ m_pq' \in Seq(Tasks)
        /\ \A k : Tally(m_pq', k) = Tally(m_pq, k) - (IF kind = k THEN 1 ELSE 0)
    BY <1>1, TopTaken
  <1>3. kind \in {"user", "pause", "end"}
    BY <1>2 DEF Tasks, PauseTask, EndTask, Task
  <1>4. /\ kind = "user" => v = "running"
        /\ kind = "pause" => v = "pausing"
        /\ kind = "end" => v = "exiting"
    BY <1>3 DEF Start
  <1> HIDE DEF kind, v
  <1>5. v \in ThreadStates
    BY <1>3, <1>4 DEF ThreadStates
  <1>6. /\ threads' \in [Tids -> ThreadStates]
        /\ threads'[t] = v /\ \A u \in Tids \ {t} : threads'[u] = threads[u]
    BY <1>1, <1>5, ThreadMoves
  <1>7. /\ threads[t] \in LiveStates
        /\ v \in LiveStates <=> kind # "end"
        /\ v = "pausing" <=> kind = "pause"
        /\ threads[t] # "waiting" /\ threads[t] # "pausing" /\ v # "waiting"
    BY <1>1, <1>3, <1>4 DEF LiveStates
  <1>8. /\ Live(threads') = Live(threads) - 1 + (IF kind = "end" THEN 0 ELSE 1)
        /\ Held(threads') = Held(threads) - 0 + 0
        /\ Stopping(threads') = Stopping(threads) - 0 + (IF kind = "pause" THEN 1 ELSE 0)
    BY <1>1, <1>5, <1>7, ThreadMoves
  <1>9. /\ Tally(m_pq', "end") = Tally(m_pq, "end") - (IF kind = "end" THEN 1 ELSE 0)
        /\ Tally(m_pq', "pause") = Tally(m_pq, "pause") - (IF kind = "pause" THEN 1 ELSE 0)
    BY <1>2
  <1>10. TypeOK' /\ QueueInv'
    BY <1>1, <1>2, <1>6, TasksType DEF PoolInv, TypeOK, QueueInv, poolVars, pauseVars, callVars, countVars
  <1>11. DeletedEnded' /\ NewTids'
    BY <1>1, <1>6 DEF PoolInv, TypeOK, DeletedEnded, NewTids, poolVars, callVars
  <1>12. /\ m_total_threads' = m_total_threads /\ m_pause_sem' = m_pause_sem
         /\ m_paused' = m_paused /\ quiet' = quiet /\ grown' = grown
         /\ call' = call /\ left' = left /\ target' = target
    BY <1>1 DEF poolVars, pauseVars, callVars
  <1>13. /\ Live(threads') - Tally(m_pq', "end") = Live(threads) - Tally(m_pq, "end")
         /\ Stopping(threads') + Tally(m_pq', "pause") = Stopping(threads) + Tally(m_pq, "pause")
         /\ Held(threads') = Held(threads)
         /\ {Live(threads'), Stopping(threads'), Tally(m_pq', "end"), Tally(m_pq', "pause")} \subseteq Int
    BY <1>3, <1>8, <1>9, CountTypes
  <1>14. Balanced'
    BY <1>12, <1>13, CountTypes DEF PoolInv, Balanced
  <1>15. PauseTokens'
    BY <1>12, <1>13, CountTypes DEF PoolInv, PauseTokens
  <1>16. PauseWaits'
    BY <1>12, <1>13, CountTypes DEF PoolInv, PauseWaits
  <1> QED BY <1>10, <1>11, <1>14, <1>15, <1>16 DEF PoolInv

\* A thread goes back to the queue or waits: a token is released exactly when it leaves
\* the pause task, and it waits then if the pool is paused.
LEMMA WorkerKeepsPool ==
    ASSUME PoolInv, NEW t \in Tids, NEW v \in {"popping", "waiting"},
           threads[t] \in {"running", "pausing", "notified"},
           threads' = [threads EXCEPT ![t] = v],
           m_pause_sem' = m_pause_sem + (IF threads[t] = "pausing" THEN 1 ELSE 0),
           threads[t] = "pausing" => v = IF m_paused THEN "waiting" ELSE "popping",
           UNCHANGED <<m_pq, poolVars, m_paused, quiet, grown, callVars, countVars>>
    PROVE  PoolInv'
  <1>1. /\ v \in ThreadStates /\ v \in LiveStates /\ threads[t] \in LiveStates
        /\ threads[t] # "waiting" /\ threads[t] # "ended" /\ threads[t] # "absent" /\ v # "pausing"
    BY DEF ThreadStates, LiveStates
  <1>2. /\ threads' \in [Tids -> ThreadStates]
        /\ threads'[t] = v /\ \A u \in Tids \ {t} : threads'[u] = threads[u]
    BY <1>1, ThreadMoves
  <1>3. /\ Live(threads') = Live(threads) - 1 + 1
        /\ Held(threads') = Held(threads) - 0 + (IF v = "waiting" THEN 1 ELSE 0)
        /\ Stopping(threads') = Stopping(threads) - (IF threads[t] = "pausing" THEN 1 ELSE 0) + 0
    BY <1>1, ThreadMoves
  <1>4. /\ m_pq' = m_pq /\ m_total_threads' = m_total_threads
        /\ m_paused' = m_paused /\ quiet' = quiet /\ grown' = grown
        /\ call' = call /\ left' = left /\ target' = target
        /\ m_deleted_threads' = m_deleted_threads /\ m_tid' = m_tid
    BY DEF poolVars, callVars
  <1>5. m_pause_sem' \in Nat
    BY CountTypes
  <1>6. TypeOK' /\ QueueInv'
    BY <1>2, <1>4, <1>5 DEF PoolInv, TypeOK, QueueInv, countVars
  <1>7. DeletedEnded' /\ NewTids'
    BY <1>1, <1>2, <1>4 DEF PoolInv, TypeOK, DeletedEnded, NewTids
  <1>8. /\ Live(threads') = Live(threads) /\ Held(threads') >= Held(threads)
        /\ Tally(m_pq', "end") = Tally(m_pq, "end") /\ Tally(m_pq', "pause") = Tally(m_pq, "pause")
        /\ Stopping(threads') + m_pause_sem' = Stopping(threads) + m_pause_sem
        /\ m_paused => Held(threads') - m_pause_sem' >= Held(threads) - m_pause_sem
        /\ Held(threads') \in Int /\ Stopping(threads') \in Int
    BY <1>3, <1>4, CountTypes
  <1>9. Balanced'
    BY <1>4, <1>8, CountTypes DEF PoolInv, Balanced
  <1>10. PauseTokens'
    BY <1>4, <1>5, <1>8, CountTypes DEF PoolInv, PauseTokens
  <1>11. PauseWaits'
    BY <1>4, <1>5, <1>8, CountTypes DEF PoolInv, PauseWaits
  <1> QED BY <1>6, <1>7, <1>9, <1>10, <1>11 DEF PoolInv

\* A thread that ends a user's task goes back to the queue.
LEMMA FinishTaskKeepsPool ==
    ASSUME PoolInv, NEW t \in Tids, FinishTask(t) PROVE PoolInv'
  <1>1. m_pause_sem' = m_pause_sem + (IF threads[t] = "pausing" THEN 1 ELSE 0)
    BY CountTypes DEF FinishTask, pauseVars
  <1>2. threads[t] # "pausing" /\ threads[t] \in {"running", "pausing", "notified"}
    BY DEF FinishTask
  <1>3. UNCHANGED <<m_pq, poolVars, m_paused, quiet, grown, callVars, countVars>>
    BY DEF FinishTask, pauseVars
  <1>4. \E v \in {"popping", "waiting"} : threads' = [threads EXCEPT ![t] = v]
    BY DEF FinishTask
  <1> QED BY <1>1, <1>2, <1>3, <1>4, WorkerKeepsPool

\* A thread releases its token and waits.
LEMMA PauseThreadTaskKeepsPool ==
    ASSUME PoolInv, NEW t \in Tids, PauseThreadTask(t) PROVE PoolInv'
  BY WorkerKeepsPool DEF PauseThreadTask

\* A notified thread goes back to the queue, or waits on for the next Resume.
LEMMA WakeUpKeepsPool ==
    ASSUME PoolInv, NEW t \in Tids, WakeUp(t) PROVE PoolInv'
  <1>1. m_pause_sem' = m_pause_sem + (IF threads[t] = "pausing" THEN 1 ELSE 0)
    BY CountTypes DEF WakeUp, pauseVars
  <1>2. threads[t] # "pausing" /\ threads[t] \in {"running", "pausing", "notified"}
    BY DEF WakeUp
  <1>3. UNCHANGED <<m_pq, poolVars, m_paused, quiet, grown, callVars, countVars>>
    BY DEF WakeUp, pauseVars
  <1>4. \E v \in {"popping", "waiting"} : threads' = [threads EXCEPT ![t] = v]
    BY DEF WakeUp
  <1> QED BY <1>1, <1>2, <1>3, <1>4, WorkerKeepsPool

\* The tid of a thread that ends is free for reuse.
LEMMA ExitKeepsPool ==
    ASSUME PoolInv, NEW t \in Tids, Exit(t) PROVE PoolInv'
  <1>1. /\ threads[t] = "exiting" /\ threads' = [threads EXCEPT ![t] = "ended"]
        /\ m_deleted_threads' = Append(m_deleted_threads, t)
        /\ UNCHANGED <<m_pq, m_tid, m_total_threads, pauseVars, callVars, countVars>>
    BY DEF Exit
  <1>2. "ended" \in ThreadStates /\ "ended" \notin LiveStates /\ "exiting" \notin LiveStates
    BY DEF ThreadStates, LiveStates
  <1>3. /\ threads' \in [Tids -> ThreadStates]
        /\ threads'[t] = "ended" /\ \A u \in Tids \ {t} : threads'[u] = threads[u]
    BY <1>1, <1>2, ThreadMoves
  <1>4. /\ Live(threads') = Live(threads) - 0 + 0 /\ Held(threads') = Held(threads) - 0 + 0
        /\ Stopping(threads') = Stopping(threads) - 0 + 0
    BY <1>1, <1>2, ThreadMoves
  <1>5. /\ m_pq' = m_pq /\ m_tid' = m_tid /\ m_total_threads' = m_total_threads
        /\ m_paused' = m_paused /\ quiet' = quiet /\ grown' = grown /\ m_pause_sem' = m_pause_sem
        /\ call' = call /\ left' = left /\ target' = target
    BY <1>1 DEF pauseVars, callVars
  <1>6. m_deleted_threads \in Seq(Tids) /\ Len(m_deleted_threads) \in Nat
    BY DEF PoolInv, TypeOK
  <1>7. /\ m_deleted_threads' \in Seq(Tids)
        /\ DOMAIN m_deleted_threads = 1..Len(m_deleted_threads)
        /\ DOMAIN m_deleted_threads' = 1..(Len(m_deleted_threads) + 1)
        /\ \A i \in 1..Len(m_deleted_threads) :
               m_deleted_threads'[i] = m_deleted_threads[i] /\ m_deleted_threads[i] \in Tids
        /\ m_deleted_threads'[Len(m_deleted_threads) + 1] = t
    BY <1>1, <1>6
  <1>8. TypeOK' /\ QueueInv'
    BY <1>1, <1>3, <1>5, <1>7 DEF PoolInv, TypeOK, QueueInv, countVars
  <1>9. \A i \in DOMAIN m_deleted_threads : threads[m_deleted_threads[i]] = "ended"
    BY DEF PoolInv, DeletedEnded
  <1>10. \A i \in 1..Len(m_deleted_threads) :
             m_deleted_threads[i] \in Tids \ {t} /\ threads'[m_deleted_threads[i]] = "ended"
    BY <1>1, <1>3, <1>7, <1>9
  <1>11. DeletedEnded'
    <2>1. ASSUME NEW i \in DOMAIN m_deleted_threads'
          PROVE  threads'[m_deleted_threads'[i]] = "ended"
      <3>1. i \in 1..Len(m_deleted_threads) \/ i = Len(m_deleted_threads) + 1
        BY <1>6, <1>7
      <3> QED BY <1>3, <1>7, <1>10, <3>1
    <2>2. ASSUME NEW i \in DOMAIN m_deleted_threads', NEW j \in DOMAIN m_deleted_threads',
                 m_deleted_threads'[i] = m_deleted_threads'[j]
          PROVE  i = j
      <3>1. i \in 1..Len(m_deleted_threads) \/ i = Len(m_deleted_threads) + 1
        BY <1>6, <1>7
      <3>2. j \in 1..Len(m_deleted_threads) \/ j = Len(m_deleted_threads) + 1
        BY <1>6, <1>7
      <3> QED BY <1>7, <1>10, <2>2, <3>1, <3>2 DEF PoolInv, DeletedEnded
    <2> QED BY <2>1, <2>2 DEF DeletedEnded
  <1>12. NewTids'
    BY <1>1, <1>3, <1>5 DEF PoolInv, NewTids
  <1>13. /\ Live(threads') = Live(threads) /\ Held(threads') = Held(threads)
         /\ Stopping(threads') = Stopping(threads)
    BY <1>4, CountTypes
  <1>14. Balanced' /\ PauseTokens' /\ PauseWaits'
    BY <1>5, <1>13 DEF PoolInv, Balanced, PauseTokens, PauseWaits
  <1> QED BY <1>8, <1>11, <1>12, <1>14 DEF PoolInv

-------------------------------------------------------------------------------
(* The controlling thread. *)

\* A task is pushed.
LEMMA Pushed ==
    ASSUME PoolInv, NEW x \in Tasks, m_pq' = Append(m_pq, x)
    PROVE  /\ m_pq' \in Seq(Tasks)
           /\ \A kind : Tally(m_pq', kind) = Tally(m_pq, kind) + (IF x.kind = kind THEN 1 ELSE 0)
  <1>1. m_pq \in Seq(Tasks)
    BY DEF PoolInv, QueueInv
  <1>2. \A kind : Tally(Append(m_pq, x), kind) = Tally(m_pq, kind) + (IF x.kind = kind THEN 1 ELSE 0)
    BY <1>1, TallyAppend
  <1> QED BY <1>1, <1>2

\* Users' tasks are not counted.
LEMMA AddTaskKeepsPool ==
    ASSUME PoolInv, NEW priority \in Priorities, AddTask(priority) PROVE PoolInv'
  <1> DEFINE x == Task("user", priority)
  <1>1. /\ m_pq' = Append(m_pq, x) /\ tasks < MaxTasks /\ tasks' = tasks + 1
        /\ UNCHANGED <<threads, poolVars, pauseVars, callVars, pauses, resizes>>
    BY DEF AddTask
  <1>2. x \in Tasks /\ x.kind = "user"
    BY DEF Tasks, Task
  <1> HIDE DEF x
  <1>3. /\ m_pq' \in Seq(Tasks)
        /\ Tally(m_pq', "end") = Tally(m_pq, "end") + 0
        /\ Tally(m_pq', "pause") = Tally(m_pq, "pause") + 0
    BY <1>1, <1>2, Pushed
  <1>4. Tally(m_pq', "end") = Tally(m_pq, "end") /\ Tally(m_pq', "pause") = Tally(m_pq, "pause")
    BY <1>3, CountTypes
  <1>5. tasks' \in 0..MaxTasks
    BY <1>1, ThreadPoolAssumption DEF PoolInv, TypeOK
  <1>6. TypeOK' /\ QueueInv'
    BY <1>1, <1>3, <1>5, TasksType DEF PoolInv, TypeOK, QueueInv, poolVars, pauseVars, callVars
  <1>7. DeletedEnded' /\ NewTids'
    BY <1>1 DEF PoolInv, DeletedEnded, NewTids, poolVars, callVars
  <1>8. Balanced' /\ PauseTokens' /\ PauseWaits'
    BY <1>1, <1>4 DEF PoolInv, Balanced, PauseTokens, PauseWaits, poolVars, pauseVars, callVars
  <1> QED BY <1>6, <1>7, <1>8 DEF PoolInv

\* One iteration of a loop that pushes special tasks.
LEMMA PushKeepsPool ==
    ASSUME PoolInv, NEW during, NEW task, NEW next, PushSpecial(during, task, next),
           \/ during = "pausing" /\ task = PauseTask /\ next = "acquiring"
           \/ during = "shrinking" /\ task = EndTask /\ next = "none"
           \/ during = "destroying" /\ task = EndTask /\ next = "joining"
    PROVE  PoolInv'
  <1>1. /\ call = during
        /\ UNCHANGED <<threads, m_deleted_threads, m_tid, pauseVars, target, countVars>>
        /\ during \in {"pausing", "shrinking", "destroying"}
    BY DEF PushSpecial
  <1>2. task \in Tasks /\ task.kind = (IF during = "pausing" THEN "pause" ELSE "end")
    BY DEF Tasks, PauseTask, EndTask, Task
  <1>3. CASE left > 0
    <2>1. /\ m_pq' = Append(m_pq, task) /\ left' = left - 1
          /\ call' = call /\ m_total_threads' = m_total_threads
      BY <1>3 DEF PushSpecial
    <2>2. /\ m_pq' \in Seq(Tasks)
          /\ \A kind : Tally(m_pq', kind) = Tally(m_pq, kind) + (IF task.kind = kind THEN 1 ELSE 0)
      BY <1>2, <2>1, Pushed
    <2>3. /\ Tally(m_pq', "end") = Tally(m_pq, "end") + (IF during = "pausing" THEN 0 ELSE 1)
          /\ Tally(m_pq', "pause") = Tally(m_pq, "pause") + (IF during = "pausing" THEN 1 ELSE 0)
      BY <1>1, <1>2, <2>2
    <2>4. left' \in Nat /\ Tally(m_pq', "end") \in Nat /\ Tally(m_pq', "pause") \in Nat
      <3>1. left' \in Nat
        BY <1>3, <2>1, CountTypes
      <3>2. Tally(m_pq', "end") \in Nat /\ Tally(m_pq', "pause") \in Nat
        BY <2>3, CountTypes
      <3> QED BY <3>1, <3>2
    <2>5. TypeOK' /\ QueueInv'
      BY <1>1, <2>1, <2>2, <2>4, TasksType DEF PoolInv, TypeOK, QueueInv, pauseVars, countVars
    <2>6. DeletedEnded' /\ NewTids'
      BY <1>1, <2>1 DEF PoolInv, DeletedEnded, NewTids
    <2>7. Balanced'
      BY <1>1, <2>1, <2>3, CountTypes DEF PoolInv, Balanced
    <2>8. PauseTokens'
      <3>1. m_pause_sem' = m_pause_sem /\ threads' = threads
        BY <1>1 DEF pauseVars
      <3>2. CASE during = "pausing"
        <4>1. call = "pausing" /\ call' = "pausing"
          BY <1>1, <2>1, <3>2
        <4>2. Tally(m_pq, "pause") + Stopping(threads) + m_pause_sem = m_total_threads - left
          BY <4>1 DEF PoolInv, PauseTokens
        <4>3. Tally(m_pq', "pause") = Tally(m_pq, "pause") + 1
          BY <2>3, <3>2
        <4>4. Tally(m_pq', "pause") + Stopping(threads) + m_pause_sem
                  = m_total_threads - (left - 1)
          BY <4>2, <4>3, CountTypes
        <4> QED BY <2>1, <3>1, <4>1, <4>4 DEF PauseTokens
      <3>3. CASE during # "pausing"
        <4>1. Tally(m_pq', "pause") = Tally(m_pq, "pause")
          BY <2>3, <3>3, CountTypes
        <4> QED BY <1>1, <2>1, <3>1, <3>3, <4>1 DEF PoolInv, PauseTokens
      <3> QED BY <3>2, <3>3
    <2>9. PauseWaits'
      BY <1>1, <2>1, <2>3, CountTypes DEF PoolInv, PauseWaits, pauseVars
    <2> QED BY <2>5, <2>6, <2>7, <2>8, <2>9 DEF PoolInv
  <1>4. CASE ~(left > 0)
    <2>1. /\ m_pq' = m_pq /\ call' = next /\ left' = m_total_threads /\ left = 0
          /\ m_total_threads' = IF during = "shrinking" THEN target ELSE m_total_threads
      BY <1>4, CountTypes DEF PushSpecial
    <2>2. TypeOK' /\ QueueInv'
      BY <1>1, <2>1 DEF PoolInv, TypeOK, QueueInv, pauseVars, countVars
    <2>3. DeletedEnded' /\ NewTids'
      BY <1>1, <2>1 DEF PoolInv, DeletedEnded, NewTids
    <2>4. Balanced'
      BY <1>1, <2>1, CountTypes DEF PoolInv, Balanced
    <2>5. PauseTokens'
      BY <1>1, <2>1, CountTypes DEF PoolInv, PauseTokens, pauseVars
    <2>6. PauseWaits'
      BY <1>1, <2>1, CountTypes DEF PoolInv, PauseWaits, pauseVars
    <2> QED BY <2>2, <2>3, <2>4, <2>5, <2>6 DEF PoolInv
  <1> QED BY <1>3, <1>4

\* A call of Pause begins without tokens.
LEMMA PauseKeepsPool == ASSUME PoolInv, Pause PROVE PoolInv'
  <1>1. /\ call = "none" /\ pauses < MaxPauses /\ pauses' = pauses + 1
        /\ m_paused' = TRUE /\ call' = "pausing" /\ left' = m_total_threads
        /\ UNCHANGED <<m_pq, threads, poolVars, m_pause_sem, quiet, grown, target, tasks, resizes>>
    BY DEF Pause
  <1>2. pauses' \in 0..MaxPauses
    BY <1>1, ThreadPoolAssumption DEF PoolInv, TypeOK
  <1>3. {m_paused', quiet', grown'} \subseteq BOOLEAN
    BY <1>1 DEF PoolInv, TypeOK
  <1>4. TypeOK' /\ QueueInv'
    BY <1>1, <1>2, <1>3 DEF PoolInv, TypeOK, QueueInv, poolVars
  <1>5. DeletedEnded' /\ NewTids'
    BY <1>1 DEF PoolInv, DeletedEnded, NewTids, poolVars
  <1>6. Balanced'
    BY <1>1 DEF PoolInv, Balanced, poolVars
  <1>7. PauseTokens'
    BY <1>1, CountTypes DEF PoolInv, PauseTokens, poolVars
  <1>8. m_pause_sem = 0
    BY <1>1, CountTypes DEF PoolInv, PauseTokens
  <1>9. PauseWaits'
    BY <1>1, <1>8, CountTypes DEF PoolInv, PauseWaits
  <1> QED BY <1>4, <1>5, <1>6, <1>7, <1>9 DEF PoolInv

\* Pause returns when it has acquired a token for every thread: then all of them wait.
LEMMA PauseAcquireKeepsPool == ASSUME PoolInv, PauseAcquire PROVE PoolInv'
  <1>1. /\ call = "acquiring"
        /\ UNCHANGED <<m_pq, threads, poolVars, m_paused, grown, target, countVars>>
    BY DEF PauseAcquire
  <1>2. DeletedEnded' /\ NewTids' /\ QueueInv'
    <2>1. call' # "growing"
      BY <1>1 DEF PauseAcquire
    <2> QED BY <1>1, <2>1 DEF PoolInv, DeletedEnded, NewTids, QueueInv, poolVars
  <1>3. CASE left > 0
    <2>1. /\ m_pause_sem > 0 /\ m_pause_sem' = m_pause_sem - 1 /\ left' = left - 1
          /\ call' = call /\ quiet' = quiet
      BY <1>3 DEF PauseAcquire
    <2>2. left' \in Nat /\ m_pause_sem' \in Nat
      BY <1>3, <2>1, CountTypes
    <2>3. TypeOK'
      BY <1>1, <2>1, <2>2 DEF PoolInv, TypeOK, poolVars, countVars
    <2>4. Balanced'
      BY <1>1, <2>1 DEF PoolInv, Balanced, poolVars
    <2>5. PauseTokens'
      BY <1>1, <2>1, CountTypes DEF PoolInv, PauseTokens, poolVars
    <2>6. PauseWaits'
      BY <1>1, <2>1, CountTypes DEF PoolInv, PauseWaits, poolVars
    <2> QED BY <1>2, <2>3, <2>4, <2>5, <2>6 DEF PoolInv
  <1>4. CASE ~(left > 0)
    <2>1. /\ call' = "none" /\ quiet' = TRUE /\ left = 0
          /\ m_pause_sem' = m_pause_sem /\ left' = left
      BY <1>4, CountTypes DEF PauseAcquire
    <2>2. {m_paused', quiet', grown'} \subseteq BOOLEAN
      BY <1>1, <2>1 DEF PoolInv, TypeOK
    <2>3. TypeOK'
      BY <1>1, <2>1, <2>2 DEF PoolInv, TypeOK, poolVars, countVars
    <2>4. Balanced'
      BY <1>1, <2>1 DEF PoolInv, Balanced, poolVars
    <2>5. PauseTokens'
      BY <1>1, <2>1, CountTypes DEF PoolInv, PauseTokens, poolVars
    <2>6. Live(threads) <= Held(threads) + Tally(m_pq, "end") /\ m_paused
      BY <1>1, <2>1, CountTypes DEF PoolInv, Balanced, PauseWaits
    <2>7. PauseWaits'
      BY <1>1, <2>1, <2>6 DEF PoolInv, PauseWaits
    <2> QED BY <1>2, <2>3, <2>4, <2>5, <2>7 DEF PoolInv
  <1> QED BY <1>3, <1>4

\* The threads that waited still take tasks.
LEMMA ResumeKeepsPool == ASSUME PoolInv, Resume PROVE PoolInv'
  <1>1. /\ call = "none" /\ m_paused' = FALSE /\ quiet' = FALSE /\ grown' = FALSE
        /\ threads' = [t \in Tids |-> IF threads[t] = "waiting" THEN "notified" ELSE threads[t]]
        /\ UNCHANGED <<m_pq, poolVars, m_pause_sem, callVars, countVars>>
    BY DEF Resume
  <1>2. threads \in [Tids -> ThreadStates]
    BY DEF PoolInv, TypeOK
  <1>3. threads' \in [Tids -> ThreadStates]
    BY <1>1, <1>2 DEF ThreadStates
  <1>4. Live(threads') = Live(threads) /\ Stopping(threads') = Stopping(threads)
    <2>1. Within(threads', LiveStates) = Within(threads, LiveStates)
      BY <1>1, <1>2 DEF Within, LiveStates
    <2>2. Within(threads', {"pausing"}) = Within(threads, {"pausing"})
      BY <1>1, <1>2 DEF Within
    <2> QED BY <2>1, <2>2 DEF Live, Stopping, NumOf
  <1>5. {m_paused', quiet', grown'} \subseteq BOOLEAN
    BY <1>1
  <1>6. TypeOK' /\ QueueInv'
    BY <1>1, <1>3, <1>5 DEF PoolInv, TypeOK, QueueInv, poolVars, callVars, countVars
  <1>7. \A t \in Tids : /\ threads[t] = "ended" => threads'[t] = "ended"
                        /\ threads[t] = "absent" => threads'[t] = "absent"
    BY <1>1
  <1>8. DeletedEnded' /\ NewTids'
    BY <1>1, <1>7 DEF PoolInv, TypeOK, DeletedEnded, NewTids, poolVars, callVars
  <1>9. Balanced'
    BY <1>1, <1>4 DEF PoolInv, Balanced, poolVars, callVars
  <1>10. PauseTokens'
    BY <1>1, <1>4 DEF PoolInv, PauseTokens, poolVars, callVars
  <1>11. PauseWaits'
    BY <1>1 DEF PauseWaits, callVars
  <1> QED BY <1>6, <1>8, <1>9, <1>10, <1>11 DEF PoolInv

\* A call of SetNumThreads begins with the threads to add or to end.
LEMMA SetNumThreadsKeepsPool ==
    ASSUME PoolInv, NEW n \in Sizes, SetNumThreads(n) PROVE PoolInv'
  <1>1. /\ call = "none" /\ resizes < MaxResizes /\ resizes' = resizes + 1 /\ target' = n
        /\ UNCHANGED <<m_pq, threads, poolVars, m_paused, m_pause_sem, quiet, tasks, pauses>>
    BY DEF SetNumThreads
  <1>2. n \in Nat
    BY ThreadPoolAssumption
  <1>3. resizes' \in 0..MaxResizes
    BY <1>1, ThreadPoolAssumption DEF PoolInv, TypeOK
  <1>4. Cardinality(Tids) \in Nat /\ m_tid \in Nat
    BY ThreadPoolAssumption, FS_CardinalityType DEF PoolInv, TypeOK
  <1>5. QueueInv' /\ DeletedEnded'
    BY <1>1 DEF PoolInv, QueueInv, DeletedEnded, poolVars
  <1>6. CASE n > m_total_threads
    <2>1. /\ m_tid + (n - m_total_threads) <= Cardinality(Tids)
          /\ call' = "growing" /\ left' = n - m_total_threads /\ grown' = (grown \/ quiet)
      BY <1>6 DEF SetNumThreads
    <2>2. left' \in Nat
      BY <1>2, <1>6, <2>1, CountTypes
    <2>3. {m_paused', quiet', grown'} \subseteq BOOLEAN
      BY <1>1, <2>1 DEF PoolInv, TypeOK
    <2>4. TypeOK'
      BY <1>1, <1>2, <1>3, <2>1, <2>2, <2>3 DEF PoolInv, TypeOK, poolVars
    <2>5. NewTids'
      BY <1>1, <1>2, <1>4, <2>1, CountTypes DEF PoolInv, NewTids, poolVars
    <2>6. Balanced'
      BY <1>1, <1>2, <2>1, CountTypes DEF PoolInv, Balanced
    <2>7. PauseTokens'
      BY <1>1, <2>1 DEF PoolInv, PauseTokens
    <2>8. PauseWaits'
      BY <1>1, <2>1 DEF PoolInv, PauseWaits
    <2> QED BY <1>5, <2>4, <2>5, <2>6, <2>7, <2>8 DEF PoolInv
  <1>7. CASE ~(n > m_total_threads)
    <2>1. call' = "shrinking" /\ left' = m_total_threads - n /\ grown' = grown
      BY <1>7 DEF SetNumThreads
    <2>2. left' \in Nat
      BY <1>2, <1>7, <2>1, CountTypes
    <2>3. TypeOK'
      BY <1>1, <1>2, <1>3, <2>1, <2>2 DEF PoolInv, TypeOK, poolVars
    <2>4. NewTids'
      BY <1>1, <2>1 DEF PoolInv, NewTids, poolVars
    <2>5. Balanced'
      BY <1>1, <1>2, <2>1, CountTypes DEF PoolInv, Balanced
    <2>6. PauseTokens'
      BY <1>1, <2>1 DEF PoolInv, PauseTokens
    <2>7. PauseWaits'
      BY <1>1, <2>1 DEF PoolInv, PauseWaits
    <2> QED BY <1>5, <2>3, <2>4, <2>5, <2>6, <2>7 DEF PoolInv
  <1> QED BY <1>6, <1>7

\* A thread is added at a tid that no live thread has.
LEMMA AddThreadKeepsPool == ASSUME PoolInv, AddThreadToPool PROVE PoolInv'
  <1>1. /\ call = "growing" /\ left > 0 /\ left' = left - 1
        /\ UNCHANGED <<m_pq, m_total_threads, pauseVars, call, target, countVars>>
    BY DEF AddThreadToPool
  <1>2. Cardinality(Tids) \in Nat /\ m_tid \in Nat /\ left \in Nat
    BY ThreadPoolAssumption, FS_CardinalityType DEF PoolInv, TypeOK
  <1>3. m_tid + left <= Cardinality(Tids)
    BY <1>1 DEF PoolInv, NewTids
  <1> DEFINE reuse == m_deleted_threads # << >>
  <1>4. m_deleted_threads \in Seq(Tids)
    BY DEF PoolInv, TypeOK
  <1>5. PICK t \in Tids :
            /\ threads' = [threads EXCEPT ![t] = "popping"]
            /\ t = IF reuse THEN Head(m_deleted_threads) ELSE m_tid
    <2>1. CASE reuse
      <3>1. Head(m_deleted_threads) \in Tids
        BY <1>4, <2>1
      <3> QED BY <2>1, <3>1 DEF AddThreadToPool
    <2>2. CASE ~reuse
      <3>1. m_tid \in Tids
        BY <1>1, <1>2, <1>3, ThreadPoolAssumption
      <3> QED BY <2>2, <3>1 DEF AddThreadToPool
    <2> QED BY <2>1, <2>2
  <1>6. threads[t] = IF reuse THEN "ended" ELSE "absent"
    <2>1. CASE reuse
      <3>1. 1 \in DOMAIN m_deleted_threads /\ Head(m_deleted_threads) = m_deleted_threads[1]
        BY <1>4, <2>1
      <3> QED BY <1>5, <2>1, <3>1 DEF PoolInv, DeletedEnded
    <2>2. CASE ~reuse
      BY <1>2, <1>5, <2>2 DEF PoolInv, NewTids
    <2> QED BY <2>1, <2>2
  <1>7. /\ "popping" \in ThreadStates /\ "popping" \in LiveStates
        /\ threads[t] \notin LiveStates /\ threads[t] # "waiting" /\ threads[t] # "pausing"
    BY <1>6 DEF ThreadStates, LiveStates
  <1>8. /\ threads' \in [Tids -> ThreadStates]
        /\ threads'[t] = "popping" /\ \A u \in Tids \ {t} : threads'[u] = threads[u]
    BY <1>5, <1>7, ThreadMoves
  <1>9. /\ Live(threads') = Live(threads) - 0 + 1
        /\ Held(threads') = Held(threads) - 0 + 0
        /\ Stopping(threads') = Stopping(threads) - 0 + 0
    BY <1>5, <1>7, ThreadMoves
  <1>10. /\ Live(threads') = Live(threads) + 1 /\ Held(threads') = Held(threads)
         /\ Stopping(threads') = Stopping(threads) /\ left' \in Nat
    BY <1>1, <1>9, CountTypes
  <1>11. /\ m_deleted_threads' \in Seq(Tids) /\ m_tid' \in 0..Cardinality(Tids) /\ DeletedEnded'
         /\ (\A u \in Tids : u >= m_tid' => threads'[u] = "absent")
         /\ m_tid' <= m_tid + 1
    <2>1. CASE reuse
      <3>1. m_deleted_threads' = Tail(m_deleted_threads) /\ m_tid' = m_tid
        BY <2>1 DEF AddThreadToPool
      <3>2. /\ m_deleted_threads' \in Seq(Tids) /\ Len(m_deleted_threads) \in Nat
            /\ DOMAIN m_deleted_threads = 1..Len(m_deleted_threads)
            /\ DOMAIN m_deleted_threads' = 1..(Len(m_deleted_threads) - 1)
            /\ 1 \in DOMAIN m_deleted_threads /\ t = m_deleted_threads[1]
            /\ \A i \in 1..(Len(m_deleted_threads) - 1) :
                   /\ m_deleted_threads'[i] = m_deleted_threads[i + 1]
                   /\ i + 1 \in DOMAIN m_deleted_threads
                   /\ m_deleted_threads[i + 1] \in Tids
        BY <1>4, <1>5, <2>1, <3>1
      <3>3. ASSUME NEW i \in DOMAIN m_deleted_threads'
            PROVE  threads'[m_deleted_threads'[i]] = "ended"
        <4>1. m_deleted_threads'[i] = m_deleted_threads[i + 1] /\ i + 1 \in DOMAIN m_deleted_threads
          BY <3>2
        <4>2. m_deleted_threads[i + 1] \in Tids \ {t}
          BY <3>2, <4>1 DEF PoolInv, DeletedEnded
        <4> QED BY <1>8, <4>1, <4>2 DEF PoolInv, DeletedEnded
      <3>4. ASSUME NEW i \in DOMAIN m_deleted_threads', NEW j \in DOMAIN m_deleted_threads',
                   m_deleted_threads'[i] = m_deleted_threads'[j]
            PROVE  i = j
        <4>1. i + 1 = j + 1
          BY <3>2, <3>4 DEF PoolInv, DeletedEnded
        <4> QED BY <3>2, <4>1
      <3>5. \A u \in Tids : u >= m_tid' => threads'[u] = "absent"
        <4> SUFFICES ASSUME NEW u \in Tids, u >= m_tid PROVE threads'[u] = "absent"
          BY <3>1
        <4>1. threads[u] = "absent"
          BY DEF PoolInv, NewTids
        <4>2. u # t
          BY <1>6, <2>1, <4>1
        <4> QED BY <1>8, <4>1, <4>2
      <3>6. m_tid' \in 0..Cardinality(Tids) /\ m_tid' <= m_tid + 1
        BY <1>2, <3>1 DEF PoolInv, TypeOK
      <3> QED BY <3>2, <3>3, <3>4, <3>5, <3>6 DEF DeletedEnded
    <2>2. CASE ~reuse
      <3>1. m_deleted_threads' = m_deleted_threads /\ m_tid' = m_tid + 1 /\ t = m_tid
        BY <1>5, <2>2 DEF AddThreadToPool
      <3>2. m_tid' \in 0..Cardinality(Tids) /\ m_tid' <= m_tid + 1
        BY <1>1, <1>2, <1>3, <3>1
      <3>3. DOMAIN m_deleted_threads' = {}
        BY <2>2, <3>1
      <3>4. DeletedEnded'
        BY <3>3 DEF DeletedEnded
      <3>5. \A u \in Tids : u >= m_tid' => threads'[u] = "absent"
        <4> SUFFICES ASSUME NEW u \in Tids, u >= m_tid + 1 PROVE threads'[u] = "absent"
          BY <3>1
        <4>1. u \in Int
          <5>1. Tids = 0..(Cardinality(Tids) - 1)
            BY ThreadPoolAssumption
          <5> QED BY <1>2, <5>1
        <4>2. u >= m_tid /\ u # t
          BY <1>2, <3>1, <4>1
        <4> QED BY <1>8, <4>2 DEF PoolInv, NewTids
      <3> QED BY <1>4, <3>1, <3>2, <3>4, <3>5
    <2> QED BY <2>1, <2>2
  <1>12. TypeOK' /\ QueueInv'
    BY <1>1, <1>8, <1>10, <1>11 DEF PoolInv, TypeOK, QueueInv, pauseVars, countVars
  <1>13. NewTids'
    <2>1. m_tid' + left' <= Cardinality(Tids)
      BY <1>1, <1>2, <1>3, <1>11
    <2> QED BY <1>11, <2>1 DEF NewTids
  <1>14. Balanced'
    BY <1>1, <1>10, CountTypes DEF PoolInv, Balanced
  <1>15. PauseTokens'
    BY <1>1, <1>10 DEF PoolInv, PauseTokens, pauseVars
  <1>16. PauseWaits'
    BY <1>1, <1>10 DEF PoolInv, PauseWaits, pauseVars
  <1> QED BY <1>11, <1>12, <1>13, <1>14, <1>15, <1>16 DEF PoolInv

\* The calls that only change what the controlling thread executes.
LEMMA ReturnsKeepsPool ==
    ASSUME PoolInv, SetNumThreadsReturns \/ Destroy \/ Join PROVE PoolInv'
  <1>1. CASE SetNumThreadsReturns
    <2>1. /\ call = "growing" /\ left = 0 /\ m_total_threads' = target /\ call' = "none"
          /\ UNCHANGED <<m_pq, threads, m_deleted_threads, m_tid, pauseVars, left, target, countVars>>
      BY <1>1 DEF SetNumThreadsReturns
    <2>2. TypeOK' /\ QueueInv'
      BY <2>1 DEF PoolInv, TypeOK, QueueInv, pauseVars, countVars
    <2>3. DeletedEnded' /\ NewTids'
      BY <2>1 DEF PoolInv, DeletedEnded, NewTids
    <2>4. Balanced'
      BY <2>1, CountTypes DEF PoolInv, Balanced
    <2>5. PauseTokens'
      BY <2>1 DEF PoolInv, PauseTokens, pauseVars
    <2>6. PauseWaits'
      BY <2>1 DEF PoolInv, PauseWaits, pauseVars
    <2> QED BY <2>2, <2>3, <2>4, <2>5, <2>6 DEF PoolInv
  <1>2. CASE Destroy \/ Join
    <2>1. /\ call \in {"none", "joining"} /\ call' \in {"destroying", "destroyed"}
          /\ left' \in {left, m_total_threads}
          /\ UNCHANGED <<m_pq, threads, poolVars, pauseVars, target, countVars>>
      BY <1>2 DEF Destroy, Join
    <2>2. left' \in Nat
      BY <2>1, CountTypes
    <2>3. TypeOK' /\ QueueInv'
      BY <2>1, <2>2 DEF PoolInv, TypeOK, QueueInv, poolVars, pauseVars, countVars
    <2>4. DeletedEnded' /\ NewTids'
      BY <2>1 DEF PoolInv, DeletedEnded, NewTids, poolVars
    <2>5. Balanced'
      BY <2>1 DEF Balanced
    <2>6. PauseTokens'
      BY <2>1 DEF PoolInv, PauseTokens, pauseVars
    <2>7. PauseWaits'
      BY <2>1 DEF PoolInv, PauseWaits, pauseVars
    <2> QED BY <2>3, <2>4, <2>5, <2>6, <2>7 DEF PoolInv
  <1> QED BY <1>1, <1>2

-------------------------------------------------------------------------------
\* Every step of the pool keeps its balance.
LEMMA StepKeepsPool == PoolInv /\ [Next]_vars => PoolInv'
  <1> SUFFICES ASSUME PoolInv, [Next]_vars PROVE PoolInv'
    OBVIOUS
  <1>1. ASSUME NEW t \in Tids, Thread(t) PROVE PoolInv'
    BY <1>1, PopKeepsPool, FinishTaskKeepsPool, PauseThreadTaskKeepsPool, WakeUpKeepsPool,
       ExitKeepsPool DEF Thread
  <1>2. CASE Proceed
    <2>1. CASE PausePush
      BY <2>1, PushKeepsPool DEF PausePush
    <2>2. CASE RemoveThreadsFromPool
      BY <2>2, PushKeepsPool DEF RemoveThreadsFromPool
    <2>3. CASE DestroyPush
      BY <2>3, PushKeepsPool DEF DestroyPush
    <2> QED BY <1>2, <2>1, <2>2, <2>3, PauseAcquireKeepsPool, AddThreadKeepsPool,
               ReturnsKeepsPool DEF Proceed
  <1>3. ASSUME NEW priority \in Priorities, AddTask(priority) PROVE PoolInv'
    BY <1>3, AddTaskKeepsPool
  <1>4. ASSUME NEW n \in Sizes, SetNumThreads(n) PROVE PoolInv'
    BY <1>4, SetNumThreadsKeepsPool
  <1>5. CASE Pause \/ Resume \/ Destroy
    BY <1>5, PauseKeepsPool, ResumeKeepsPool, ReturnsKeepsPool
  <1>6. CASE UNCHANGED vars
    <2>1. TypeOK' /\ QueueInv'
      BY <1>6 DEF PoolInv, TypeOK, QueueInv, vars, poolVars, pauseVars, callVars, countVars
    <2>2. DeletedEnded' /\ NewTids'
      BY <1>6 DEF PoolInv, DeletedEnded, NewTids, vars, poolVars, callVars
    <2>3. Balanced' /\ PauseTokens' /\ PauseWaits'
      BY <1>6 DEF PoolInv, Balanced, PauseTokens, PauseWaits, vars, poolVars, pauseVars, callVars
    <2> QED BY <2>1, <2>2, <2>3 DEF PoolInv
  <1> QED BY <1>1, <1>2, <1>3, <1>4, <1>5, <1>6 DEF Next

\* The balance is an invariant of the pool.
THEOREM PoolInvariant == Spec => []PoolInv
  <1> QED BY InitPool, StepKeepsPool, PTL DEF Spec

\* Between calls, m_total_threads is the number of live threads that no end task is meant
\* for, for any number of threads, tasks, pauses and resizes: the loops of Pause, of
\* RemoveThreadsFromPool and of the destructor push as many special tasks as there are
\* threads to take them.
THEOREM ThreadsAlwaysBalance == Spec => []ThreadsBalance
  <1>1. ASSUME PoolInv PROVE ThreadsBalance
    <2> DEFINE L == Within(threads, LiveStates)
               X == Within(threads, {"exiting"})
               A == {t \in Tids : Alive(t)}
    <2>1. threads \in [Tids -> ThreadStates] /\ TypeOK
      BY <1>1 DEF PoolInv, TypeOK
    <2>2. A = L \cup X /\ L \cap X = {}
      BY <2>1 DEF Alive, Within, LiveStates, ThreadStates
    <2>3. IsFiniteSet(L) /\ IsFiniteSet(X) /\ Cardinality(L) \in Nat /\ Cardinality(X) \in Nat
      BY NumOfType DEF NumOf
    <2>4. Cardinality(A) = Cardinality(L) + Cardinality(X)
      <3>1. Cardinality(L \cup X) = Cardinality(L) + Cardinality(X) - Cardinality(L \cap X)
        BY <2>3, FS_Union
      <3> HIDE DEF L, X, A
      <3> QED BY <2>2, <2>3, <3>1, FS_EmptySet
    <2>5. Count("exiting") = Cardinality(X) /\ Queued("end") = Tally(m_pq, "end")
      <3>1. X = {t \in Tids : threads[t] = "exiting"}
        BY DEF Within
      <3> QED BY <3>1 DEF Count, Queued, Tally, KindIn
    <2>6. Cardinality(L) = Live(threads)
      BY DEF Live, NumOf
    <2>7. call = "none" => Live(threads) = m_total_threads + Tally(m_pq, "end")
      BY <1>1 DEF PoolInv, Balanced
    <2> HIDE DEF L, X, A
    <2>8. call = "none" => Cardinality(A) - Count("exiting") - Queued("end") = m_total_threads
      BY <1>1, <2>3, <2>4, <2>5, <2>6, <2>7, CountTypes
    <2> QED BY <2>1, <2>8 DEF ThreadsBalance, A
  <1> QED BY <1>1, PoolInvariant, PTL

\* While an end task is queued, the task on top is not a user's.
LEMMA EndOnTop ==
    ASSUME NEW q \in Seq(Tasks), Tally(q, "end") >= 1
    PROVE  q[Top(q)].kind # "user"
  <1>1. PICK e \in DOMAIN q : q[e].kind = "end"
    <2>1. KindIn(q, "end") # {}
      BY FS_EmptySet DEF Tally
    <2> QED BY <2>1 DEF KindIn
  <1>2. q[e].priority = 4
    <2>1. q[e] \in Tasks
      OBVIOUS
    <2> QED BY <1>1, <2>1 DEF Tasks, PauseTask, EndTask, Task, CRITICAL
  <1>3. PICK p \in DOMAIN q : p = Top(q) /\ q[e].priority <= q[p].priority
    <2>1. q # << >>
      BY <1>1
    <2> QED BY <1>1, <2>1, TopInQueue
  <1>4. q[p] \in Tasks
    OBVIOUS
  <1>5. q[p].kind # "user"
    BY <1>2, <1>3, <1>4 DEF Tasks, Priorities, PauseTask, EndTask, Task
  <1> QED BY <1>3, <1>5

\* In a pool whose Pause has returned, and to which no threads were added since, whoever
\* is not waiting finds an end task in the queue, and that overtakes the users' tasks: no
\* thread starts one before Resume.
THEOREM PausedStartsNothing == Spec => NoStartWhilePaused
  <1> DEFINE Quiet == quiet /\ ~grown =>
                 \A t \in Tids : threads[t] = "popping" => threads'[t] # "running"
  <1>1. ASSUME PoolInv, [Next]_vars PROVE [Quiet]_vars
    <2> SUFFICES ASSUME quiet, ~grown, Next, NEW t \in Tids, threads[t] = "popping",
                        threads'[t] = "running"
                 PROVE  FALSE
      BY <1>1
    <2>1. threads \in [Tids -> ThreadStates]
      BY <1>1 DEF PoolInv, TypeOK
    <2>2. Pop(t)
      <3>1. ASSUME NEW u \in Tids, Thread(u) PROVE Pop(t)
        <4>1. CASE Pop(u)
          BY <2>1, <4>1 DEF Pop
        <4>2. CASE FinishTask(u)
          BY <2>1, <4>2 DEF FinishTask
        <4>3. CASE PauseThreadTask(u)
          BY <2>1, <4>3 DEF PauseThreadTask
        <4>4. CASE WakeUp(u)
          BY <2>1, <4>4 DEF WakeUp
        <4>5. CASE Exit(u)
          BY <2>1, <4>5 DEF Exit
        <4> QED BY <3>1, <4>1, <4>2, <4>3, <4>4, <4>5 DEF Thread
      <3>2. CASE Proceed
        <4>1. CASE AddThreadToPool
          BY <2>1, <4>1 DEF AddThreadToPool
        <4>2. CASE UNCHANGED threads
          BY <4>2
        <4> QED BY <3>2, <4>1, <4>2 DEF Proceed, PausePush, RemoveThreadsFromPool, DestroyPush,
                   PushSpecial, PauseAcquire, SetNumThreadsReturns, Join
      <3>3. CASE Resume
        BY <2>1, <3>3 DEF Resume
      <3>4. CASE \/ \E priority \in Priorities : AddTask(priority)
                 \/ \E n \in Sizes : SetNumThreads(n)
                 \/ Pause \/ Destroy
        BY <3>4 DEF AddTask, SetNumThreads, Pause, Destroy
      <3> QED BY <3>1, <3>2, <3>3, <3>4 DEF Next
    <2>3. Live(threads) >= Held(threads) + 1
      <3>1. threads[t] \in LiveStates \ {"waiting"}
        BY DEF LiveStates
      <3> QED BY <3>1, NotWaiting
    <2>4. Live(threads) <= Held(threads) + Tally(m_pq, "end")
      BY <1>1 DEF PoolInv, PauseWaits
    <2>5. Tally(m_pq, "end") >= 1
      BY <1>1, <2>3, <2>4, CountTypes
    <2>6. m_pq[Top(m_pq)].kind # "user"
      BY <1>1, <2>5, EndOnTop DEF PoolInv, QueueInv
    <2>7. m_pq[Top(m_pq)] \in Tasks
      BY <1>1, <2>2, TopTaken DEF Pop
    <2> DEFINE kind == m_pq[Top(m_pq)].kind
    <2>8. kind \in {"pause", "end"}
      BY <2>6, <2>7 DEF Tasks, PauseTask, EndTask, Task
    <2>9. threads'[t] = Start(kind)
      BY <2>1, <2>2 DEF Pop
    <2> HIDE DEF kind
    <2> QED BY <2>8, <2>9 DEF Start
  <1>2. PoolInv /\ [Next]_vars => [Quiet]_vars
    BY <1>1
  <1> QED BY <1>2, PoolInvariant, PTL DEF Spec, NoStartWhilePaused
-------------------------------------------------------------------------------
(***************************************************************************)
(* The logger, for any number of threads that log and any number of        *)
(* messages.                                                               *)
(***************************************************************************)

\* The message LoggerRun has popped and not written yet.
InHand == IF pc = "write" THEN <<log>> ELSE << >>

\* What has been pushed is in the file, in the logger thread's hand or in the queue, in
\* this order; the thread gives up only on an empty queue nobody pushes to any more.
LoggerInv ==
    /\ LoggerTypeOK
    /\ pushed = (file \o InHand) \o m_queue
    /\ m_running <=> dtor \in {"none", "pushed"}
    /\ pc = "empty" => ~m_running
    /\ pc = "returned" => ~m_running /\ m_queue = << >>
    /\ dtor = "joined" => pc = "returned"

\* Push puts a message behind the queue.
LEMMA AppendConcat ==
    ASSUME NEW S, NEW s \in Seq(S), NEW e \in S
    PROVE  Append(s, e) = s \o <<e>> /\ Append(s, e) \in Seq(S) /\ <<e>> \in Seq(S)
  OBVIOUS

\* Pop takes the first message from the queue.
LEMMA HeadTailConcat ==
    ASSUME NEW S, NEW s \in Seq(S), s # << >>
    PROVE  s = <<Head(s)>> \o Tail(s) /\ Head(s) \in S /\ Tail(s) \in Seq(S)
  OBVIOUS

\* Nothing is logged at first.
LEMMA InitEstablishesLoggerInv ==
    ASSUME LoggerInit PROVE LoggerInv
  <1>1. LoggerTypeOK
    BY LoggerAssumption DEF LoggerInit, LoggerTypeOK, Messages
  <1>2. << >> = (<< >> \o << >>) \o << >>
    OBVIOUS
  <1> QED BY <1>1, <1>2 DEF LoggerInit, LoggerInv, InHand

\* Pushing keeps the order.
LEMMA PushKeepsOrder ==
    ASSUME LoggerInv, NEW message \in Messages, Push(message),
           UNCHANGED <<pc, log, file>>
    PROVE  /\ m_queue' \in Seq(Messages) /\ pushed' \in Seq(Messages)
           /\ pushed' = ((file \o InHand) \o m_queue)'
  <1> DEFINE front == file \o InHand
  <1>1. /\ m_queue \in Seq(Messages) /\ pushed \in Seq(Messages)
        /\ file \in Seq(Messages)
        /\ log \in Messages /\ pushed = front \o m_queue
    BY DEF LoggerInv, LoggerTypeOK
  <1>2. InHand \in Seq(Messages) /\ front \in Seq(Messages) /\ InHand' = InHand
    BY <1>1 DEF InHand
  <1>3. /\ pushed' = pushed \o <<message>> /\ m_queue' = m_queue \o <<message>>
        /\ <<message>> \in Seq(Messages)
    BY <1>1, AppendConcat DEF Push
  <1> HIDE DEF front
  <1>4. (front \o m_queue) \o <<message>> = front \o (m_queue \o <<message>>)
    BY <1>1, <1>2, <1>3, ConcatAssociative
  <1>5. /\ m_queue' \in Seq(Messages) /\ pushed' \in Seq(Messages)
    BY <1>1, <1>3, ConcatProperties
  <1> QED BY <1>1, <1>2, <1>3, <1>4, <1>5 DEF front

\* Every step of the clients, the thread and the destructor keeps the invariant.
LEMMA NextPreservesLoggerInv ==
    ASSUME LoggerInv, [LoggerNext]_loggerVars
    PROVE  LoggerInv'
  <1>1. /\ m_queue \in Seq(Messages) /\ file \in Seq(Messages)
        /\ log \in Messages
        /\ pushed \in Seq(Messages)
        /\ pushed = (file \o InHand) \o m_queue
    BY DEF LoggerInv, LoggerTypeOK
  <1>2. ASSUME NEW c \in Clients, Log(c) PROVE LoggerInv'
    <2>1. logged[c] \in 0..MaxMessages /\ logged[c] < MaxMessages
      BY <1>2 DEF LoggerInv, LoggerTypeOK, Log
    <2>2. logged[c] + 1 \in 1..MaxMessages
      BY <2>1, LoggerAssumption
    <2>3. <<c, logged[c] + 1>> \in Messages
      BY <2>2 DEF Messages
    <2>4. /\ m_queue' \in Seq(Messages) /\ pushed' \in Seq(Messages)
          /\ pushed' = ((file \o InHand) \o m_queue)'
      BY <1>2, <2>3, PushKeepsOrder DEF Log
    <2>5. logged' \in [Clients -> 0..MaxMessages]
      BY <1>2, <2>2 DEF LoggerInv, LoggerTypeOK, Log
    <2>6. pc # "returned" /\ m_running
      BY <1>2 DEF LoggerInv, Log
    <2>7. LoggerTypeOK'
      BY <1>2, <2>4, <2>5 DEF LoggerInv, LoggerTypeOK, Log, Messages
    <2> QED BY <1>2, <2>4, <2>6, <2>7 DEF LoggerInv, Log
  <1>3. CASE TestRunning
    <2>1. InHand' = InHand
      BY <1>3 DEF TestRunning, InHand
    <2> QED BY <1>3, <2>1 DEF LoggerInv, LoggerTypeOK, TestRunning, Messages
  <1>4. CASE TestEmpty
    <2>1. InHand' = InHand
      BY <1>4 DEF TestEmpty, InHand
    <2> QED BY <1>4, <2>1 DEF LoggerInv, LoggerTypeOK, TestEmpty, Messages
  <1>5. CASE PopMessage
    <2>1. /\ m_queue = <<log'>> \o m_queue' /\ log' \in Messages
          /\ m_queue' \in Seq(Messages)
      BY <1>1, <1>5, HeadTailConcat DEF PopMessage
    <2>2. InHand = << >> /\ InHand' = <<log'>>
      BY <1>5 DEF PopMessage, InHand
    <2>3. file \o << >> = file /\ <<log'>> \in Seq(Messages)
      BY <1>1, <2>1, ConcatEmptySeq
    <2>4. file \o (<<log'>> \o m_queue') = (file \o <<log'>>) \o m_queue'
      <3>1. \A s, t, v \in Seq(Messages) : s \o (t \o v) = (s \o t) \o v
        BY ConcatAssociative
      <3> QED BY <1>1, <2>1, <2>3, <3>1
    <2>5. pushed' = ((file \o InHand) \o m_queue)'
      BY <1>1, <1>5, <2>1, <2>2, <2>3, <2>4 DEF PopMessage
    <2>6. LoggerTypeOK'
      BY <1>5, <2>1 DEF LoggerInv, LoggerTypeOK, PopMessage, Messages
    <2> QED BY <1>5, <2>5, <2>6 DEF LoggerInv, PopMessage
  <1>6. CASE LogMessageTask
    <2>1. InHand = <<log>> /\ InHand' = << >>
      BY <1>6 DEF LogMessageTask, InHand
    <2>2. file' = file \o <<log>> /\ file' \in Seq(Messages)
      BY <1>1, <1>6, AppendConcat DEF LogMessageTask
    <2>3. file' \o << >> = file'
      BY <2>2, ConcatEmptySeq
    <2>4. pushed' = ((file \o InHand) \o m_queue)'
      BY <1>1, <1>6, <2>1, <2>2, <2>3 DEF LogMessageTask
    <2>5. LoggerTypeOK'
      BY <1>6, <2>2 DEF LoggerInv, LoggerTypeOK, LogMessageTask, Messages
    <2> QED BY <1>6, <2>4, <2>5 DEF LoggerInv, LogMessageTask
  <1>7. CASE DestructorPush
    <2>1. ShutDown \in Messages
      BY DEF Messages
    <2>2. /\ m_queue' \in Seq(Messages) /\ pushed' \in Seq(Messages)
          /\ pushed' = ((file \o InHand) \o m_queue)'
      BY <1>7, <2>1, PushKeepsOrder DEF DestructorPush
    <2>3. pc # "returned" /\ m_running
      BY <1>7 DEF LoggerInv, DestructorPush
    <2>4. LoggerTypeOK'
      BY <1>7, <2>2 DEF LoggerInv, LoggerTypeOK, DestructorPush, Messages
    <2> QED BY <1>7, <2>2, <2>3, <2>4 DEF LoggerInv, DestructorPush
  <1>8. CASE DestructorClear
    <2>1. InHand' = InHand /\ pc # "returned"
      BY <1>8 DEF DestructorClear, InHand, LoggerInv
    <2> QED BY <1>8, <2>1 DEF LoggerInv, LoggerTypeOK, DestructorClear, Messages
  <1>9. CASE DestructorJoin
    <2>1. InHand' = InHand
      BY <1>9 DEF DestructorJoin, InHand
    <2> QED BY <1>9, <2>1 DEF LoggerInv, LoggerTypeOK, DestructorJoin, Messages
  <1>10. CASE UNCHANGED loggerVars
    <2>1. InHand' = InHand
      BY <1>10 DEF loggerVars, InHand
    <2> QED BY <1>10, <2>1 DEF LoggerInv, LoggerTypeOK, loggerVars, Messages
  <1> QED BY <1>2, <1>3, <1>4, <1>5, <1>6, <1>7, <1>8, <1>9,
             <1>10 DEF LoggerNext, LoggerRun, Destructor

\* The file is a prefix of what was pushed, and all of it once the destructor has joined
\* the thread: the destructor's unsynchronised m_running cannot make LoggerRun leave a
\* message in the queue, however its accesses interleave with the loop's two tests.
THEOREM LoggerLosesNothing == LoggerSpec => []NothingLost
  <1>1. LoggerInv => NothingLost
    <2> SUFFICES ASSUME LoggerInv PROVE NothingLost
      OBVIOUS
    <2> DEFINE rest == InHand \o m_queue
    <2>1. /\ m_queue \in Seq(Messages) /\ file \in Seq(Messages)
          /\ log \in Messages
          /\ LoggerTypeOK /\ pushed = (file \o InHand) \o m_queue
      BY DEF LoggerInv, LoggerTypeOK
    <2>2. InHand \in Seq(Messages) /\ rest \in Seq(Messages)
      BY <2>1 DEF InHand
    <2>3. pushed = file \o rest
      <3>1. \A s, t, v \in Seq(Messages) : (s \o t) \o v = s \o (t \o v)
        BY ConcatAssociative
      <3>2. (file \o InHand) \o m_queue = file \o (InHand \o m_queue)
        BY <2>1, <2>2, <3>1, Zenon
      <3> QED BY <2>1, <3>2
    <2> HIDE DEF rest
    <2>4. SequenceOps!IsPrefix(file, pushed)
      <3>1. Len(pushed) = Len(file) + Len(rest) /\ Len(file) \in Nat /\ Len(rest) \in Nat
        BY <2>1, <2>2, <2>3, ConcatProperties
      <3>2. SubSeq(file, 1, Len(file)) = SubSeq(pushed, 1, Len(file))
        <4>1. CASE Len(file) = 0
          BY <4>1, SubSeqEmpty
        <4>2. CASE Len(file) # 0
          BY <2>1, <2>2, <2>3, <3>1, <4>2, SubSeqOfConcat1
        <4> QED BY <4>1, <4>2
      <3> QED BY <3>1, <3>2 DEF SequenceOps!IsPrefix
    <2>5. ASSUME dtor = "joined" PROVE file = pushed
      <3>1. InHand = << >> /\ m_queue = << >>
        BY <2>5 DEF LoggerInv, InHand
      <3> QED BY <2>1, <3>1, ConcatEmptySeq
    <2> QED BY <2>1, <2>4, <2>5 DEF NothingLost, SequenceOps!IsPrefix
  <1>2. LoggerInit => LoggerInv
    BY InitEstablishesLoggerInv
  <1>3. LoggerInv /\ [LoggerNext]_loggerVars => LoggerInv'
    BY NextPreservesLoggerInv
  <1> QED BY <1>1, <1>2, <1>3, PTL DEF LoggerSpec
===============================================================================
