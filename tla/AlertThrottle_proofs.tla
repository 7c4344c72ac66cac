------------------------ MODULE AlertThrottle_proofs ------------------------
(***************************************************************************)
(* The alerts of failed executions, for any number of automations and of   *)
(* threads, any tiers, any size of the table and of the pool's queue.      *)
(***************************************************************************)
EXTENDS AlertThrottle, FiniteSetTheorems, WellFoundedInduction, TLAPS

\* An automation that is not in the table is past every cooldown.
Rested == \A a \in Automation : alert[a].count = 0 => alert[a].age = Longest

\* Outside a cooldown no alert is counted but those still being dispatched.
BurstIsOut ==
  \A a \in Automation : ~Throttled(a) => burst[a] <= Cardinality(Dispatching(a))

Waiting(a) == {i \in DOMAIN queue : queue[i] = a}

\* What is marked, being dispatched or waiting came from failures since the last
\* success, but for what was dispatched or waiting then.
CountInv ==
  \A a \in Automation :
    \/ failures[a] = Most
    \/ alert[a].count + Cardinality(Dispatching(a)) + Cardinality(Waiting(a))
         <= failures[a] + Cardinality(Threads) + QueueBound

IInv == TypeOK /\ Rested /\ BurstIsOut /\ BurstBounded /\ CountInv
-----------------------------------------------------------------------------
(* The tiers.                                                              *)

LEMMA LeastElement ==
  ASSUME NEW S \in SUBSET Nat, S # {}
  PROVE  \E n \in S : \A m \in S : n <= m
<1>1. PICK n \in S : \A m \in S : ~(<<m, n>> \in OpToRel(<, Nat))
  BY WFMin, NatLessThanWellFounded
<1>2. \A m \in S : ~(m < n) BY <1>1 DEF OpToRel
<1>3. QED BY <1>2

\* By the smallest counterexample: a set of tiers without a last one.
LEMMA LastOfSome ==
  ASSUME TierAssumption, NEW S \in SUBSET Tiers, S # {}
  PROVE  \E t \in S : \A u \in S : u.min <= t.min
<1> DEFINE Has(R) == \E t \in R : \A u \in R : u.min <= t.min
           Bad == {n \in Nat : \E R \in SUBSET Tiers : R # {} /\ Cardinality(R) = n /\ ~Has(R)}
<1>1. \A t \in Tiers : t.min \in Nat BY DEF TierAssumption
<1>2. \A R \in SUBSET Tiers : IsFiniteSet(R) /\ Cardinality(R) \in Nat
  BY FS_Subset, FS_CardinalityType DEF TierAssumption
<1>3. ASSUME Bad # {} PROVE FALSE
  <2> HIDE DEF Has
  <2>1. PICK n \in Bad : \A m \in Bad : n <= m BY <1>3, LeastElement
  <2>2. PICK R \in SUBSET Tiers : R # {} /\ Cardinality(R) = n /\ ~Has(R) BY <2>1
  <2>3. PICK t \in R : TRUE BY <2>2
  <2> DEFINE Q == R \ {t}
  <2>4. Cardinality(Q) = n - 1 BY <1>2, <2>2, FS_RemoveElement
  <2>5. Q \in SUBSET Tiers /\ Cardinality(Q) \in Nat BY <1>2
  <2>6. Cardinality(Q) \notin Bad
    <3>1. n \in Nat BY <2>1
    <3>2. QED BY <2>1, <2>4, <2>5, <3>1
  <2>7. CASE Q = {}
    <3>1. \A u \in R : u = t BY <2>7
    <3>2. Has(R) BY <1>1, <2>3, <3>1 DEF Has
    <3>3. QED BY <2>2, <3>2
  <2>8. CASE Q # {}
    <3>1. Has(Q) BY <2>5, <2>6, <2>8
    <3>2. PICK r \in Q : \A u \in Q : u.min <= r.min BY <3>1 DEF Has
    <3>3. \A u \in R : u = t \/ u \in Q OBVIOUS
    <3>4. t.min \in Nat /\ r.min \in Nat /\ \A u \in R : u.min \in Nat BY <1>1, <2>3, <3>2
    <3>5. CASE t.min <= r.min
      <4>1. \A u \in R : u.min <= r.min BY <3>2, <3>3, <3>5
      <4>2. QED BY <2>2, <4>1 DEF Has
    <3>6. CASE r.min <= t.min
      <4>1. \A u \in R : u.min <= t.min
        BY <3>2, <3>3, <3>4, <3>6
      <4>2. QED BY <2>2, <4>1 DEF Has
    <3>7. QED BY <3>4, <3>5, <3>6
  <2>9. QED BY <2>7, <2>8
<1>4. Cardinality(S) \in Nat /\ Cardinality(S) \notin Bad BY <1>2, <1>3
<1>5. QED BY <1>4

LEMMA TierBounds ==
  ASSUME TierAssumption
  PROVE  /\ Longest \in Nat \ {0} /\ Most \in Nat \ {0}
         /\ \A n \in Nat : Cooldown(n) \in Nat \ {0}
         /\ Cooldown(0) = Longest
<1>1. \A t \in Tiers : t.min \in Nat \ {0} /\ t.wait \in Nat \ {0} BY DEF TierAssumption
<1>2. FirstTier \in Tiers
  <2> DEFINE M == {t.min : t \in Tiers}
  <2>1. M \in SUBSET Nat /\ M # {} BY <1>1 DEF TierAssumption
  <2>2. PICK n \in M : \A m \in M : n <= m BY <2>1, LeastElement
  <2>3. \E t \in Tiers : \A u \in Tiers : t.min <= u.min BY <2>2
  <2>4. QED BY <2>3 DEF FirstTier
<1>3. LastTier \in Tiers
  <2>1. \E t \in Tiers : \A u \in Tiers : t.min >= u.min
    <3>1. PICK t \in Tiers : \A u \in Tiers : u.min <= t.min BY LastOfSome DEF TierAssumption
    <3>2. QED BY <1>1, <3>1
  <2>2. QED BY <2>1 DEF LastTier
<1>4. ASSUME NEW n \in Nat PROVE Cooldown(n) \in Nat \ {0}
  <2>1. CASE \E t \in Tiers : t.min <= n
    <3> DEFINE S == {t \in Tiers : t.min <= n}
    <3>1. PICK t \in S : \A u \in S : u.min <= t.min BY <2>1, LastOfSome
    <3>2. \E x \in Tiers : x.min <= n /\ \A u \in Tiers : u.min <= n => u.min <= x.min BY <3>1
    <3> DEFINE c == CHOOSE x \in Tiers : x.min <= n /\ \A u \in Tiers : u.min <= n => u.min <= x.min
    <3>3. c \in Tiers BY <3>2
    <3>4. Cooldown(n) = c.wait BY <2>1 DEF Cooldown
    <3>5. QED BY <1>1, <3>3, <3>4
  <2>2. CASE ~\E t \in Tiers : t.min <= n BY <1>1, <1>2, <2>2 DEF Cooldown, Longest
  <2>3. QED BY <2>1, <2>2
<1>5. Cooldown(0) = Longest BY <1>1 DEF Cooldown
<1>6. QED BY <1>1, <1>2, <1>3, <1>4, <1>5 DEF Longest, Most
-----------------------------------------------------------------------------
(* Who is dispatching, and what waits.                                     *)

LEMMA DispatchingFinite ==
  ASSUME TierAssumption, NEW a
  PROVE  /\ IsFiniteSet(Dispatching(a)) /\ Cardinality(Dispatching(a)) \in Nat
         /\ Cardinality(Dispatching(a)) <= Cardinality(Threads) /\ Cardinality(Threads) \in Nat
<1>1. Dispatching(a) \in SUBSET Threads BY DEF Dispatching
<1>2. QED BY <1>1, FS_Subset, FS_CardinalityType DEF TierAssumption

LEMMA WaitingFinite ==
  ASSUME TypeOK, TierAssumption, NEW a
  PROVE  /\ IsFiniteSet(Waiting(a)) /\ Cardinality(Waiting(a)) \in Nat
         /\ Cardinality(Waiting(a)) <= QueueBound
<1>1. Len(queue) \in Nat /\ Len(queue) <= QueueBound /\ DOMAIN queue = 1..Len(queue) BY DEF TypeOK
<1>2. Waiting(a) \in SUBSET (1..Len(queue)) BY <1>1 DEF Waiting
<1>3. IsFiniteSet(1..Len(queue)) /\ Cardinality(1..Len(queue)) = Len(queue)
  <2>1. ASSUME NEW n \in Nat PROVE IsFiniteSet(1..n) /\ Cardinality(1..n) = n
    <3>1. IsFiniteSet(1..n) /\ Cardinality(1..n) = IF 1 > n THEN 0 ELSE n - 1 + 1 BY FS_Interval
    <3>2. QED BY <3>1
  <2>2. QED BY <1>1, <2>1
<1>4. IsFiniteSet(Waiting(a)) /\ Cardinality(Waiting(a)) <= Len(queue) BY <1>2, <1>3, FS_Subset
<1>5. Cardinality(Waiting(a)) \in Nat BY <1>4, FS_CardinalityType
<1>6. QED BY <1>1, <1>4, <1>5 DEF TierAssumption

\* Threads that stay as they are, but for w, count the same automations.
LEMMA ThreadKinds ==
  ASSUME TypeOK, NEW w \in Threads
  PROVE  /\ thread[w].pc = "idle" <=> thread[w] = Free
         /\ thread[w] # Free => thread[w].pc \in {"send", "mark"} /\ thread[w].auto \in Automation
  BY DEF TypeOK, Work, Free, At

LEMMA WorkKinds ==
  ASSUME NEW a \in Automation, NEW ok \in BOOLEAN
  PROVE  At("send", a, ok) \in Work /\ At("mark", a, ok) \in Work /\ Free \in Work
  BY DEF Work

LEMMA Begins ==
  ASSUME TypeOK, TierAssumption, NEW w \in Threads, thread[w] = Free, NEW b \in Automation,
         thread' = [thread EXCEPT ![w] = At("send", b, FALSE)], NEW a \in Automation
  PROVE  /\ Cardinality(Dispatching(a))' = Cardinality(Dispatching(a)) + (IF a = b THEN 1 ELSE 0)
         /\ Cardinality(Dispatching(a))' <= Cardinality(Threads)
<1>1. \A u \in Threads \ {w} : thread'[u] = thread[u] BY DEF TypeOK
<1>2. thread'[w] = At("send", b, FALSE) BY DEF TypeOK
<1>3. thread'[w] # Free /\ thread'[w].auto = b BY <1>2 DEF Free, At
<1>4. w \notin Dispatching(a) BY DEF Dispatching
<1>5. Dispatching(a)' = IF a = b THEN Dispatching(a) \cup {w} ELSE Dispatching(a)
  BY <1>1, <1>3, <1>4 DEF Dispatching
<1>6. Cardinality(Dispatching(a) \cup {w}) = Cardinality(Dispatching(a)) + 1
  BY <1>4, DispatchingFinite, FS_AddElement
<1>7. Dispatching(a)' \in SUBSET Threads BY DEF Dispatching
<1>8. Cardinality(Dispatching(a)') <= Cardinality(Threads) BY <1>7, FS_Subset DEF TierAssumption
<1>9. QED BY <1>5, <1>6, <1>8, DispatchingFinite

LEMMA Answers ==
  ASSUME TypeOK, NEW w \in Threads, Answer(w), NEW a \in Automation
  PROVE  Dispatching(a)' = Dispatching(a)
<1>1. PICK ok \in BOOLEAN : thread' = [thread EXCEPT ![w] = At("mark", @.auto, ok)] BY DEF Answer
<1>2. \A u \in Threads \ {w} : thread'[u] = thread[u] BY <1>1 DEF TypeOK
<1>3. thread'[w] = At("mark", thread[w].auto, ok) BY <1>1 DEF TypeOK
<1>4. thread'[w] # Free /\ thread'[w].auto = thread[w].auto BY <1>3 DEF Free, At
<1>5. thread[w] # Free BY DEF Answer, Free
<1>6. QED BY <1>2, <1>4, <1>5 DEF Dispatching

LEMMA Ends ==
  ASSUME TypeOK, TierAssumption, NEW w \in Threads, thread[w] # Free, NEW a \in Automation,
         thread' = [thread EXCEPT ![w] = Free]
  PROVE  /\ Cardinality(Dispatching(a))'
              = Cardinality(Dispatching(a)) - (IF a = thread[w].auto THEN 1 ELSE 0)
<1>1. \A u \in Threads \ {w} : thread'[u] = thread[u] BY DEF TypeOK
<1>2. thread'[w] = Free BY DEF TypeOK
<1>3. Dispatching(a)' = Dispatching(a) \ {w} BY <1>1, <1>2 DEF Dispatching
<1>4. w \in Dispatching(a) <=> a = thread[w].auto BY DEF Dispatching
<1>5. Cardinality(Dispatching(a) \ {w})
        = IF w \in Dispatching(a) THEN Cardinality(Dispatching(a)) - 1 ELSE Cardinality(Dispatching(a))
  BY DispatchingFinite, FS_RemoveElement
<1>6. QED BY <1>3, <1>4, <1>5, DispatchingFinite

LEMMA Enqueued ==
  ASSUME TypeOK, TierAssumption, NEW b \in Automation, queue' = Append(queue, b), NEW a \in Automation
  PROVE  Cardinality(Waiting(a))' = Cardinality(Waiting(a)) + (IF a = b THEN 1 ELSE 0)
<1> DEFINE n == Len(queue)
<1>1. n \in Nat /\ DOMAIN queue = 1..n BY DEF TypeOK
<1>2. Len(queue') = n + 1 /\ DOMAIN queue' = 1..(n + 1) BY DEF TypeOK
<1>3. queue'[n + 1] = b /\ \A i \in 1..n : queue'[i] = queue[i] BY DEF TypeOK
<1>4. n + 1 \notin Waiting(a) BY <1>1 DEF Waiting
<1>5. Waiting(a)' = IF a = b THEN Waiting(a) \cup {n + 1} ELSE Waiting(a)
  BY <1>1, <1>2, <1>3, <1>4 DEF Waiting
<1>6. Cardinality(Waiting(a) \cup {n + 1}) = Cardinality(Waiting(a)) + 1
  BY <1>4, WaitingFinite, FS_AddElement
<1>7. QED BY <1>5, <1>6, WaitingFinite

LEMMA HeadOfQueue ==
  ASSUME TypeOK, queue # <<>>
  PROVE  Head(queue) \in Automation
  BY DEF TypeOK

\* The rest of the queue, each a place further in front.
LEMMA Dequeued ==
  ASSUME TypeOK, TierAssumption, queue # <<>>, queue' = Tail(queue), NEW a \in Automation
  PROVE  Cardinality(Waiting(a))' = Cardinality(Waiting(a)) - (IF a = Head(queue) THEN 1 ELSE 0)
<1> DEFINE n == Len(queue)
           Rest == Waiting(a) \ {1}
           f == [i \in Rest |-> i - 1]
<1>1. n \in Nat \ {0} /\ DOMAIN queue = 1..n /\ Head(queue) = queue[1] /\ queue[1] \in Automation
  BY DEF TypeOK
<1>2. DOMAIN queue' = 1..(n - 1) /\ \A i \in 1..(n - 1) : queue'[i] = queue[i + 1]
  BY <1>1 DEF TypeOK
<1>3. Waiting(a)' = {i \in 1..(n - 1) : queue[i + 1] = a} BY <1>2 DEF Waiting
<1>4. Rest = {i \in 2..n : queue[i] = a} BY <1>1 DEF Waiting
<1>5. f \in Bijection(Rest, Waiting(a)')
  <2>1. f \in [Rest -> Waiting(a)'] BY <1>1, <1>3, <1>4
  <2>2. \A i, j \in Rest : f[i] = f[j] => i = j BY <1>4
  <2>3. ASSUME NEW k \in Waiting(a)' PROVE \E i \in Rest : f[i] = k
    <3>1. k + 1 \in Rest /\ f[k + 1] = k BY <1>1, <1>3, <1>4
    <3>2. QED BY <3>1
  <2>4. QED BY <2>1, <2>2, <2>3 DEF Bijection, Injection, Surjection, IsInjective
<1>6. IsFiniteSet(Rest)
       /\ Cardinality(Rest) = IF 1 \in Waiting(a) THEN Cardinality(Waiting(a)) - 1 ELSE Cardinality(Waiting(a))
  BY WaitingFinite, FS_RemoveElement
<1>7. Cardinality(Waiting(a)') = Cardinality(Rest)
  BY <1>5, <1>6, FS_Bijection DEF ExistsBijection
<1>8. 1 \in Waiting(a) <=> a = Head(queue) BY <1>1 DEF Waiting
<1>9. QED BY <1>1, <1>6, <1>7, <1>8, WaitingFinite
-----------------------------------------------------------------------------
(* The steps.                                                              *)

LEMMA InitIInv ==
  ASSUME TierAssumption, Init
  PROVE  IInv
<1> USE DEF Init
<1>1. TypeOK
  <2>1. alert \in [Automation -> [count : 0..Most, age : 0..Longest]] BY TierBounds DEF Untracked, Entry
  <2>2. failures \in [Automation -> 0..Most] BY TierBounds
  <2>3. queue \in Seq(Automation) /\ Len(queue) <= QueueBound BY DEF TierAssumption
  <2>4. thread \in [Threads -> Work] BY DEF Work
  <2>5. QED BY <2>1, <2>2, <2>3, <2>4 DEF TypeOK
<1>2. Rested BY DEF Rested, Untracked, Entry
<1>3. \A a \in Automation : burst[a] <= Cardinality(Dispatching(a)) /\ burst[a] <= Cardinality(Threads)
  BY DispatchingFinite
<1>4. BurstIsOut /\ BurstBounded BY <1>3 DEF BurstIsOut, BurstBounded
<1>5. CountInv
  <2> SUFFICES ASSUME NEW a \in Automation
               PROVE  0 + Cardinality(Dispatching(a)) + Cardinality(Waiting(a))
                        <= 0 + Cardinality(Threads) + QueueBound
    BY DEF CountInv, Untracked, Entry
  <2>1. QED BY <1>1, DispatchingFinite, WaitingFinite DEF TierAssumption
<1>6. QED BY <1>1, <1>2, <1>4, <1>5 DEF IInv

\* What a step leaves of one automation when only the queue gets shorter.
LEMMA QueueShrinks ==
  ASSUME IInv, TierAssumption, UNCHANGED <<alert, thread, failures, burst, told>>,
         queue' \in Seq(Automation), Len(queue') <= QueueBound, pool' \in {"open", "shut"},
         \A a \in Automation : Cardinality(Waiting(a))' \in Nat
                               /\ Cardinality(Waiting(a))' <= Cardinality(Waiting(a))
  PROVE  IInv'
<1>1. TypeOK' BY DEF IInv, TypeOK
<1>2. \A a \in Automation : Dispatching(a)' = Dispatching(a) /\ (Throttled(a)' <=> Throttled(a))
  BY DEF Dispatching, Throttled
<1>3. Rested' /\ BurstIsOut' /\ BurstBounded'
  BY <1>2 DEF IInv, Rested, BurstIsOut, BurstBounded
<1>4. CountInv'
  <2> SUFFICES ASSUME NEW a \in Automation, failures[a] # Most
               PROVE  alert[a].count + Cardinality(Dispatching(a)) + Cardinality(Waiting(a))'
                        <= failures[a] + Cardinality(Threads) + QueueBound
    BY <1>2 DEF CountInv
  <2>1. alert[a].count + Cardinality(Dispatching(a)) + Cardinality(Waiting(a))
          <= failures[a] + Cardinality(Threads) + QueueBound
    BY DEF IInv, CountInv
  <2>2. alert[a].count \in Nat /\ failures[a] \in Nat /\ QueueBound \in Nat
    BY TierBounds DEF IInv, TypeOK, TierAssumption
  <2>3. Cardinality(Dispatching(a)) \in Nat /\ Cardinality(Waiting(a)) \in Nat
        /\ Cardinality(Threads) \in Nat
    BY DispatchingFinite, WaitingFinite DEF IInv
  <2>4. Cardinality(Waiting(a))' \in Nat /\ Cardinality(Waiting(a))' <= Cardinality(Waiting(a))
    OBVIOUS
  <2>5. \A c, d, m, n, f, s, q \in Nat : c + d + m <= f + s + q /\ n <= m => c + d + n <= f + s + q
    OBVIOUS
  <2>6. QED BY <2>1, <2>2, <2>3, <2>4, <2>5
<1>5. QED BY <1>1, <1>3, <1>4 DEF IInv

LEMMA FailureSafe ==
  ASSUME IInv, TierAssumption, NEW b \in Automation, Failure(b)
  PROVE  IInv'
<1>0. TypeOK BY DEF IInv
<1>a. queue' = Append(queue, b) /\ Len(queue) < QueueBound BY DEF Failure
<1>b. failures' = [failures EXCEPT ![b] = Saturate(@ + 1, Most)] BY DEF Failure
<1>c. UNCHANGED <<alert, thread, pool, burst, told>> BY DEF Failure
<1>1. TypeOK'
  <2>1. failures' \in [Automation -> 0..Most] 
    <3>1. failures \in [Automation -> 0..Most] /\ Most \in Nat BY <1>0, TierBounds DEF TypeOK
    <3>2. QED BY <1>b, <3>1 DEF Saturate
  <2>2. queue' \in Seq(Automation) /\ Len(queue') <= QueueBound BY <1>0, <1>a DEF TypeOK, TierAssumption
  <2>3. QED BY <2>1, <2>2, <1>0, <1>c DEF TypeOK
<1>2. \A a \in Automation : Dispatching(a)' = Dispatching(a) /\ (Throttled(a)' <=> Throttled(a))
  BY <1>c DEF Dispatching, Throttled
<1>3. Rested' /\ BurstIsOut' /\ BurstBounded'
  BY <1>2, <1>c DEF IInv, Rested, BurstIsOut, BurstBounded
<1>4. CountInv'
  <2> SUFFICES ASSUME NEW a \in Automation, failures'[a] # Most
               PROVE  alert[a].count + Cardinality(Dispatching(a)) + Cardinality(Waiting(a))'
                        <= failures'[a] + Cardinality(Threads) + QueueBound
    BY <1>2, <1>c DEF CountInv
  <2>1. alert[a].count \in Nat /\ failures[a] \in 0..Most /\ QueueBound \in Nat /\ Most \in Nat
    BY <1>0, TierBounds DEF TypeOK, TierAssumption
  <2>2. failures'[a] = failures[a] + (IF a = b THEN 1 ELSE 0) /\ failures[a] # Most
    BY <1>0, <1>b, <2>1 DEF TypeOK, Saturate
  <2>3. alert[a].count + Cardinality(Dispatching(a)) + Cardinality(Waiting(a))
          <= failures[a] + Cardinality(Threads) + QueueBound
    BY <2>2 DEF IInv, CountInv
  <2>4. Cardinality(Waiting(a))' = Cardinality(Waiting(a)) + (IF a = b THEN 1 ELSE 0)
    BY <1>0, <1>a, Enqueued
  <2>5. Cardinality(Dispatching(a)) \in Nat /\ Cardinality(Waiting(a)) \in Nat
        /\ Cardinality(Threads) \in Nat
    BY <1>0, DispatchingFinite, WaitingFinite
  <2>6. QED BY <2>1, <2>2, <2>3, <2>4, <2>5
<1>5. QED BY <1>1, <1>3, <1>4 DEF IInv

LEMMA SuccessSafe ==
  ASSUME IInv, TierAssumption, NEW b \in Automation, Success(b)
  PROVE  IInv'
<1>0. TypeOK BY DEF IInv
<1>a. /\ alert' = [alert EXCEPT ![b] = Untracked]
      /\ failures' = [failures EXCEPT ![b] = 0]
      /\ burst' = [burst EXCEPT ![b] = Cardinality(Dispatching(b))]
  BY DEF Success
<1>b. UNCHANGED <<queue, thread, pool, told>> BY DEF Success
<1>1. TypeOK'
  <2>1. alert' \in [Automation -> [count : 0..Most, age : 0..Longest]]
    <3>1. Untracked \in [count : 0..Most, age : 0..Longest] BY TierBounds DEF Untracked, Entry
    <3>2. alert \in [Automation -> [count : 0..Most, age : 0..Longest]] BY <1>0 DEF TypeOK
    <3>3. QED BY <1>a, <3>1, <3>2
  <2>2. failures' \in [Automation -> 0..Most] BY <1>0, <1>a, TierBounds DEF TypeOK
  <2>3. burst' \in [Automation -> Nat] BY <1>0, <1>a, DispatchingFinite DEF TypeOK
  <2>4. QED BY <2>1, <2>2, <2>3, <1>0, <1>b DEF TypeOK
<1>2. \A a \in Automation : Dispatching(a)' = Dispatching(a) /\ Waiting(a)' = Waiting(a)
  BY <1>b DEF Dispatching, Waiting
<1>3. \A a \in Automation \ {b} : /\ alert'[a] = alert[a] /\ burst'[a] = burst[a]
                                  /\ failures'[a] = failures[a]
  BY <1>0, <1>a DEF TypeOK
<1>4. alert'[b] = Untracked /\ burst'[b] = Cardinality(Dispatching(b)) /\ failures'[b] = 0
  BY <1>0, <1>a DEF TypeOK
<1>5. Rested' BY <1>3, <1>4 DEF IInv, Rested, Untracked, Entry
<1>6. BurstIsOut' BY <1>2, <1>3, <1>4, DispatchingFinite DEF IInv, BurstIsOut, Throttled
<1>7. BurstBounded' BY <1>3, <1>4, DispatchingFinite DEF IInv, BurstBounded
<1>8. CountInv'
  <2>1. 0 + Cardinality(Dispatching(b)) + Cardinality(Waiting(b)) <= 0 + Cardinality(Threads) + QueueBound
    BY <1>0, DispatchingFinite, WaitingFinite DEF TierAssumption
  <2>2. alert'[b].count = 0 BY <1>4 DEF Untracked, Entry
  <2>3. QED BY <1>2, <1>3, <1>4, <2>1, <2>2 DEF IInv, CountInv
<1>9. QED BY <1>1, <1>5, <1>6, <1>7, <1>8 DEF IInv

LEMMA StartSendSafe ==
  ASSUME IInv, TierAssumption, NEW w \in Threads, StartSend(w)
  PROVE  IInv'
<1>0. TypeOK BY DEF IInv
<1>1. PICK b \in Automation : b = Head(queue) BY <1>0, HeadOfQueue DEF StartSend, Take
<1>a. /\ thread[w] = Free /\ queue # <<>> /\ queue' = Tail(queue) /\ ~Throttled(b)
  BY <1>1 DEF StartSend, Take
<1>b. /\ thread' = [thread EXCEPT ![w] = At("send", b, FALSE)]
      /\ burst' = [burst EXCEPT ![b] = @ + 1]
  BY <1>1 DEF StartSend
<1>c. UNCHANGED <<alert, pool, failures, told>> BY DEF StartSend
<1>2. \A a \in Automation :
        /\ Cardinality(Dispatching(a))' = Cardinality(Dispatching(a)) + (IF a = b THEN 1 ELSE 0)
        /\ Cardinality(Dispatching(a))' <= Cardinality(Threads)
        /\ Cardinality(Waiting(a))' = Cardinality(Waiting(a)) - (IF a = b THEN 1 ELSE 0)
        /\ Throttled(a)' <=> Throttled(a)
  BY <1>0, <1>1, <1>a, <1>b, <1>c, Begins, Dequeued DEF Throttled
<1>3. TypeOK'
  <2>1. thread' \in [Threads -> Work] BY <1>0, <1>b, WorkKinds DEF TypeOK
  <2>2. queue' \in Seq(Automation) /\ Len(queue') <= QueueBound
    BY <1>0, <1>a DEF TypeOK, TierAssumption
  <2>3. burst' \in [Automation -> Nat] BY <1>0, <1>b DEF TypeOK
  <2>4. QED BY <1>0, <1>c, <2>1, <2>2, <2>3 DEF TypeOK
<1>4. Rested' BY <1>c DEF IInv, Rested
<1>5. \A a \in Automation : burst'[a] = burst[a] + (IF a = b THEN 1 ELSE 0) /\ burst[a] \in Nat
  BY <1>0, <1>b DEF TypeOK
<1>6. BurstIsOut'
  <2> SUFFICES ASSUME NEW a \in Automation, ~Throttled(a)
               PROVE  burst'[a] <= Cardinality(Dispatching(a))'
    BY <1>2 DEF BurstIsOut
  <2>1. burst[a] <= Cardinality(Dispatching(a)) BY DEF IInv, BurstIsOut
  <2>2. Cardinality(Dispatching(a)) \in Nat BY DispatchingFinite
  <2>3. QED BY <1>2, <1>5, <2>1, <2>2
<1>7. BurstBounded'
  <2> SUFFICES ASSUME NEW a \in Automation PROVE burst'[a] <= Cardinality(Threads)
    BY DEF BurstBounded
  <2>1. CASE a = b
    <3>1. burst'[a] <= Cardinality(Dispatching(a))' BY <1>2, <1>6, <1>a, <2>1 DEF BurstIsOut
    <3>2. Cardinality(Dispatching(a))' \in Nat /\ Cardinality(Threads) \in Nat
      BY <1>2, DispatchingFinite
    <3>3. QED BY <1>2, <1>5, <3>1, <3>2
  <2>2. CASE a # b BY <1>5, <2>2 DEF IInv, BurstBounded
  <2>3. QED BY <2>1, <2>2
<1>8. CountInv'
  <2> SUFFICES ASSUME NEW a \in Automation, failures[a] # Most
               PROVE  alert[a].count + Cardinality(Dispatching(a))' + Cardinality(Waiting(a))'
                        <= failures[a] + Cardinality(Threads) + QueueBound
    BY <1>c DEF CountInv
  <2>1. alert[a].count + Cardinality(Dispatching(a)) + Cardinality(Waiting(a))
          <= failures[a] + Cardinality(Threads) + QueueBound
    BY DEF IInv, CountInv
  <2>2. alert[a].count \in Nat /\ failures[a] \in Nat /\ QueueBound \in Nat
    BY <1>0, TierBounds DEF TypeOK, TierAssumption
  <2>3. Cardinality(Dispatching(a)) \in Nat /\ Cardinality(Waiting(a)) \in Nat
        /\ Cardinality(Threads) \in Nat
    BY <1>0, DispatchingFinite, WaitingFinite
  <2>4. QED BY <1>2, <2>1, <2>2, <2>3
<1>9. QED BY <1>3, <1>4, <1>6, <1>7, <1>8 DEF IInv

LEMMA AnswerSafe ==
  ASSUME IInv, TierAssumption, NEW w \in Threads, Answer(w)
  PROVE  IInv'
<1>0. TypeOK BY DEF IInv
<1>1. \A a \in Automation : Dispatching(a)' = Dispatching(a) BY <1>0, Answers
<1>2. UNCHANGED <<alert, queue, pool, failures, burst, told>> BY DEF Answer
<1>3. TypeOK'
  <2>1. PICK ok \in BOOLEAN : thread' = [thread EXCEPT ![w] = At("mark", @.auto, ok)] BY DEF Answer
  <2>2. thread[w].auto \in Automation
    <3>1. thread[w] # Free BY DEF Answer, Free
    <3>2. QED BY <1>0, <3>1, ThreadKinds
  <2>3. thread' \in [Threads -> Work] BY <1>0, <2>1, <2>2, WorkKinds DEF TypeOK
  <2>4. QED BY <1>0, <1>2, <2>3 DEF TypeOK
<1>4. \A a \in Automation : (Throttled(a)' <=> Throttled(a)) /\ Waiting(a)' = Waiting(a)
  BY <1>2 DEF Throttled, Waiting
<1>5. Rested' /\ BurstIsOut' /\ BurstBounded' /\ CountInv'
  BY <1>1, <1>2, <1>4 DEF IInv, Rested, BurstIsOut, BurstBounded, CountInv
<1>6. QED BY <1>3, <1>5 DEF IInv

LEMMA MarkSafe ==
  ASSUME IInv, TierAssumption, NEW w \in Threads, Mark(w)
  PROVE  IInv'
<1>0. TypeOK BY DEF IInv
<1>2. thread[w] # Free /\ thread[w].auto \in Automation
  <2>1. thread[w] # Free BY DEF Mark, Free
  <2>2. QED BY <1>0, <2>1, ThreadKinds
<1>m. PICK m \in Automation : m = thread[w].auto BY <1>2
<1> DEFINE New(out) == Entry(Saturate((IF m \in out THEN 0 ELSE alert[m].count) + 1, Most), 0)
<1>1. PICK out \in Evicted :
        alert' = [b \in Automation |-> CASE b = m -> New(out)
                                         [] b \in out \ {m} -> Untracked
                                         [] OTHER -> alert[b]]
  BY <1>m DEF Mark
<1>3. thread' = [thread EXCEPT ![w] = Free] /\ told' = [told EXCEPT ![m] = thread[w].ok]
  BY <1>m DEF Mark
<1>4. UNCHANGED <<queue, pool, failures>> BY DEF Mark
<1>5. burst' = [b \in Automation |->
                  IF alert'[b] = Untracked THEN Cardinality(Dispatching(b)) ELSE burst[b]]
  BY DEF Mark
<1>6. Longest \in Nat \ {0} /\ Most \in Nat \ {0} BY TierBounds
<1>7. alert \in [Automation -> [count : 0..Most, age : 0..Longest]] BY <1>0 DEF TypeOK
<1>8. alert'[m] = New(out) BY <1>1, <1>2
<1>9. alert'[m].age = 0 /\ alert'[m].count \in 1..Most /\ alert'[m].count <= alert[m].count + 1
  BY <1>2, <1>6, <1>7, <1>8 DEF Entry, Saturate
<1>10. \A b \in Automation \ {m} : alert'[b] = Untracked \/ alert'[b] = alert[b] BY <1>1
<1>11. alert'[m] # Untracked BY <1>9 DEF Untracked, Entry
<1>12. \A a \in Automation :
         /\ Cardinality(Dispatching(a))' = Cardinality(Dispatching(a)) - (IF a = m THEN 1 ELSE 0)
         /\ Cardinality(Dispatching(a)) \in Nat
         /\ Cardinality(Dispatching(a)) <= Cardinality(Threads) /\ Cardinality(Threads) \in Nat
         /\ Waiting(a)' = Waiting(a)
  BY <1>0, <1>2, <1>3, <1>4, <1>m, Ends, DispatchingFinite DEF Waiting
<1>13. \A a \in Automation : alert'[a] \in [count : 0..Most, age : 0..Longest]
  <2>1. Untracked \in [count : 0..Most, age : 0..Longest] BY <1>6 DEF Untracked, Entry
  <2>2. New(out) \in [count : 0..Most, age : 0..Longest] BY <1>2, <1>6, <1>7 DEF Entry, Saturate
  <2>3. QED BY <1>7, <1>8, <1>10, <2>1, <2>2
<1>14. TypeOK'
  <2>1. alert' \in [Automation -> [count : 0..Most, age : 0..Longest]] BY <1>1, <1>13
  <2>2. thread' \in [Threads -> Work] BY <1>0, <1>2, <1>3, WorkKinds DEF TypeOK
  <2>3. burst' \in [Automation -> Nat] BY <1>0, <1>5, <1>12 DEF TypeOK
  <2>4. thread[w].ok \in BOOLEAN
    <3>1. thread[w] \in Work BY <1>0 DEF TypeOK
    <3>2. QED BY <1>2, <3>1 DEF Work, At
  <2>5. told' \in [Automation -> BOOLEAN] BY <1>0, <1>3, <2>4 DEF TypeOK
  <2>6. QED BY <1>0, <1>4, <2>1, <2>2, <2>3, <2>5 DEF TypeOK
<1>15. Rested'
  <2> SUFFICES ASSUME NEW a \in Automation, alert'[a].count = 0 PROVE alert'[a].age = Longest
    BY DEF Rested
  <2>1. a # m BY <1>9
  <2>2. CASE alert'[a] = Untracked BY <2>2 DEF Untracked, Entry
  <2>3. CASE alert'[a] = alert[a] BY <2>3 DEF IInv, Rested
  <2>4. QED BY <1>10, <2>1, <2>2, <2>3
<1>16. BurstIsOut'
  <2> SUFFICES ASSUME NEW a \in Automation, ~Throttled(a)' PROVE burst'[a] <= Cardinality(Dispatching(a))'
    BY DEF BurstIsOut
  <2>1. a # m
    <3>1. Cooldown(alert'[m].count) \in Nat \ {0} BY <1>6, <1>9, TierBounds
    <3>2. Throttled(m)' BY <1>9, <3>1 DEF Throttled
    <3>3. QED BY <3>2
  <2>2. Cardinality(Dispatching(a))' = Cardinality(Dispatching(a)) /\ Cardinality(Dispatching(a)) \in Nat
    BY <1>12, <2>1
  <2>3. CASE alert'[a] = Untracked BY <1>5, <2>2, <2>3
  <2>4. CASE alert'[a] # Untracked
    <3>1. alert'[a] = alert[a] /\ burst'[a] = burst[a] BY <1>5, <1>10, <2>1, <2>4
    <3>2. ~Throttled(a) BY <3>1 DEF Throttled
    <3>3. QED BY <2>2, <3>1, <3>2 DEF IInv, BurstIsOut
  <2>5. QED BY <2>3, <2>4
<1>17. BurstBounded' BY <1>5, <1>12 DEF IInv, BurstBounded
<1>18. CountInv'
  <2> SUFFICES ASSUME NEW a \in Automation, failures[a] # Most
               PROVE  alert'[a].count + Cardinality(Dispatching(a))' + Cardinality(Waiting(a))
                        <= failures[a] + Cardinality(Threads) + QueueBound
    BY <1>4, <1>12 DEF CountInv
  <2>1. alert[a].count + Cardinality(Dispatching(a)) + Cardinality(Waiting(a))
          <= failures[a] + Cardinality(Threads) + QueueBound
    BY DEF IInv, CountInv
  <2>2. alert[a].count \in Nat /\ alert'[a].count \in Nat /\ failures[a] \in Nat /\ QueueBound \in Nat
    BY <1>0, <1>6, <1>7, <1>13 DEF TypeOK, TierAssumption
  <2>3. Cardinality(Waiting(a)) \in Nat BY <1>0, WaitingFinite
  <2>4. CASE a = m BY <1>9, <1>12, <2>1, <2>2, <2>3, <2>4
  <2>5. CASE a # m
    <3>1. alert'[a].count <= alert[a].count BY <1>10, <2>2, <2>5 DEF Untracked, Entry
    <3>2. QED BY <1>12, <2>1, <2>2, <2>3, <2>5, <3>1
  <2>6. QED BY <2>4, <2>5
<1>19. QED BY <1>14, <1>15, <1>16, <1>17, <1>18 DEF IInv

LEMMA TickSafe ==
  ASSUME IInv, TierAssumption, Tick
  PROVE  IInv'
<1>0. TypeOK BY DEF IInv
<1>1. Longest \in Nat \ {0} /\ Most \in Nat BY TierBounds
<1>2. \A a \in Automation :
        /\ alert[a] \in [count : 0..Most, age : 0..Longest]
        /\ alert'[a] = [alert[a] EXCEPT !.age = Saturate(@ + 1, Longest)]
        /\ burst'[a] = IF alert'[a].age >= Cooldown(alert[a].count)
                         THEN Cardinality(Dispatching(a)) ELSE burst[a]
  BY <1>0 DEF Tick, TypeOK
<1>3. \A a \in Automation : /\ alert'[a] \in [count : 0..Most, age : 0..Longest]
                            /\ alert'[a].count = alert[a].count
                            /\ alert'[a].age = Saturate(alert[a].age + 1, Longest)
  <2> TAKE a \in Automation
  <2>1. alert[a].count \in 0..Most /\ alert[a].age \in 0..Longest BY <1>2
  <2>2. alert'[a] = [count |-> alert[a].count, age |-> Saturate(alert[a].age + 1, Longest)] BY <1>2
  <2>3. Saturate(alert[a].age + 1, Longest) \in 0..Longest BY <1>1, <2>1 DEF Saturate
  <2>4. QED BY <2>1, <2>2, <2>3
<1>4. \A a \in Automation : Dispatching(a)' = Dispatching(a) /\ Waiting(a)' = Waiting(a)
  BY DEF Tick, Dispatching, Waiting
<1>5. \A a \in Automation : Cardinality(Dispatching(a)) \in Nat
                            /\ Cardinality(Dispatching(a)) <= Cardinality(Threads)
  BY DispatchingFinite
<1>6. TypeOK'
  <2>1. alert' = [a \in Automation |-> [alert[a] EXCEPT !.age = Saturate(@ + 1, Longest)]] BY DEF Tick
  <2>2. alert' \in [Automation -> [count : 0..Most, age : 0..Longest]] BY <1>3, <2>1
  <2>3. burst' = [a \in Automation |-> IF alert'[a].age >= Cooldown(alert[a].count)
                                         THEN Cardinality(Dispatching(a)) ELSE burst[a]]
    BY DEF Tick
  <2>4. burst' \in [Automation -> Nat] BY <1>0, <1>5, <2>3 DEF TypeOK
  <2>5. UNCHANGED <<queue, thread, pool, failures, told>> BY DEF Tick
  <2>6. QED BY <1>0, <2>2, <2>4, <2>5 DEF TypeOK
<1>7. Rested' BY <1>1, <1>3 DEF IInv, Rested, Saturate
<1>8. BurstIsOut'
  <2> SUFFICES ASSUME NEW a \in Automation, ~(alert'[a].age < Cooldown(alert'[a].count))
               PROVE  burst'[a] <= Cardinality(Dispatching(a))
    BY <1>4 DEF BurstIsOut, Throttled
  <2>1. Cooldown(alert[a].count) \in Nat /\ alert'[a].age \in Nat BY <1>2, <1>3, TierBounds
  <2>2. alert'[a].count = alert[a].count BY <1>3
  <2>3. alert'[a].age >= Cooldown(alert[a].count) BY <2>1, <2>2
  <2>4. burst'[a] = Cardinality(Dispatching(a)) BY <1>2, <2>3
  <2>5. QED BY <1>5, <2>4
<1>9. BurstBounded' BY <1>2, <1>5 DEF IInv, BurstBounded
<1>10. CountInv' BY <1>3, <1>4 DEF IInv, CountInv, Tick
<1>11. QED BY <1>6, <1>7, <1>8, <1>9, <1>10 DEF IInv

\* A failure that is not reported, or whose job dies, leaves the queue.
LEMMA DropSafe ==
  ASSUME IInv, TierAssumption, NEW w \in Threads, Suppress(w) \/ Raise(w)
  PROVE  IInv'
<1>0. TypeOK BY DEF IInv
<1>1. queue # <<>> /\ queue' = Tail(queue) /\ UNCHANGED <<alert, thread, pool, failures, burst, told>>
  BY DEF Suppress, Raise, Take
<1>2. queue' \in Seq(Automation) /\ Len(queue') <= QueueBound
  BY <1>0, <1>1 DEF TypeOK, TierAssumption
<1>3. ASSUME NEW a \in Automation
      PROVE  Cardinality(Waiting(a))' \in Nat /\ Cardinality(Waiting(a))' <= Cardinality(Waiting(a))
  <2>1. Cardinality(Waiting(a))' = Cardinality(Waiting(a)) - (IF a = Head(queue) THEN 1 ELSE 0)
    BY <1>0, <1>1, Dequeued
  <2>2. IsFiniteSet(Waiting(a)) /\ Cardinality(Waiting(a)) \in Nat BY <1>0, WaitingFinite
  <2>3. a = Head(queue) => Cardinality(Waiting(a)) # 0
    <3>1. ASSUME a = Head(queue) PROVE 1 \in Waiting(a) BY <1>0, <1>1, <3>1 DEF TypeOK, Waiting
    <3>2. QED BY <2>2, <3>1, FS_EmptySet
  <2>4. QED BY <2>1, <2>2, <2>3
<1>4. pool' \in {"open", "shut"} BY <1>0, <1>1 DEF TypeOK
<1>5. QED BY <1>1, <1>2, <1>3, <1>4, QueueShrinks

LEMMA ShutdownSafe ==
  ASSUME IInv, TierAssumption, Shutdown
  PROVE  IInv'
<1>0. TypeOK BY DEF IInv
<1>1. queue' = <<>> /\ pool' = "shut" /\ UNCHANGED <<alert, thread, failures, burst, told>>
  BY DEF Shutdown
<1>2. queue' \in Seq(Automation) /\ Len(queue') <= QueueBound BY <1>1 DEF TierAssumption
<1>3. ASSUME NEW a \in Automation
      PROVE  Cardinality(Waiting(a))' \in Nat /\ Cardinality(Waiting(a))' <= Cardinality(Waiting(a))
  <2>1. Waiting(a)' = {} BY <1>1 DEF Waiting
  <2>2. QED BY <1>0, <2>1, FS_EmptySet, WaitingFinite
<1>4. QED BY <1>1, <1>2, <1>3, QueueShrinks

\* notifications.py: between the check of a cooldown and its mark the lock is released,
\* and still no more alerts of an automation pass than the pool has threads until the
\* cooldown has run out; and the count that chooses the tier is at most the failures
\* since the last success and those that were queued or being sent when it came.
THEOREM AlertsBounded ==
  ASSUME TierAssumption
  PROVE  Spec => [](TypeOK /\ BurstBounded /\ CountFollowsFailures)
<1>1. Init => IInv BY InitIInv
<1>2. IInv /\ [Next]_vars => IInv'
  <2> SUFFICES ASSUME IInv, [Next]_vars PROVE IInv'
    OBVIOUS
  <2>1. ASSUME NEW a \in Automation, Failure(a) PROVE IInv' BY <2>1, FailureSafe
  <2>2. ASSUME NEW a \in Automation, Success(a) PROVE IInv' BY <2>2, SuccessSafe
  <2>3. ASSUME NEW w \in Threads, Suppress(w) \/ Raise(w) PROVE IInv' BY <2>3, DropSafe
  <2>4. ASSUME NEW w \in Threads, StartSend(w) PROVE IInv' BY <2>4, StartSendSafe
  <2>5. ASSUME NEW w \in Threads, Answer(w) PROVE IInv' BY <2>5, AnswerSafe
  <2>6. ASSUME NEW w \in Threads, Mark(w) PROVE IInv' BY <2>6, MarkSafe
  <2>7. CASE Tick BY <2>7, TickSafe
  <2>8. CASE Shutdown BY <2>8, ShutdownSafe
  <2>9. CASE UNCHANGED vars
    <3>1. \A a \in Automation : /\ Dispatching(a)' = Dispatching(a) /\ Waiting(a)' = Waiting(a)
                                /\ (Throttled(a)' <=> Throttled(a))
      BY <2>9 DEF vars, Dispatching, Waiting, Throttled
    <3>2. QED BY <2>9, <3>1 DEF vars, IInv, TypeOK, Rested, BurstIsOut, BurstBounded, CountInv
  <2>10. QED BY <2>1, <2>2, <2>3, <2>4, <2>5, <2>6, <2>7, <2>8, <2>9 DEF Next, Dispatch
<1>3. IInv => TypeOK /\ BurstBounded /\ CountFollowsFailures
  <2> SUFFICES ASSUME IInv, NEW a \in Automation
               PROVE  alert[a].count <= failures[a] + Cardinality(Threads) + QueueBound
    BY DEF IInv, CountFollowsFailures
  <2>1. TypeOK BY DEF IInv
  <2>2. alert[a].count \in 0..Most /\ failures[a] \in 0..Most /\ Most \in Nat /\ QueueBound \in Nat
    BY <2>1, TierBounds DEF TypeOK, TierAssumption
  <2>3. Cardinality(Dispatching(a)) \in Nat /\ Cardinality(Waiting(a)) \in Nat
        /\ Cardinality(Threads) \in Nat
    BY <2>1, DispatchingFinite, WaitingFinite
  <2>4. CASE failures[a] = Most BY <2>2, <2>3, <2>4
  <2>5. CASE failures[a] # Most
    <3>1. alert[a].count + Cardinality(Dispatching(a)) + Cardinality(Waiting(a))
            <= failures[a] + Cardinality(Threads) + QueueBound
      BY <2>5 DEF IInv, CountInv
    <3>2. QED BY <2>2, <2>3, <3>1
  <2>6. QED BY <2>4, <2>5
<1>4. QED BY <1>1, <1>2, <1>3, PTL DEF Spec
=============================================================================
