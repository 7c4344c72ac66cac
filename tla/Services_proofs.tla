---------------------------- MODULE Services_proofs ----------------------------
(***************************************************************************)
(* What the API keeps in its memory, for every value of the constants: one *)
(* section per part, each with its inductive invariant, and at the end the *)
(* theorems that carry the parts over to the behaviours of MCServices.     *)
(***************************************************************************)
EXTENDS MCServices, Sequences, FiniteSetTheorems, WellFoundedInduction, TLAPS

LEMMA LeastElement ==
  ASSUME NEW S \in SUBSET Nat, S # {}
  PROVE  \E n \in S : \A m \in S : n <= m
<1>1. PICK n \in S : \A m \in S : ~(<<m, n>> \in OpToRel(<, Nat))
  BY WFMin, NatLessThanWellFounded
<1>2. \A m \in S : ~(m < n) BY <1>1 DEF OpToRel
<1>3. QED BY <1>2
-----------------------------------------------------------------------------
(* WsToken: tokens that open one connection each.                          *)

\* A request goes by a clock that may be behind.
Requests ==
  /\ clock \in 0..MaxClock
  /\ thread \in [Thread -> [pc : {"idle", "issue", "consume"}, now : Nat, token : Token \cup {None}]]
  /\ accepted \in [Token -> Nat]
  /\ \A t \in Thread : /\ thread[t].now <= clock
                       /\ thread[t].pc # "idle" => thread[t].token \in Token
                       /\ thread[t].pc = "consume" => thread[t].token \in DOMAIN issued

\* A token that is being generated is nobody else's and was never seen before.
Unguessed ==
  \A t \in Thread : thread[t].pc = "issue" =>
    /\ thread[t].token \notin DOMAIN issued
    /\ \A u \in Thread \ {t} : thread[u].pc = "issue" => thread[u].token # thread[t].token

\* A token that may still open a connection has opened none.
Unspent ==
  /\ DOMAIN tokens \subseteq DOMAIN issued /\ DOMAIN issued \subseteq Token
  /\ \A k \in Token : k \in DOMAIN tokens \/ k \notin DOMAIN issued => accepted[k] = 0

\* The store keeps to its cap.
Capped == IsFiniteSet(DOMAIN tokens) /\ Cardinality(DOMAIN tokens) <= MaxTokens

\* It keeps the expiry a token was issued with, and the turns count the tokens.
Booked ==
  /\ IsFiniteSet(DOMAIN issued)
  /\ \A k \in DOMAIN tokens : tokens[k] = issued[k].expiry
  /\ \A k \in DOMAIN issued :
       issued[k].expiry \in Time /\ issued[k].nth \in Nat /\ issued[k].nth <= Cardinality(DOMAIN issued)

\* The tokens that k may have had to give way to.
Rivals(k) ==
  {x \in DOMAIN issued \ {k} : issued[x].expiry >= issued[k].expiry \/ issued[x].nth > issued[k].nth}
Outdone(k) == Cardinality(Rivals(k)) >= MaxTokens \/ issued[k].expiry <= clock

\* What left the store was used, gave way or is late.
Accounted ==
  /\ \A k \in DOMAIN issued \ DOMAIN tokens : accepted[k] > 0 \/ Outdone(k)
  /\ refused \subseteq DOMAIN issued /\ \A k \in refused : Outdone(k)

TokensInv == Requests /\ Unguessed /\ Unspent /\ Capped /\ Booked /\ Accounted /\ OnceOnly

LEMMA TokensInit == Init => TokensInv
<1> SUFFICES ASSUME Init PROVE TokensInv OBVIOUS
<1>1. /\ DOMAIN tokens = {} /\ DOMAIN issued = {} /\ refused = {} /\ clock = 0
      /\ thread = [t \in Thread |-> Idle] /\ accepted = [k \in Token |-> 0]
  BY DEF Init
<1>2. MaxClock \in Nat /\ MaxTokens \in Nat BY WsTokenAssumption
<1>3. Requests BY <1>1, <1>2 DEF Requests, Idle
<1>4. Unguessed /\ Unspent /\ OnceOnly BY <1>1 DEF Unguessed, Unspent, OnceOnly, Idle
<1>5. IsFiniteSet({}) /\ Cardinality({}) = 0 BY FS_EmptySet
<1>6. Capped /\ Booked BY <1>1, <1>2, <1>5 DEF Capped, Booked
<1>7. Accounted BY <1>1 DEF Accounted
<1>8. QED BY <1>3, <1>4, <1>6, <1>7 DEF TokensInv

\* Pruning takes the late tokens away and no other.
LEMMA PrunedStore ==
  ASSUME NEW now
  PROVE  /\ DOMAIN Pruned(now) = {k \in DOMAIN tokens : tokens[k] > now}
         /\ \A k \in DOMAIN Pruned(now) : Pruned(now)[k] = tokens[k]
  BY DEF Pruned, Only

\* Making room takes at most one token, the nearest to its expiry in a full store.
LEMMA RoomMade ==
  ASSUME NEW f, NEW g \in Room(f), IsFiniteSet(DOMAIN f), Cardinality(DOMAIN f) <= MaxTokens
  PROVE  /\ DOMAIN g \subseteq DOMAIN f /\ \A x \in DOMAIN g : g[x] = f[x]
         /\ IsFiniteSet(DOMAIN g) /\ Cardinality(DOMAIN g) < MaxTokens
         /\ \A k \in DOMAIN f \ DOMAIN g :
              Cardinality(DOMAIN f \ {k}) = MaxTokens - 1 /\ \A y \in DOMAIN f : f[k] <= f[y]
<1> USE WsTokenAssumption
<1>0. Cardinality(DOMAIN f) \in Nat BY FS_CardinalityType
<1>1. CASE Cardinality(DOMAIN f) < MaxTokens
  <2>1. g = f BY <1>1 DEF Room
  <2>2. QED BY <1>1, <2>1
<1>2. CASE ~(Cardinality(DOMAIN f) < MaxTokens)
  <2>1. PICK k \in DOMAIN f : g = Only(f, DOMAIN f \ {k}) /\ \A y \in DOMAIN f : f[k] <= f[y]
    BY <1>2 DEF Room
  <2>2. DOMAIN g = DOMAIN f \ {k} /\ \A x \in DOMAIN g : g[x] = f[x] BY <2>1 DEF Only
  <2>3. IsFiniteSet(DOMAIN f \ {k}) /\ Cardinality(DOMAIN f \ {k}) = Cardinality(DOMAIN f) - 1
    BY FS_RemoveElement
  <2>4. DOMAIN f \ DOMAIN g = {k} BY <2>2
  <2>5. Cardinality(DOMAIN f) = MaxTokens BY <1>0, <1>2
  <2>6. Cardinality(DOMAIN f \ {k}) = MaxTokens - 1 BY <2>3, <2>5
  <2>7. IsFiniteSet(DOMAIN g) /\ Cardinality(DOMAIN g) < MaxTokens BY <2>2, <2>3, <2>6
  <2>8. QED BY <2>1, <2>2, <2>4, <2>6, <2>7
<1>3. QED BY <1>1, <1>2

LEMMA SmallerStore ==
  ASSUME Capped, NEW S \in SUBSET DOMAIN tokens
  PROVE  IsFiniteSet(S) /\ Cardinality(S) <= MaxTokens
<1>1. IsFiniteSet(S) /\ Cardinality(S) <= Cardinality(DOMAIN tokens) BY FS_Subset DEF Capped
<1>2. Cardinality(S) \in Nat /\ Cardinality(DOMAIN tokens) \in Nat BY <1>1, FS_CardinalityType DEF Capped
<1>3. QED BY <1>1, <1>2, WsTokenAssumption DEF Capped

\* What outdoes a token goes on to: tokens are only added, and the clock goes forward.
LEMMA OutdoneStays ==
  ASSUME TokensInv, NEW k \in DOMAIN issued, Outdone(k),
         DOMAIN issued \subseteq DOMAIN issued', IsFiniteSet((DOMAIN issued)'),
         \A x \in DOMAIN issued : issued'[x] = issued[x],
         clock' \in Nat, clock <= clock'
  PROVE  Outdone(k)'
<1>1. issued'[k] = issued[k] /\ issued[k].expiry \in Nat /\ clock \in Nat /\ MaxTokens \in Nat
  BY WsTokenAssumption DEF TokensInv, Booked, Requests, Time
<1>2. CASE issued[k].expiry <= clock BY <1>1, <1>2 DEF Outdone
<1>3. CASE Cardinality(Rivals(k)) >= MaxTokens
  <2>1. Rivals(k) \subseteq Rivals(k)' BY <1>1 DEF Rivals
  <2>2. Rivals(k)' \subseteq (DOMAIN issued)' BY DEF Rivals
  <2>3. IsFiniteSet(Rivals(k)') BY <2>2, FS_Subset
  <2>4. /\ IsFiniteSet(Rivals(k)) /\ Cardinality(Rivals(k)) <= Cardinality(Rivals(k)')
        /\ Cardinality(Rivals(k)) \in Nat /\ Cardinality(Rivals(k)') \in Nat
    BY <2>1, <2>3, FS_Subset, FS_CardinalityType
  <2>5. Cardinality(Rivals(k)') >= MaxTokens BY <1>1, <1>3, <2>4
  <2>6. QED BY <2>5 DEF Outdone
<1>4. QED BY <1>2, <1>3 DEF Outdone

LEMMA IssueSafe ==
  ASSUME TokensInv, NEW t \in Thread, Issue(t)
  PROVE  TokensInv'
<1> DEFINE k == thread[t].token
           now == thread[t].now
           e == now + TTL
           stock == Pruned(now)
<1>1. PICK f \in Room(stock) : tokens' = Put(f, k, e) BY DEF Issue
<1>2. /\ issued' = Put(issued, k, [expiry |-> e, nth |-> Cardinality(DOMAIN issued) + 1])
      /\ thread' = [thread EXCEPT ![t] = Idle] /\ accepted' = accepted /\ clock' = clock /\ refused' = refused
      /\ thread[t].pc = "issue"
  BY DEF Issue
<1>3. /\ DOMAIN stock = {x \in DOMAIN tokens : tokens[x] > now}
      /\ \A x \in DOMAIN stock : stock[x] = tokens[x]
  BY PrunedStore
<1>4. IsFiniteSet(DOMAIN stock) /\ Cardinality(DOMAIN stock) <= MaxTokens
  BY <1>3, SmallerStore DEF TokensInv
<1>5. /\ DOMAIN f \subseteq DOMAIN stock /\ \A x \in DOMAIN f : f[x] = stock[x]
      /\ IsFiniteSet(DOMAIN f) /\ Cardinality(DOMAIN f) < MaxTokens
      /\ \A x \in DOMAIN stock \ DOMAIN f :
           Cardinality(DOMAIN stock \ {x}) = MaxTokens - 1 /\ \A y \in DOMAIN stock : stock[x] <= stock[y]
  BY <1>4, RoomMade
<1> HIDE DEF stock
<1>6. DOMAIN tokens' = DOMAIN f \cup {k} /\ tokens'[k] = e /\ \A x \in DOMAIN f \ {k} : tokens'[x] = f[x]
  BY <1>1 DEF Put
<1>7. /\ k \in Token /\ k \notin DOMAIN issued /\ accepted[k] = 0
      /\ now \in Nat /\ now <= clock /\ clock \in 0..MaxClock
  BY <1>2 DEF TokensInv, Requests, Unguessed, Unspent
<1>8. DOMAIN issued' = DOMAIN issued \cup {k} BY <1>2 DEF Put
<1>9. issued'[k] = [expiry |-> e, nth |-> Cardinality(DOMAIN issued) + 1] BY <1>2 DEF Put
<1>10. \A x \in DOMAIN issued : issued'[x] = issued[x] BY <1>2, <1>7 DEF Put
<1>11. DOMAIN tokens \subseteq DOMAIN issued /\ k \notin DOMAIN stock
  BY <1>3, <1>7 DEF TokensInv, Unspent
<1>12. IsFiniteSet(DOMAIN issued) /\ Cardinality(DOMAIN issued) \in Nat
  BY FS_CardinalityType DEF TokensInv, Booked
<1>13. IsFiniteSet(DOMAIN issued') /\ Cardinality(DOMAIN issued') = Cardinality(DOMAIN issued) + 1
  BY <1>7, <1>8, <1>12, FS_AddElement
<1>14. e \in Time /\ TTL \in Nat /\ MaxTokens \in Nat \ {0} /\ MaxClock \in Nat
  BY <1>7, WsTokenAssumption DEF Time
<1>15. Requests' BY <1>2, <1>8 DEF TokensInv, Requests, Idle
<1>16. Unguessed' BY <1>2, <1>8 DEF TokensInv, Requests, Unguessed, Idle
<1>17. Unspent' BY <1>2, <1>3, <1>5, <1>6, <1>7, <1>8, <1>11 DEF TokensInv, Unspent
<1>18. Capped'
  <2>1. Cardinality(DOMAIN f) \in Nat BY <1>5, FS_CardinalityType
  <2>2. /\ IsFiniteSet(DOMAIN f \cup {k})
        /\ Cardinality(DOMAIN f \cup {k}) \in {Cardinality(DOMAIN f), Cardinality(DOMAIN f) + 1}
    BY <1>5, FS_AddElement
  <2>3. Cardinality(DOMAIN f \cup {k}) <= MaxTokens BY <1>5, <1>14, <2>1, <2>2
  <2>4. QED BY <1>6, <2>2, <2>3 DEF Capped
<1>19. Booked'
  <2>1. ASSUME NEW x \in DOMAIN tokens' PROVE tokens'[x] = issued'[x].expiry
    <3>1. CASE x = k BY <1>6, <1>9, <3>1
    <3>2. CASE x # k
      <4>1. x \in DOMAIN f /\ x \in DOMAIN stock /\ x \in DOMAIN tokens /\ x \in DOMAIN issued
        BY <1>3, <1>5, <1>6, <1>11, <3>2
      <4>2. tokens'[x] = tokens[x] BY <1>3, <1>5, <1>6, <3>2, <4>1
      <4>3. QED BY <1>10, <4>1, <4>2 DEF TokensInv, Booked
    <3>3. QED BY <3>1, <3>2
  <2>2. ASSUME NEW x \in DOMAIN issued'
        PROVE  /\ issued'[x].expiry \in Time /\ issued'[x].nth \in Nat
               /\ issued'[x].nth <= Cardinality(DOMAIN issued')
    <3>1. CASE x = k BY <1>9, <1>12, <1>13, <1>14, <3>1
    <3>2. CASE x # k
      <4>1. x \in DOMAIN issued /\ issued'[x] = issued[x] BY <1>8, <1>10, <3>2
      <4>2. /\ issued[x].expiry \in Time /\ issued[x].nth \in Nat
            /\ issued[x].nth <= Cardinality(DOMAIN issued)
        BY <4>1 DEF TokensInv, Booked
      <4>3. QED BY <1>12, <1>13, <4>1, <4>2
    <3>3. QED BY <3>1, <3>2
  <2>3. QED BY <1>13, <2>1, <2>2 DEF Booked
<1>20. \A x \in DOMAIN issued : Outdone(x) => Outdone(x)'
  BY <1>2, <1>7, <1>8, <1>10, <1>13, OutdoneStays
<1>21. ASSUME NEW x \in DOMAIN stock \ DOMAIN f PROVE Outdone(x)'
  <2>1. Cardinality(DOMAIN stock \ {x}) = MaxTokens - 1 /\ \A y \in DOMAIN stock : stock[x] <= stock[y]
    BY <1>5
  <2>2. x \in DOMAIN issued /\ x # k BY <1>3, <1>11
  <2>3. ASSUME NEW y \in DOMAIN stock \ {x} PROVE y \in Rivals(x)'
    <3>1. y \in DOMAIN tokens /\ x \in DOMAIN tokens /\ y \in DOMAIN issued BY <1>3, <1>11
    <3>2. stock[x] = tokens[x] /\ stock[y] = tokens[y] /\ stock[x] <= stock[y] BY <1>3, <2>1
    <3>3. tokens[x] = issued[x].expiry /\ tokens[y] = issued[y].expiry
      BY <3>1 DEF TokensInv, Booked
    <3>4. issued[x].expiry \in Nat /\ issued[y].expiry \in Nat
      BY <2>2, <3>1, <1>14 DEF TokensInv, Booked, Time
    <3>5. issued'[y].expiry >= issued'[x].expiry BY <1>10, <2>2, <3>1, <3>2, <3>3, <3>4
    <3>6. QED BY <1>8, <3>1, <3>5 DEF Rivals
  <2>4. k \in Rivals(x)'
    <3>1. issued[x].nth \in Nat /\ issued[x].nth <= Cardinality(DOMAIN issued)
      BY <2>2 DEF TokensInv, Booked
    <3>2. issued'[k].nth > issued'[x].nth BY <1>9, <1>10, <1>12, <2>2, <3>1
    <3>3. QED BY <1>8, <2>2, <3>2 DEF Rivals
  <2>5. (DOMAIN stock \ {x}) \cup {k} \subseteq Rivals(x)' BY <2>3, <2>4
  <2>6. IsFiniteSet(DOMAIN stock \ {x}) BY <1>4, FS_Subset
  <2>7. k \notin DOMAIN stock \ {x} BY <1>11
  <2>8. /\ IsFiniteSet((DOMAIN stock \ {x}) \cup {k})
        /\ Cardinality((DOMAIN stock \ {x}) \cup {k}) = Cardinality(DOMAIN stock \ {x}) + 1
    BY <2>6, <2>7, FS_AddElement
  <2>9. Rivals(x)' \subseteq DOMAIN issued' BY DEF Rivals
  <2>10. IsFiniteSet(Rivals(x)') BY <1>13, <2>9, FS_Subset
  <2>11. /\ Cardinality((DOMAIN stock \ {x}) \cup {k}) <= Cardinality(Rivals(x)')
         /\ Cardinality(Rivals(x)') \in Nat
    BY <2>5, <2>10, FS_Subset, FS_CardinalityType
  <2>12. Cardinality(Rivals(x)') >= MaxTokens BY <1>14, <2>1, <2>8, <2>11
  <2>13. QED BY <2>12 DEF Outdone
<1>22. ASSUME NEW x \in DOMAIN tokens \ DOMAIN stock PROVE Outdone(x)'
  <2>1. tokens[x] = issued[x].expiry /\ issued[x].expiry \in Nat /\ x \in DOMAIN issued
    BY <1>11, <1>14 DEF TokensInv, Booked, Time
  <2>2. issued[x].expiry <= now BY <1>3, <1>7, <2>1
  <2>3. issued'[x].expiry <= clock' BY <1>2, <1>7, <1>10, <2>1, <2>2
  <2>4. QED BY <2>3 DEF Outdone
<1>23. Accounted'
  <2>1. ASSUME NEW x \in DOMAIN issued' \ DOMAIN tokens' PROVE accepted'[x] > 0 \/ Outdone(x)'
    <3>1. x \in DOMAIN issued /\ x # k /\ x \notin DOMAIN f BY <1>6, <1>8
    <3>2. CASE x \notin DOMAIN tokens
      <4>1. accepted[x] > 0 \/ Outdone(x) BY <3>1, <3>2 DEF TokensInv, Accounted
      <4>2. QED BY <1>2, <1>20, <3>1, <4>1
    <3>3. CASE x \in DOMAIN tokens /\ x \notin DOMAIN stock BY <1>22, <3>3
    <3>4. CASE x \in DOMAIN stock BY <1>21, <3>1, <3>4
    <3>5. QED BY <3>2, <3>3, <3>4
  <2>2. refused \subseteq DOMAIN issued /\ \A x \in refused : Outdone(x) BY DEF TokensInv, Accounted
  <2>3. refused' \subseteq DOMAIN issued' /\ \A x \in refused' : Outdone(x)'
    BY <1>2, <1>8, <1>20, <2>2
  <2>4. QED BY <2>1, <2>3 DEF Accounted
<1>24. OnceOnly' BY <1>2 DEF TokensInv, OnceOnly
<1>25. QED BY <1>15, <1>16, <1>17, <1>18, <1>19, <1>23, <1>24 DEF TokensInv

LEMMA ConsumeSafe ==
  ASSUME TokensInv, NEW t \in Thread, Consume(t)
  PROVE  TokensInv'
<1> DEFINE k == thread[t].token
           now == thread[t].now
           f == Pruned(now)
<1>1. /\ DOMAIN f = {x \in DOMAIN tokens : tokens[x] > now}
      /\ \A x \in DOMAIN f : f[x] = tokens[x]
  BY PrunedStore
<1>2. /\ tokens' = Only(f, DOMAIN f \ {k})
      /\ issued' = issued /\ clock' = clock /\ thread' = [thread EXCEPT ![t] = Idle]
      /\ k \in DOMAIN f => accepted' = [accepted EXCEPT ![k] = @ + 1]
      /\ k \notin DOMAIN f => accepted' = accepted
      /\ thread[t].pc = "consume"
  BY DEF Consume
<1>0. \/ refused' = refused
      \/ /\ refused' = refused \cup {k} /\ k \notin DOMAIN f
         /\ ~(accepted[k] > 0) /\ ~(issued[k].expiry <= now)
  BY DEF Consume
<1> HIDE DEF f
<1>3. DOMAIN tokens' = DOMAIN f \ {k} /\ \A x \in DOMAIN tokens' : tokens'[x] = f[x] BY <1>2 DEF Only
<1>4. /\ k \in Token /\ k \in DOMAIN issued /\ now \in Nat /\ now <= clock /\ clock \in 0..MaxClock
      /\ accepted \in [Token -> Nat]
  BY <1>2 DEF TokensInv, Requests
<1>5. k \in DOMAIN f => accepted[k] = 0 BY <1>1, <1>4 DEF TokensInv, Unspent
<1>6. Requests' BY <1>2, <1>4 DEF TokensInv, Requests, Idle
<1>7. Unguessed' BY <1>2 DEF TokensInv, Requests, Unguessed, Idle
<1>8. Unspent' BY <1>1, <1>2, <1>3, <1>4 DEF TokensInv, Unspent
<1>9. Capped'
  <2>1. DOMAIN tokens' \in SUBSET DOMAIN tokens BY <1>1, <1>3
  <2>2. QED BY <2>1, SmallerStore DEF TokensInv, Capped
<1>10. Booked' BY <1>1, <1>2, <1>3 DEF TokensInv, Booked
<1>11. \A x \in DOMAIN issued : Outdone(x)' = Outdone(x) BY <1>2 DEF Outdone, Rivals
<1>12. ASSUME NEW x \in DOMAIN tokens \ DOMAIN f PROVE issued[x].expiry <= now /\ Outdone(x)
  <2>1. tokens[x] = issued[x].expiry /\ issued[x].expiry \in Nat /\ x \in DOMAIN issued
    BY WsTokenAssumption DEF TokensInv, Booked, Unspent, Time
  <2>2. issued[x].expiry <= now BY <1>1, <1>4, <2>1
  <2>3. issued[x].expiry <= clock BY <1>4, <2>1, <2>2
  <2>4. QED BY <2>2, <2>3 DEF Outdone
<1>13. ASSUME NEW x \in DOMAIN issued' \ DOMAIN tokens' PROVE accepted'[x] > 0 \/ Outdone(x)'
  <2>1. x \in DOMAIN issued /\ x \in Token BY <1>2 DEF TokensInv, Unspent
  <2>2. CASE x \in DOMAIN f
    <3>1. x = k BY <1>3, <2>2
    <3>2. accepted'[k] = 1 BY <1>2, <1>4, <1>5, <2>2, <3>1
    <3>3. QED BY <3>1, <3>2
  <2>3. CASE x \in DOMAIN tokens \ DOMAIN f BY <1>11, <1>12, <2>1, <2>3
  <2>4. CASE x \notin DOMAIN tokens
    <3>1. accepted[x] > 0 \/ Outdone(x) BY <2>1, <2>4 DEF TokensInv, Accounted
    <3>2. accepted'[x] >= accepted[x] /\ accepted[x] \in Nat /\ accepted'[x] \in Nat BY <1>2, <1>4, <2>1
    <3>3. QED BY <1>11, <2>1, <3>1, <3>2
  <2>5. QED BY <2>2, <2>3, <2>4
<1>14. refused' \subseteq DOMAIN issued' /\ \A x \in refused' : Outdone(x)'
  <2>1. refused \subseteq DOMAIN issued /\ \A x \in refused : Outdone(x) BY DEF TokensInv, Accounted
  <2>2. CASE refused' = refused BY <1>2, <1>11, <2>1, <2>2
  <2>3. CASE refused' = refused \cup {k} /\ k \notin DOMAIN f /\ ~(accepted[k] > 0) /\ ~(issued[k].expiry <= now)
    <3>1. k \notin DOMAIN tokens BY <1>12, <2>3
    <3>2. Outdone(k) BY <1>4, <2>3, <3>1 DEF TokensInv, Accounted
    <3>3. QED BY <1>2, <1>4, <1>11, <2>1, <2>3, <3>2
  <2>4. QED BY <1>0, <2>2, <2>3
<1>15. Accounted' BY <1>13, <1>14 DEF Accounted
<1>16. OnceOnly' BY <1>2, <1>4, <1>5 DEF TokensInv, Requests, OnceOnly
<1>17. QED BY <1>6, <1>7, <1>8, <1>9, <1>10, <1>15, <1>16 DEF TokensInv

LEMMA RequestSafe ==
  ASSUME TokensInv, NEW t \in Thread, IssueStart(t) \/ \E k \in Token : ConsumeStart(t, k)
  PROVE  TokensInv'
<1>1. /\ UNCHANGED <<tokens, clock, issued, accepted, refused>>
      /\ \E k \in Token, stage \in {"issue", "consume"} :
           /\ thread' = [thread EXCEPT ![t] = [pc |-> stage, now |-> clock, token |-> k]]
           /\ stage = "consume" => k \in DOMAIN issued
           /\ stage = "issue" => k \notin DOMAIN issued /\ \A u \in Thread : thread[u].pc = "issue" => thread[u].token # k
  BY DEF IssueStart, ConsumeStart
<1>2. Requests' BY <1>1 DEF TokensInv, Requests
<1>3. Unguessed' BY <1>1 DEF TokensInv, Requests, Unguessed
<1>4. Accounted' BY <1>1 DEF TokensInv, Accounted, Outdone, Rivals
<1>5. QED BY <1>1, <1>2, <1>3, <1>4 DEF TokensInv, Unspent, Capped, Booked, OnceOnly

LEMMA TokensTick ==
  ASSUME TokensInv, Tick
  PROVE  TokensInv'
<1>1. clock < MaxClock /\ clock' = clock + 1 /\ UNCHANGED <<tokens, thread, issued, accepted, refused>>
  BY DEF Tick
<1>2. clock \in 0..MaxClock /\ MaxClock \in Nat BY WsTokenAssumption DEF TokensInv, Requests
<1>3. Requests' BY <1>1, <1>2 DEF TokensInv, Requests
<1>4. \A x \in DOMAIN issued : Outdone(x) => Outdone(x)'
  BY <1>1, <1>2, OutdoneStays DEF TokensInv, Booked
<1>5. Accounted' BY <1>1, <1>4 DEF TokensInv, Accounted
<1>6. QED BY <1>1, <1>3, <1>5 DEF TokensInv, Unguessed, Unspent, Capped, Booked, OnceOnly

\* services/ws_auth.py: a token opens at most one connection, however many requests
\* present it at once; the store never exceeds its cap; and a token that was neither
\* used nor late is turned away only when as many came after it as the store holds,
\* or a thread whose clock was ahead took it for late.
THEOREM TokensSafe == Spec => [](TypeOK /\ OnceOnly /\ TurnedAwayForRoom)
<1>1. TokensInv /\ [Next]_vars => TokensInv'
  <2> SUFFICES ASSUME TokensInv, [Next]_vars PROVE TokensInv'
    OBVIOUS
  <2>1. CASE UNCHANGED vars
    BY <2>1 DEF vars, TokensInv, Requests, Unguessed, Unspent, Capped, Booked, Accounted, Outdone, Rivals, OnceOnly
  <2>2. QED BY <2>1, IssueSafe, ConsumeSafe, RequestSafe, TokensTick DEF Next
<1>2. TokensInv => TypeOK /\ OnceOnly /\ TurnedAwayForRoom
  <2> SUFFICES ASSUME TokensInv PROVE TypeOK /\ TurnedAwayForRoom BY DEF TokensInv
  <2>1. TurnedAwayForRoom BY DEF TokensInv, Accounted, Outdone, Rivals, TurnedAwayForRoom
  <2>2. MaxClock \in Nat BY WsTokenAssumption
  <2>3. \A k \in DOMAIN tokens : tokens[k] \in Time BY DEF TokensInv, Booked, Unspent
  <2>4. ASSUME NEW t \in Thread
        PROVE  /\ thread[t].pc \in {"idle", "issue", "consume"}
               /\ thread[t].now \in 0..MaxClock /\ thread[t].token \in Token \cup {None}
    <3>1. /\ thread[t] \in [pc : {"idle", "issue", "consume"}, now : Nat, token : Token \cup {None}]
          /\ thread[t].now <= clock /\ clock \in 0..MaxClock
      BY DEF TokensInv, Requests
    <3>2. QED BY <2>2, <3>1
  <2>5. accepted \in [Token -> 0..2]
    <3>1. \A k \in Token : accepted[k] \in Nat /\ accepted[k] <= 1 BY DEF TokensInv, Requests, OnceOnly
    <3>2. QED BY <3>1 DEF TokensInv, Requests
  <2>6. QED BY <2>1, <2>3, <2>4, <2>5 DEF TokensInv, Requests, Unspent, Capped, Booked, Accounted, TypeOK
<1>3. QED BY TokensInit, <1>1, <1>2, PTL DEF Spec
-----------------------------------------------------------------------------
(* RateLimit: the window of an address against what really passed.         *)

Age == 0..(StaleTTL + 1)

\* The last stamps of the window are the requests of the last span, the others older.
Mirrors(w, p) ==
  /\ Len(p) <= Len(w)
  /\ \A i \in 1..(Len(w) - Len(p)) : w[i] > Span
  /\ \A i \in 1..Len(p) : p[i] <= Span /\ p[i] = w[Len(w) - Len(p) + i]

OldestFirst(w) == \A i, j \in DOMAIN w : i <= j => w[i] >= w[j]

\* No stamp is younger than the last sight of its address.
SeenLast(w, s) == IF s = Absent THEN w = <<>> ELSE \A i \in DOMAIN w : w[i] >= s

LimitsInv ==
  /\ window \in [Address -> Seq(Age)] /\ passed \in [Address -> Seq(Nat)]
  /\ seen \in [Address -> Age \cup {Absent}] /\ count \in 0..(CleanupEvery - 1)
  /\ unjust = FALSE /\ adjusted \in BOOLEAN
  /\ \A ip \in Address :
       /\ Len(window[ip]) <= Limit
       /\ Mirrors(window[ip], passed[ip]) /\ OldestFirst(window[ip]) /\ SeenLast(window[ip], seen[ip])

LEMMA LimitsConstants ==
  /\ Limit \in Nat \ {0} /\ Span \in Nat \ {0} /\ CleanupEvery \in Nat \ {0}
  /\ StaleTTL \in Nat /\ StaleTTL > Span /\ Absent \notin Int
  BY PartsAssumption DEF Limits!RateLimitAssumption

\* Where the old stamps of a window end, Within begins.
LEMMA WithinIsTail ==
  ASSUME NEW w \in Seq(Age), NEW p \in Seq(Nat), Mirrors(w, p)
  PROVE  /\ Limits!Within(w) \in Seq(Age) /\ Len(Limits!Within(w)) = Len(p)
         /\ \A i \in 1..Len(p) : Limits!Within(w)[i] = p[i] /\ p[i] = w[Len(w) - Len(p) + i]
<1> DEFINE n == Len(w)
           k == Len(p)
           f == n - k + 1
<1>1. n \in Nat /\ k \in Nat /\ DOMAIN w = 1..n /\ DOMAIN p = 1..k /\ k <= n BY DEF Mirrors
<1>2. \A i \in 1..k : p[i] <= Span /\ p[i] = w[n - k + i] BY DEF Mirrors
<1>3. \A i \in 1..(n - k) : w[i] > Span BY DEF Mirrors
<1>4. Span \in Int /\ \A i \in 1..n : w[i] \in Int BY <1>1, LimitsConstants DEF Age
<1>5. CASE k = 0
  <2>1. \A i \in DOMAIN w : w[i] > Span BY <1>1, <1>3, <1>5
  <2>2. Limits!Within(w) = <<>> BY <2>1 DEF Limits!Within
  <2>3. QED BY <1>5, <2>2
<1>6. CASE k > 0
  <2> DEFINE P(i) == w[i] <= Span /\ \A j \in 1..(i - 1) : w[j] > Span
  <2>1. f \in 1..n BY <1>1, <1>6
  <2>2. w[f] <= Span
    <3>1. 1 \in 1..k /\ p[1] <= Span /\ p[1] = w[n - k + 1] BY <1>1, <1>2, <1>6
    <3>2. QED BY <3>1
  <2>3. P(f) BY <1>1, <1>3, <2>2
  <2>4. ASSUME NEW i \in 1..n, P(i) PROVE i = f
    <3>1. CASE i < f
      <4>1. i \in 1..(n - k) BY <1>1, <3>1
      <4>2. w[i] > Span /\ w[i] <= Span BY <1>3, <2>4, <4>1
      <4>3. QED BY <1>4, <4>2
    <3>2. CASE f < i
      <4>1. f \in 1..(i - 1) BY <2>1, <3>2
      <4>2. w[f] > Span BY <2>4, <4>1
      <4>3. w[f] \in Int BY <1>4, <2>1
      <4>4. QED BY <1>4, <2>2, <4>2, <4>3
    <3>3. QED BY <2>1, <3>1, <3>2
  <2>5. (CHOOSE i \in DOMAIN w : P(i)) = f BY <1>1, <2>1, <2>3, <2>4
  <2>6. ~ \A i \in DOMAIN w : w[i] > Span BY <1>1, <1>4, <2>1, <2>2
  <2>7. Limits!Within(w) = SubSeq(w, f, n) BY <2>5, <2>6 DEF Limits!Within
  <2>8. SubSeq(w, f, n) \in Seq(Age) /\ Len(SubSeq(w, f, n)) = n - f + 1 BY <1>1, <2>1
  <2>9. \A i \in 1..k : SubSeq(w, f, n)[i] = w[f + i - 1] BY <1>1, <2>1
  <2>10. n - f + 1 = k /\ \A i \in 1..k : f + i - 1 = n - k + i BY <1>1
  <2>11. QED BY <1>2, <2>7, <2>8, <2>9, <2>10
<1>7. QED BY <1>1, <1>5, <1>6

\* The instance has a Cardinality of its own: the same.
LEMMA LimitsCardinality ==
  ASSUME NEW S
  PROVE  Limits!Cardinality(S) = Cardinality(S)
  BY Zenon DEF Limits!Cardinality, Cardinality

LEMMA RecentIsTail ==
  ASSUME NEW s \in Seq(Nat), OldestFirst(s)
  PROVE  \E m \in 0..Len(s) :
           /\ Limits!Recent(s) \in Seq(Nat) /\ Len(Limits!Recent(s)) = Len(s) - m
           /\ \A i \in 1..m : s[i] > Span
           /\ \A i \in 1..(Len(s) - m) : Limits!Recent(s)[i] = s[m + i] /\ s[m + i] <= Span
<1> DEFINE n == Len(s)
           Young == {i \in 1..n : s[i] <= Span}
           Old == {i \in DOMAIN s : s[i] > Span}
<1>1. n \in Nat /\ DOMAIN s = 1..n /\ Span \in Nat /\ \A i \in 1..n : s[i] \in Nat BY LimitsConstants
<1>2. \E m \in 0..n : (\A i \in 1..m : s[i] > Span) /\ \A i \in (m + 1)..n : s[i] <= Span
  <2>1. CASE Young = {}
    <3>1. \A i \in 1..n : s[i] > Span BY <1>1, <2>1
    <3>2. QED BY <1>1, <3>1
  <2>2. CASE Young # {}
    <3>1. Young \in SUBSET Nat BY <1>1
    <3>2. PICK y \in Young : \A z \in Young : y <= z BY <2>2, <3>1, LeastElement
    <3>3. y \in 1..n /\ s[y] <= Span BY <3>2
    <3>4. ASSUME NEW i \in 1..(y - 1) PROVE s[i] > Span
      <4>1. i \in 1..n /\ ~(y <= i) BY <1>1, <3>3
      <4>2. i \notin Young BY <3>2, <4>1
      <4>3. QED BY <1>1, <4>1, <4>2
    <3>5. ASSUME NEW i \in y..n PROVE s[i] <= Span
      <4>1. i \in 1..n /\ s[y] >= s[i] BY <1>1, <3>3 DEF OldestFirst
      <4>2. QED BY <1>1, <3>3, <4>1
    <3>6. y - 1 \in 0..n /\ (y - 1) + 1 = y BY <1>1, <3>3
    <3>7. QED BY <3>4, <3>5, <3>6
  <2>3. QED BY <2>1, <2>2
<1>3. PICK m \in 0..n : (\A i \in 1..m : s[i] > Span) /\ \A i \in (m + 1)..n : s[i] <= Span BY <1>2
<1>4. Old = 1..m
  <2>1. \A i \in Old : i \in 1..n /\ ~(s[i] <= Span) BY <1>1
  <2>2. \A i \in Old : i \in 1..m BY <1>1, <1>3, <2>1
  <2>3. QED BY <1>1, <1>3, <2>2
<1>5. Cardinality(1..m) = m
  <2>1. Cardinality(1..m) = IF 1 > m THEN 0 ELSE m - 1 + 1 BY <1>1, FS_Interval
  <2>2. QED BY <1>1, <2>1
<1>6. Limits!Recent(s) = SubSeq(s, m + 1, n)
  <2>1. Limits!Recent(s) = SubSeq(s, Limits!Cardinality(Old) + 1, n) BY DEF Limits!Recent
  <2>2. QED BY <1>4, <1>5, <2>1, LimitsCardinality
<1>7. SubSeq(s, m + 1, n) \in Seq(Nat) /\ Len(SubSeq(s, m + 1, n)) = n - m
  <2>1. CASE m = n BY <1>1, <2>1
  <2>2. CASE m < n
    <3>1. m + 1 \in 1..n /\ n - (m + 1) + 1 = n - m BY <1>1, <2>2
    <3>2. QED BY <3>1
  <2>3. m \in Nat /\ n \in Nat /\ m <= n BY <1>1
  <2>4. m = n \/ m < n BY <2>3
  <2>5. QED BY <2>1, <2>2, <2>4
<1>8. \A i \in 1..(n - m) : SubSeq(s, m + 1, n)[i] = s[m + i] BY <1>1
<1>9. \A i \in 1..(n - m) : m + i \in (m + 1)..n BY <1>1
<1>10. QED BY <1>3, <1>6, <1>7, <1>8, <1>9

LEMMA LimitsInit == Limits!Init => LimitsInv
<1> SUFFICES ASSUME Limits!Init PROVE LimitsInv OBVIOUS
<1>1. Limit \in Nat /\ CleanupEvery \in Nat \ {0} BY LimitsConstants
<1>2. /\ window = [ip \in Address |-> <<>>] /\ seen = [ip \in Address |-> Absent] /\ count = 0
      /\ passed = [ip \in Address |-> <<>>] /\ unjust = FALSE /\ adjusted = FALSE
  BY DEF Limits!Init
<1>3. window \in [Address -> Seq(Age)] /\ passed \in [Address -> Seq(Nat)] BY <1>2
<1>4. \A ip \in Address : /\ Len(window[ip]) <= Limit /\ Mirrors(window[ip], passed[ip])
                          /\ OldestFirst(window[ip]) /\ SeenLast(window[ip], seen[ip])
  BY <1>1, <1>2 DEF Mirrors, OldestFirst, SeenLast
<1>5. seen \in [Address -> Age \cup {Absent}] /\ count \in 0..(CleanupEvery - 1) BY <1>1, <1>2
<1>6. QED BY <1>2, <1>3, <1>4, <1>5 DEF LimitsInv

\* Stamp 0 at the end of what Within leaves.
LEMMA StampAdded ==
  ASSUME NEW w \in Seq(Age), NEW p \in Seq(Nat), Mirrors(w, p), OldestFirst(w)
  PROVE  LET v == Append(Limits!Within(w), 0)
             q == Append(p, 0)
         IN  /\ v \in Seq(Age) /\ q \in Seq(Nat) /\ Len(v) = Len(p) + 1
             /\ Mirrors(v, q) /\ OldestFirst(v) /\ SeenLast(v, 0)
<1> DEFINE u == Limits!Within(w)
           v == Append(u, 0)
           q == Append(p, 0)
           n == Len(w)
           k == Len(p)
<1>1. u \in Seq(Age) /\ Len(u) = k /\ \A i \in 1..k : u[i] = p[i] /\ p[i] = w[n - k + i]
  BY WithinIsTail
<1>2. n \in Nat /\ k \in Nat /\ k <= n /\ DOMAIN w = 1..n BY DEF Mirrors
<1> HIDE DEF u
<1>3. 0 \in Age /\ Span \in Nat /\ 0 # Absent BY LimitsConstants DEF Age
<1>4. v \in Seq(Age) /\ Len(v) = k + 1 /\ v[k + 1] = 0 /\ \A i \in 1..k : v[i] = u[i] BY <1>1, <1>2, <1>3
<1>5. q \in Seq(Nat) /\ Len(q) = k + 1 /\ q[k + 1] = 0 /\ \A i \in 1..k : q[i] = p[i] BY <1>2
<1>6. Mirrors(v, q)
  <2>1. \A i \in 1..k : p[i] <= Span BY DEF Mirrors
  <2>2. \A i \in 1..(k + 1) : q[i] <= Span /\ q[i] = v[i] BY <1>1, <1>2, <1>3, <1>4, <1>5, <2>1
  <2>3. Len(v) - Len(q) = 0 /\ 1..0 = {} BY <1>2, <1>4, <1>5
  <2>4. \A i \in 1..Len(q) : Len(v) - Len(q) + i = i BY <1>2, <1>4, <1>5, SMTT(30)
  <2>5. \A i \in 1..(Len(v) - Len(q)) : v[i] > Span BY <2>3
  <2>6. Len(q) <= Len(v) BY <1>2, <1>4, <1>5
  <2>7. \A i \in 1..Len(q) : q[i] <= Span /\ q[i] = v[Len(v) - Len(q) + i] BY <1>5, <2>2, <2>4
  <2>8. QED BY <2>5, <2>6, <2>7 DEF Mirrors
<1>7. \A i \in 1..(k + 1) : v[i] \in Nat
  <2>1. \A i \in DOMAIN v : v[i] \in Age BY <1>4
  <2>2. DOMAIN v = 1..(k + 1) BY <1>4
  <2>3. \A x \in Age : x \in Nat BY LimitsConstants DEF Age
  <2>4. QED BY <2>1, <2>2, <2>3
<1>8. OldestFirst(v)
  <2> SUFFICES ASSUME NEW i \in 1..(k + 1), NEW j \in 1..(k + 1), i <= j PROVE v[i] >= v[j]
    BY <1>4 DEF OldestFirst
  <2>1. CASE j = k + 1 BY <1>4, <1>7, <2>1
  <2>2. CASE j # k + 1
    <3>1. i \in 1..k /\ j \in 1..k BY <1>2, <2>2
    <3>2. n - k + i \in 1..n /\ n - k + j \in 1..n /\ n - k + i <= n - k + j BY <1>2, <3>1
    <3>3. w[n - k + i] >= w[n - k + j] BY <1>2, <3>2 DEF OldestFirst
    <3>4. v[i] = w[n - k + i] /\ v[j] = w[n - k + j] BY <1>1, <1>4, <3>1
    <3>5. QED BY <3>3, <3>4
  <2>3. QED BY <2>1, <2>2
<1>9. SeenLast(v, 0) BY <1>3, <1>4, <1>7 DEF SeenLast
<1>10. QED BY <1>4, <1>5, <1>6, <1>8, <1>9 DEF u

\* What Within leaves, stamped by nothing.
LEMMA StampRefused ==
  ASSUME NEW w \in Seq(Age), NEW p \in Seq(Nat), Mirrors(w, p), OldestFirst(w)
  PROVE  LET v == Limits!Within(w)
         IN  v \in Seq(Age) /\ Len(v) = Len(p) /\ Mirrors(v, p) /\ OldestFirst(v) /\ SeenLast(v, 0)
<1> DEFINE v == Limits!Within(w)
           n == Len(w)
           k == Len(p)
<1>1. v \in Seq(Age) /\ Len(v) = k /\ \A i \in 1..k : v[i] = p[i] /\ p[i] = w[n - k + i]
  BY WithinIsTail
<1>2. n \in Nat /\ k \in Nat /\ k <= n /\ DOMAIN w = 1..n BY DEF Mirrors
<1> HIDE DEF v
<1>3. Mirrors(v, p)
  <2>1. \A i \in 1..k : p[i] <= Span BY DEF Mirrors
  <2>2. QED BY <1>1, <1>2, <2>1 DEF Mirrors
<1>4. OldestFirst(v)
  <2> SUFFICES ASSUME NEW i \in 1..k, NEW j \in 1..k, i <= j PROVE v[i] >= v[j]
    BY <1>1 DEF OldestFirst
  <2>1. n - k + i \in 1..n /\ n - k + j \in 1..n /\ n - k + i <= n - k + j BY <1>2
  <2>2. w[n - k + i] >= w[n - k + j] BY <1>2, <2>1 DEF OldestFirst
  <2>3. QED BY <1>1, <2>2
<1>5. SeenLast(v, 0)
  <2>1. 0 # Absent BY LimitsConstants
  <2>2. \A i \in 1..k : v[i] \in Nat BY <1>1 DEF Age
  <2>3. QED BY <1>1, <2>1, <2>2 DEF SeenLast
<1>6. QED BY <1>1, <1>3, <1>4, <1>5 DEF v

\* An address that is swept has no request in the last span.
LEMMA StaleHasNone ==
  ASSUME NEW w \in Seq(Age), NEW p \in Seq(Nat), NEW s \in Age, s > StaleTTL, SeenLast(w, s), Mirrors(w, p)
  PROVE  p = <<>>
<1>1. s # Absent /\ StaleTTL > Span /\ Span \in Nat /\ StaleTTL \in Nat BY LimitsConstants DEF Age
<1>2. \A i \in 1..Len(w) : w[i] \in Nat /\ w[i] >= s BY <1>1 DEF SeenLast, Age
<1>3. \A i \in 1..Len(w) : w[i] > Span BY <1>1, <1>2 DEF Age
<1>4. Len(p) \in Nat /\ Len(w) \in Nat /\ Len(p) <= Len(w) BY DEF Mirrors
<1>5. ASSUME Len(p) # 0 PROVE FALSE
  <2>1. 1 \in 1..Len(p) /\ Len(w) - Len(p) + 1 \in 1..Len(w) BY <1>4, <1>5
  <2>2. p[1] <= Span /\ p[1] = w[Len(w) - Len(p) + 1] BY <2>1 DEF Mirrors
  <2>3. w[Len(w) - Len(p) + 1] \in Nat /\ w[Len(w) - Len(p) + 1] > Span BY <1>2, <1>3, <2>1
  <2>4. QED BY <1>1, <2>2, <2>3
<1>6. QED BY <1>5

\* A tick later: every stamp one older, up to what a sweep tells apart.
LEMMA GrowsOlder ==
  ASSUME NEW w \in Seq(Age), NEW p \in Seq(Nat), NEW s \in Age \cup {Absent},
         Mirrors(w, p), OldestFirst(w), SeenLast(w, s)
  PROVE  LET v == [i \in DOMAIN w |-> Limits!Older(w[i])]
             q == Limits!Recent([i \in DOMAIN p |-> p[i] + 1])
         IN  /\ v \in Seq(Age) /\ Len(v) = Len(w) /\ q \in Seq(Nat)
             /\ Mirrors(v, q) /\ OldestFirst(v)
             /\ SeenLast(v, IF s = Absent THEN Absent ELSE Limits!Older(s))
<1> DEFINE n == Len(w)
           k == Len(p)
           v == [i \in DOMAIN w |-> Limits!Older(w[i])]
           r == [i \in DOMAIN p |-> p[i] + 1]
           q == Limits!Recent(r)
<1>1. n \in Nat /\ k \in Nat /\ k <= n /\ DOMAIN w = 1..n /\ DOMAIN p = 1..k BY DEF Mirrors
<1>2. Span \in Nat /\ StaleTTL \in Nat /\ StaleTTL > Span BY LimitsConstants
<1>3. \A a \in Age : /\ a \in Nat /\ Limits!Older(a) \in Age /\ Limits!Older(a) >= a
                     /\ a <= Span => Limits!Older(a) = a + 1
                     /\ \A b \in Age : a >= b => Limits!Older(a) >= Limits!Older(b)
  BY <1>2 DEF Age, Limits!Older
<1>4. \A i \in 1..n : w[i] \in Age BY <1>1
<1>5. v \in Seq(Age) /\ Len(v) = n /\ \A i \in 1..n : v[i] = Limits!Older(w[i])
  BY <1>1, <1>3, <1>4
<1>6. r \in Seq(Nat) /\ Len(r) = k /\ \A i \in 1..k : r[i] = p[i] + 1 BY <1>1
<1>7. \A i \in 1..k : p[i] <= Span /\ p[i] = w[n - k + i] /\ p[i] \in Nat /\ n - k + i \in 1..n
  BY <1>1 DEF Mirrors
<1>8. \A i \in 1..k : v[n - k + i] = p[i] + 1 /\ r[i] = v[n - k + i]
  BY <1>3, <1>4, <1>5, <1>6, <1>7
<1>9. OldestFirst(v)
  <2>1. \A i, j \in 1..n : i <= j => w[i] >= w[j] BY <1>1 DEF OldestFirst
  <2>2. \A i, j \in 1..n : i <= j => v[i] >= v[j] BY <1>3, <1>4, <1>5, <2>1
  <2>3. QED BY <1>1, <1>5, <2>2 DEF OldestFirst
<1>10. OldestFirst(r)
  <2>1. \A i, j \in 1..k : i <= j => v[n - k + i] >= v[n - k + j]
    <3>1. \A i, j \in 1..k : i <= j => n - k + i <= n - k + j BY <1>1
    <3>2. QED BY <1>1, <1>5, <1>7, <1>9, <3>1 DEF OldestFirst
  <2>2. DOMAIN r = 1..k BY <1>1
  <2>3. \A i, j \in 1..k : i <= j => r[i] >= r[j] BY <1>8, <2>1
  <2>4. QED BY <2>2, <2>3 DEF OldestFirst
<1> HIDE DEF v, r
<1>11. PICK m \in 0..k :
         /\ q \in Seq(Nat) /\ Len(q) = k - m /\ \A i \in 1..m : r[i] > Span
         /\ \A i \in 1..(k - m) : q[i] = r[m + i] /\ r[m + i] <= Span
  BY <1>6, <1>10, RecentIsTail
<1> HIDE DEF q
<1>12. Mirrors(v, q)
  <2>1. Len(v) - Len(q) = n - k + m /\ Len(q) <= Len(v) /\ m \in Nat BY <1>1, <1>5, <1>11
  <2>2. ASSUME NEW i \in 1..(n - k + m) PROVE v[i] > Span
    <3>1. CASE i <= n - k
      <4>1. i \in 1..(n - k) /\ i \in 1..n BY <1>1, <3>1
      <4>2. w[i] > Span BY <4>1 DEF Mirrors
      <4>3. w[i] \in Age /\ w[i] \in Nat /\ v[i] \in Age /\ v[i] >= w[i] BY <1>3, <1>4, <1>5, <4>1
      <4>4. v[i] \in Nat BY <1>3, <4>3
      <4>5. QED BY <1>2, <4>2, <4>3, <4>4
    <3>2. CASE i > n - k
      <4>1. i - (n - k) \in 1..m /\ i - (n - k) \in 1..k /\ n - k + (i - (n - k)) = i BY <1>1, <2>1, <3>2, <1>11
      <4>2. QED BY <1>8, <1>11, <4>1
    <3>3. QED BY <1>1, <2>1, <3>1, <3>2
  <2>3. ASSUME NEW i \in 1..(k - m) PROVE q[i] <= Span /\ q[i] = v[(n - k + m) + i]
    <3>1. m + i \in 1..k /\ n - k + (m + i) = (n - k + m) + i BY <1>1, <1>11, <2>1
    <3>2. QED BY <1>8, <1>11, <3>1
  <2>4. QED BY <1>11, <2>1, <2>2, <2>3 DEF Mirrors
<1>13. SeenLast(v, IF s = Absent THEN Absent ELSE Limits!Older(s))
  <2>1. CASE s = Absent
    <3>1. n = 0 BY <2>1 DEF SeenLast
    <3>2. v = <<>> BY <1>5, <3>1
    <3>3. QED BY <2>1, <3>2 DEF SeenLast
  <2>2. CASE s # Absent
    <3>1. s \in Age /\ \A i \in 1..n : w[i] >= s BY <1>1, <2>2 DEF SeenLast
    <3>2. \A i \in 1..n : v[i] >= Limits!Older(s) BY <1>3, <1>4, <1>5, <3>1
    <3>3. Limits!Older(s) # Absent BY <1>3, <3>1, LimitsConstants
    <3>4. DOMAIN v = 1..n BY <1>5
    <3>5. QED BY <2>2, <3>2, <3>3, <3>4 DEF SeenLast
  <2>3. QED BY <2>1, <2>2
<1>14. QED BY <1>5, <1>9, <1>11, <1>12, <1>13 DEF v, q, r

\* A stale address holds nothing of the last span: forgetting it changes no count.
LEMMA SweepSafe ==
  ASSUME NEW w \in Seq(Age), NEW p \in Seq(Nat), NEW s \in Age, s > StaleTTL, SeenLast(w, s),
         Mirrors(w, p)
  PROVE  Mirrors(<<>>, p) /\ OldestFirst(<<>>) /\ SeenLast(<<>>, Absent)
  BY StaleHasNone DEF Mirrors, OldestFirst, SeenLast

LEMMA LimitsStep ==
  ASSUME LimitsInv, [Limits!Next]_(Limits!vars)
  PROVE  LimitsInv'
<1>1. Limit \in Nat \ {0} /\ Span \in Nat \ {0} /\ CleanupEvery \in Nat \ {0} /\ StaleTTL \in Nat
  BY LimitsConstants
<1>2. /\ window \in [Address -> Seq(Age)] /\ passed \in [Address -> Seq(Nat)]
      /\ seen \in [Address -> Age \cup {Absent}] /\ count \in 0..(CleanupEvery - 1)
      /\ unjust = FALSE /\ adjusted \in BOOLEAN
      /\ \A ip \in Address : /\ Len(window[ip]) <= Limit
                             /\ Mirrors(window[ip], passed[ip]) /\ OldestFirst(window[ip])
                             /\ SeenLast(window[ip], seen[ip])
  BY DEF LimitsInv
<1>3. 0 \in Age BY <1>1 DEF Age
<1>4. ASSUME NEW ip \in Address, Limits!Pass(ip) PROVE LimitsInv'
  <2> DEFINE v == Append(Limits!Within(window[ip]), 0)
             q == Append(passed[ip], 0)
  <2>1. /\ Len(Limits!Within(window[ip])) < Limit
        /\ window' = Limits!Swept(ip, [window EXCEPT ![ip] = v])
        /\ seen' = [x \in Address |->
             IF x = ip THEN 0 ELSE IF count + 1 >= CleanupEvery /\ Limits!Stale(x) THEN Absent ELSE seen[x]]
        /\ count' = (count + 1) % CleanupEvery
        /\ passed' = [passed EXCEPT ![ip] = q]
        /\ UNCHANGED <<unjust, adjusted>>
    BY <1>2, <1>4 DEF Limits!Pass
  <2>2. window[ip] \in Seq(Age) /\ passed[ip] \in Seq(Nat) /\ Mirrors(window[ip], passed[ip])
        /\ OldestFirst(window[ip])
    BY <1>2
  <2>3. /\ v \in Seq(Age) /\ q \in Seq(Nat) /\ Len(v) = Len(passed[ip]) + 1
        /\ Mirrors(v, q) /\ OldestFirst(v) /\ SeenLast(v, 0)
    BY <2>2, StampAdded
  <2>4. Len(passed[ip]) < Limit BY <2>1, <2>2, WithinIsTail
  <2>5. Len(v) <= Limit BY <1>1, <2>2, <2>3, <2>4
  <2> HIDE DEF v, q
  <2>6. count' \in 0..(CleanupEvery - 1) BY <1>1, <1>2, <2>1
  <2>7. window'[ip] = v /\ passed'[ip] = q /\ seen'[ip] = 0
    BY <1>2, <2>1 DEF Limits!Swept
  <2>8. ASSUME NEW x \in Address, x # ip, count + 1 >= CleanupEvery, Limits!Stale(x)
        PROVE  window'[x] = <<>> /\ seen'[x] = Absent /\ passed'[x] = passed[x]
    BY <1>1, <1>2, <2>1, <2>8 DEF Limits!Swept
  <2>9. ASSUME NEW x \in Address, x # ip, ~(count + 1 >= CleanupEvery /\ Limits!Stale(x))
        PROVE  window'[x] = window[x] /\ seen'[x] = seen[x] /\ passed'[x] = passed[x]
    BY <1>1, <1>2, <2>1, <2>9 DEF Limits!Swept
  <2>10. ASSUME NEW x \in Address
         PROVE  /\ window'[x] \in Seq(Age) /\ seen'[x] \in Age \cup {Absent} /\ passed'[x] \in Seq(Nat)
                /\ Len(window'[x]) <= Limit /\ Mirrors(window'[x], passed'[x])
                /\ OldestFirst(window'[x]) /\ SeenLast(window'[x], seen'[x])
    <3>1. CASE x = ip BY <1>3, <2>3, <2>5, <2>7, <3>1
    <3>2. CASE x # ip /\ count + 1 >= CleanupEvery /\ Limits!Stale(x)
      <4>1. seen[x] \in Age /\ seen[x] > StaleTTL BY <1>2, <3>2 DEF Limits!Stale
      <4>2. /\ window[x] \in Seq(Age) /\ passed[x] \in Seq(Nat)
            /\ Mirrors(window[x], passed[x]) /\ SeenLast(window[x], seen[x])
        BY <1>2
      <4>3. Mirrors(<<>>, passed[x]) /\ OldestFirst(<<>>) /\ SeenLast(<<>>, Absent)
        BY <4>1, <4>2, SweepSafe
      <4>4. Len(<<>>) = 0 /\ <<>> \in Seq(Age) OBVIOUS
      <4>5. window'[x] = <<>> /\ seen'[x] = Absent /\ passed'[x] = passed[x] BY <2>8, <3>2
      <4>6. 0 <= Limit BY <1>1
      <4>7. QED BY <4>2, <4>3, <4>4, <4>5, <4>6
    <3>3. CASE x # ip /\ ~(count + 1 >= CleanupEvery /\ Limits!Stale(x)) BY <1>2, <2>9, <3>3
    <3>4. QED BY <3>1, <3>2, <3>3
  <2>11. /\ DOMAIN window' = Address /\ window' = [x \in DOMAIN window' |-> window'[x]]
         /\ DOMAIN seen' = Address /\ seen' = [x \in DOMAIN seen' |-> seen'[x]]
         /\ DOMAIN passed' = Address /\ passed' = [x \in DOMAIN passed' |-> passed'[x]]
    BY <1>2, <2>1 DEF Limits!Swept
  <2>12. /\ window' \in [Address -> Seq(Age)] /\ passed' \in [Address -> Seq(Nat)]
         /\ seen' \in [Address -> Age \cup {Absent}]
    BY <2>10, <2>11
  <2>13. QED BY <1>2, <2>1, <2>6, <2>10, <2>12 DEF LimitsInv, Age
<1>5. ASSUME NEW ip \in Address, Limits!Refuse(ip) PROVE LimitsInv'
  <2> DEFINE v == Limits!Within(window[ip])
  <2>1. /\ Len(v) >= Limit /\ window' = [window EXCEPT ![ip] = v] /\ seen' = [seen EXCEPT ![ip] = 0]
        /\ unjust' = (unjust \/ Len(passed[ip]) < Limit)
        /\ count' = count /\ passed' = passed /\ adjusted' = adjusted
    BY <1>2, <1>5 DEF Limits!Refuse
  <2>2. window[ip] \in Seq(Age) /\ passed[ip] \in Seq(Nat) /\ Mirrors(window[ip], passed[ip])
        /\ OldestFirst(window[ip]) /\ Len(window[ip]) <= Limit
    BY <1>2
  <2>3. v \in Seq(Age) /\ Len(v) = Len(passed[ip]) /\ Mirrors(v, passed[ip]) /\ OldestFirst(v)
        /\ SeenLast(v, 0)
    BY <2>2, StampRefused
  <2> HIDE DEF v
  <2>4. Len(passed[ip]) \in Nat /\ Len(window[ip]) \in Nat /\ Len(passed[ip]) <= Len(window[ip])
    BY <2>2 DEF Mirrors
  <2>5. unjust' = FALSE
    <3>1. ~(Len(passed[ip]) < Limit) BY <1>1, <2>1, <2>3, <2>4
    <3>2. QED BY <1>2, <2>1, <3>1
  <2>6. Len(v) <= Limit BY <1>1, <2>2, <2>3, <2>4
  <2>7. window' \in [Address -> Seq(Age)] /\ seen' \in [Address -> Age \cup {Absent}]
    BY <1>2, <1>3, <2>1, <2>3
  <2>8. ASSUME NEW x \in Address
        PROVE  /\ Len(window'[x]) <= Limit /\ Mirrors(window'[x], passed'[x])
               /\ OldestFirst(window'[x]) /\ SeenLast(window'[x], seen'[x])
    <3>1. CASE x = ip BY <1>2, <2>1, <2>3, <2>6, <3>1
    <3>2. CASE x # ip BY <1>2, <2>1, <3>2
    <3>3. QED BY <3>1, <3>2
  <2>9. QED BY <1>2, <2>1, <2>5, <2>7, <2>8 DEF LimitsInv, Age
<1>6. ASSUME Limits!Tick PROVE LimitsInv'
  <2>1. /\ window' = [ip \in Address |-> [i \in DOMAIN window[ip] |-> Limits!Older(window[ip][i])]]
        /\ seen' = [ip \in Address |-> IF seen[ip] = Absent THEN Absent ELSE Limits!Older(seen[ip])]
        /\ passed' = [ip \in Address |-> Limits!Recent([i \in DOMAIN passed[ip] |-> passed[ip][i] + 1])]
        /\ count' = count /\ unjust' = unjust /\ adjusted' = adjusted
    BY <1>6 DEF Limits!Tick
  <2>2. ASSUME NEW x \in Address
        PROVE  /\ window'[x] \in Seq(Age) /\ passed'[x] \in Seq(Nat) /\ Len(window'[x]) = Len(window[x])
               /\ Mirrors(window'[x], passed'[x]) /\ OldestFirst(window'[x])
               /\ SeenLast(window'[x], seen'[x])
    <3>1. /\ window[x] \in Seq(Age) /\ passed[x] \in Seq(Nat) /\ seen[x] \in Age \cup {Absent}
          /\ Mirrors(window[x], passed[x]) /\ OldestFirst(window[x]) /\ SeenLast(window[x], seen[x])
      BY <1>2
    <3>2. /\ window'[x] = [i \in DOMAIN window[x] |-> Limits!Older(window[x][i])]
          /\ passed'[x] = Limits!Recent([i \in DOMAIN passed[x] |-> passed[x][i] + 1])
          /\ seen'[x] = IF seen[x] = Absent THEN Absent ELSE Limits!Older(seen[x])
      BY <2>1
    <3>3. QED BY <3>1, <3>2, GrowsOlder
  <2>3. seen' \in [Address -> Age \cup {Absent}]
    <3>1. \A a \in Age : Limits!Older(a) \in Age BY <1>1 DEF Age, Limits!Older
    <3>2. QED BY <1>2, <2>1, <3>1
  <2>4. DOMAIN window' = Address /\ DOMAIN passed' = Address
        /\ window' = [x \in DOMAIN window' |-> window'[x]]
        /\ passed' = [x \in DOMAIN passed' |-> passed'[x]]
    BY <2>1
  <2>5. window' \in [Address -> Seq(Age)] /\ passed' \in [Address -> Seq(Nat)] BY <2>2, <2>4
  <2>6. QED BY <1>2, <2>1, <2>2, <2>3, <2>5 DEF LimitsInv, Age
<1>7. ASSUME Limits!ClockSetBack PROVE FALSE
  BY <1>7 DEF Limits!ClockSetBack
<1>8. CASE UNCHANGED Limits!vars BY <1>2, <1>8 DEF Limits!vars, LimitsInv, Age
<1>9. QED BY <1>4, <1>5, <1>6, <1>7, <1>8 DEF Limits!Next

\* The limiter lets no more than the limit through in any span and refuses nobody
\* who is below it, as long as the clock is not set back.
THEOREM LimitsKept == Limits!Spec => [](Limits!TypeOK /\ Limits!LimitHolds /\ Limits!RefusedJustly)
<1>1. LimitsInv => Limits!TypeOK /\ Limits!LimitHolds /\ Limits!RefusedJustly
  <2> SUFFICES ASSUME LimitsInv PROVE Limits!TypeOK /\ Limits!LimitHolds /\ Limits!RefusedJustly
    OBVIOUS
  <2>1. -0..(StaleTTL + 1) = Age BY LimitsConstants DEF Age
  <2>2. Limits!TypeOK BY <2>1 DEF LimitsInv, Limits!TypeOK
  <2>3. Limits!LimitHolds
    <3> SUFFICES ASSUME NEW ip \in Address PROVE Len(passed[ip]) <= Limit BY DEF Limits!LimitHolds
    <3>1. /\ window[ip] \in Seq(Age) /\ passed[ip] \in Seq(Nat) /\ Len(window[ip]) <= Limit
          /\ Mirrors(window[ip], passed[ip])
      BY DEF LimitsInv
    <3>2. Len(passed[ip]) <= Len(window[ip]) BY <3>1 DEF Mirrors
    <3>3. QED BY <3>1, <3>2, LimitsConstants
  <2>4. Limits!RefusedJustly BY DEF LimitsInv, Limits!RefusedJustly
  <2>5. QED BY <2>2, <2>3, <2>4
<1>2. QED BY <1>1, LimitsInit, LimitsStep, PTL DEF Limits!Spec
-----------------------------------------------------------------------------
(* SchedulerReload: a reload that meets no other leaves the jobs the table asks for. *)

Plain(a) == <<a, "interval">>
Functions(S, T) == UNION {[D -> T] : D \in SUBSET S}
ReloadThread ==
  [pc : {"idle", "list", "remove", "read", "register"}, todo : SUBSET Jobs!JobId,
   saved : Functions(Jobs!JobId, Jobs!Left), rows : Functions(Scheduled, Plan)]

JobTypes ==
  /\ db \in [Scheduled -> Plan] /\ jobs \in Functions(Jobs!JobId, [plan : Plan, left : Jobs!Left])
  /\ pending \in Functions(Jobs!JobId, Jobs!Left) /\ jobsClock \in 0..(Day - 1) /\ calm \in BOOLEAN
  /\ due \in [Scheduled -> Jobs!Left \cup {Unset}] /\ changes \in 0..MaxChanges
  /\ jobsThread \in [Thread -> ReloadThread]

\* While it is calm at most one request reloads.
Lone(t) == \A u \in Thread \ {t} : jobsThread[u].pc = "idle"
OneReloads == calm => \A t \in Thread : jobsThread[t].pc # "idle" => Lone(t)

\* What the store holds at each step of a reload that is alone.
Stage(r) ==
  /\ r.pc = "remove" => r.todo = DOMAIN jobs
  /\ r.pc = "read" => DOMAIN jobs = {}
  /\ r.pc = "register" =>
       /\ DOMAIN r.rows \subseteq Jobs!Enabled /\ \A a \in DOMAIN r.rows : r.rows[a] = db[a]
       /\ DOMAIN jobs = {Jobs!Id(a, db[a]) : a \in Jobs!Enabled \ DOMAIN r.rows}
       /\ \A j \in DOMAIN jobs : jobs[j].plan = db[j[1]]
Staged ==
  calm => /\ Jobs!AllIdle => Jobs!AsAsked
          /\ \A t \in Thread : Lone(t) => Stage(jobsThread[t])

\* Where what is left of an unchanged interval is while its job is out of the store.
Kept(r, a) ==
  /\ r.pc \in {"idle", "list"} => Plain(a) \in DOMAIN jobs
  /\ r.pc = "remove" /\ Plain(a) \notin DOMAIN jobs =>
       Plain(a) \in DOMAIN r.saved /\ r.saved[Plain(a)] = due[a] /\ due[a] > 0
  /\ r.pc = "read" \/ (r.pc = "register" /\ a \in DOMAIN r.rows) =>
       Plain(a) \in DOMAIN pending /\ pending[Plain(a)] = due[a] /\ due[a] > 0
Due(a) ==
  /\ db[a].kind = "interval"
  /\ Plain(a) \in DOMAIN jobs => jobs[Plain(a)].plan = db[a] /\ jobs[Plain(a)].left = due[a]
Elapsed ==
  \A a \in Scheduled : due[a] # Unset =>
    calm /\ Due(a) /\ \A t \in Thread : Lone(t) => Kept(jobsThread[t], a)

JobsInv == JobTypes /\ OneReloads /\ Staged /\ Elapsed /\ Jobs!OnAnchorGrid

LEMMA JobConstants ==
  /\ Day \in Nat \ {0} /\ Anchor \in 0..(Day - 1) /\ Window \subseteq 0..(Day - 1)
  /\ Plan \subseteq [kind : Jobs!Kinds, step : 1..Day, window : BOOLEAN] /\ MaxChanges \in Nat
  BY PartsAssumption DEF Jobs!PlanAssumption

LEMMA Remainder ==
  ASSUME NEW x \in Int, NEW s \in Nat \ {0}
  PROVE  x = s * (x \div s) + (x % s) /\ x % s \in 0..(s - 1) /\ x \div s \in Int
  OBVIOUS

LEMMA Multiple ==
  ASSUME NEW q \in Int, NEW s \in Nat \ {0}
  PROVE  (s * q) % s = 0
  OBVIOUS

LEMMA MultiplesAdd ==
  ASSUME NEW x \in Int, NEW y \in Int, NEW s \in Nat \ {0}, x % s = 0, y % s = 0
  PROVE  (x + y) % s = 0 /\ (x - y) % s = 0
<1>1. x = s * (x \div s) /\ x \div s \in Int BY Remainder
<1>2. y = s * (y \div s) /\ y \div s \in Int BY Remainder
<1>3. PICK q \in Int, r \in Int : x = s * q /\ y = s * r BY <1>1, <1>2
<1>4. x + y = s * (q + r) /\ x - y = s * (q - r) BY <1>3
<1>5. (s * (q + r)) % s = 0 /\ (s * (q - r)) % s = 0 BY Multiple
<1>6. QED BY <1>4, <1>5

LEMMA FunctionOf ==
  ASSUME NEW S, NEW T, NEW f \in Functions(S, T)
  PROVE  DOMAIN f \subseteq S /\ f \in [DOMAIN f -> T]
  BY DEF Functions

LEMMA FunctionIn ==
  ASSUME NEW S, NEW T, NEW D \in SUBSET S, NEW f \in [D -> T]
  PROVE  f \in Functions(S, T) /\ DOMAIN f = D
  BY DEF Functions

\* A job taken out leaves the others as they were.
LEMMA TakenOut ==
  ASSUME NEW S, NEW T, NEW f \in Functions(S, T), NEW x
  PROVE  Jobs!Without(f, x) \in Functions(S, T)
<1>1. DOMAIN f \subseteq S /\ f \in [DOMAIN f -> T] BY FunctionOf
<1>2. Jobs!Without(f, x) \in [DOMAIN f \ {x} -> T] BY <1>1 DEF Jobs!Without
<1>3. DOMAIN f \ {x} \in SUBSET S BY <1>1
<1>4. QED BY <1>2, <1>3, FunctionIn

\* And a job put in too.
LEMMA PutIn ==
  ASSUME NEW S, NEW T, NEW f \in Functions(S, T), NEW x \in S, NEW v \in T
  PROVE  Jobs!With(f, x, v) \in Functions(S, T)
<1>1. DOMAIN f \subseteq S /\ f \in [DOMAIN f -> T] BY FunctionOf
<1>2. Jobs!With(f, x, v) \in [DOMAIN f \cup {x} -> T] BY <1>1 DEF Jobs!With
<1>3. DOMAIN f \cup {x} \in SUBSET S BY <1>1
<1>4. QED BY <1>2, <1>3, FunctionIn

\* The names of the jobs: one per automation and plan, and of two automations never the same.
LEMMA Names ==
  ASSUME NEW a \in Scheduled, NEW p \in Plan
  PROVE  /\ Jobs!Id(a, p) \in Jobs!JobId /\ Jobs!Id(a, p)[1] = a
         /\ p.kind # "daily" => Jobs!Id(a, p) = Plain(a)
         /\ p.kind = "daily" => Jobs!Id(a, p) # Plain(a)
         /\ \A b \in Scheduled : Plain(b) = Jobs!Id(a, p) => b = a
  BY DEF Jobs!Id, Jobs!JobId, Plain

\* When a new job runs first: within a day, and an anchored one on its grid.
LEMMA FirstRun ==
  ASSUME NEW c \in 0..(Day - 1), jobsClock = c, NEW p \in Plan
  PROVE  /\ Jobs!Until(Anchor) \in 1..Day /\ Jobs!FirstCandidate(p.step) \in 1..Day
         /\ (c + Jobs!FirstCandidate(p.step) - Anchor) % p.step = 0
<1>1. Day \in Nat \ {0} /\ Anchor \in 0..(Day - 1) /\ p.step \in 1..Day BY JobConstants
<1>2. Jobs!Until(Anchor) \in 1..Day
  <2>1. (Anchor - c - 1) % Day \in 0..(Day - 1) BY <1>1, Remainder
  <2>2. QED BY <1>1, <2>1 DEF Jobs!Until
<1>3. CASE Anchor > c
  <2>1. Jobs!FirstCandidate(p.step) = Anchor - c BY <1>3 DEF Jobs!FirstCandidate
  <2>2. c + (Anchor - c) - Anchor = 0 /\ Anchor - c \in 1..Day BY <1>1, <1>3
  <2>3. 0 % p.step = 0 BY <1>1
  <2>4. QED BY <1>2, <2>1, <2>2, <2>3
<1>4. CASE ~(Anchor > c)
  <2> DEFINE r == (c - Anchor) % p.step
  <2>1. Jobs!FirstCandidate(p.step) = p.step - r BY <1>4 DEF Jobs!FirstCandidate
  <2>2. c - Anchor \in Int /\ p.step \in Nat \ {0} BY <1>1
  <2>3. r \in 0..(p.step - 1) BY <2>2, Remainder
  <2>4. ((c - Anchor) - r) % p.step = 0
    <3>1. c - Anchor = p.step * ((c - Anchor) \div p.step) + r /\ (c - Anchor) \div p.step \in Int BY <2>2, Remainder
    <3>2. PICK q \in Int : c - Anchor = p.step * q + r BY <3>1
    <3>3. (c - Anchor) - r = p.step * q BY <2>2, <2>3, <3>2
    <3>4. QED BY <2>2, <3>3, Multiple
  <2>5. p.step % p.step = 0 BY <2>2
  <2>6. (((c - Anchor) - r) + p.step) % p.step = 0 BY <2>2, <2>3, <2>4, <2>5, MultiplesAdd
  <2>7. ((c - Anchor) - r) + p.step = c + (p.step - r) - Anchor BY <1>1, <2>2, <2>3
  <2>8. p.step - r \in 1..Day BY <1>1, <2>2, <2>3
  <2>9. QED BY <1>2, <2>1, <2>6, <2>7, <2>8
<1>5. QED BY <1>3, <1>4

\* A store that is filled at one stroke: at the start of the process.
Filled ==
  /\ db \in [Scheduled -> Plan] /\ jobsClock \in 0..(Day - 1) /\ changes \in 0..MaxChanges
  /\ jobs = Jobs!Fresh /\ pending = Jobs!Nothing /\ jobsThread = [t \in Thread |-> Jobs!Idle]
  /\ calm = TRUE /\ due = Jobs!FreshDue

LEMMA NothingIn == \A S, T : Jobs!Nothing \in Functions(S, T)
<1> TAKE S, T
<1>1. {} \in SUBSET S /\ Jobs!Nothing \in [{} -> T] BY DEF Jobs!Nothing
<1>2. QED BY <1>1, FunctionIn

LEMMA FilledSafe == Filled => JobsInv
<1> SUFFICES ASSUME Filled PROVE JobsInv OBVIOUS
<1>1. /\ db \in [Scheduled -> Plan] /\ jobs = Jobs!Fresh /\ pending = Jobs!Nothing
      /\ jobsThread = [t \in Thread |-> Jobs!Idle] /\ calm = TRUE /\ changes \in 0..MaxChanges
      /\ due = [a \in Scheduled |-> IF db[a].kind = "interval" THEN db[a].step ELSE Unset]
  BY DEF Filled, Jobs!FreshDue
<1>2. jobsClock \in 0..(Day - 1) BY DEF Filled
<1>3. DOMAIN jobs = {Jobs!Id(a, db[a]) : a \in Jobs!Enabled} BY <1>1 DEF Jobs!Fresh
<1>4. ASSUME NEW a \in Jobs!Enabled
      PROVE  LET j == Jobs!Id(a, db[a])
             IN  /\ j \in Jobs!JobId /\ j[1] = a /\ jobs[j] \in [plan : Plan, left : Jobs!Left]
                 /\ jobs[j].plan = db[a]
                 /\ db[a].kind = "anchored" => jobs[j].left = Jobs!FirstCandidate(db[a].step)
                 /\ db[a].kind = "interval" => jobs[j].left = db[a].step
  <2> DEFINE j == Jobs!Id(a, db[a])
             p == db[a]
  <2>1. a \in Scheduled /\ p \in Plan /\ p \in [kind : Jobs!Kinds, step : 1..Day, window : BOOLEAN]
    BY <1>1, JobConstants DEF Jobs!Enabled
  <2>2. j \in Jobs!JobId /\ j[1] = a BY <2>1, Names
  <2> HIDE DEF j
  <2>3. jobs[j] = [plan |-> db[j[1]],
                   left |-> CASE db[j[1]].kind = "daily" -> Jobs!Until(Anchor)
                              [] db[j[1]].kind = "anchored" -> Jobs!FirstCandidate(db[j[1]].step)
                              [] OTHER -> db[j[1]].step]
    BY <1>1, <1>3 DEF Jobs!Fresh, j
  <2>4. jobs[j].plan = p BY <2>2, <2>3
  <2>5. p.kind = "daily" => jobs[j].left = Jobs!Until(Anchor) BY <2>2, <2>3
  <2>6. p.kind = "anchored" => jobs[j].left = Jobs!FirstCandidate(p.step) BY <2>2, <2>3
  <2>7. p.kind \notin {"daily", "anchored"} => jobs[j].left = p.step BY <2>2, <2>3
  <2>8. Jobs!Until(Anchor) \in 1..Day /\ Jobs!FirstCandidate(p.step) \in 1..Day
    BY <1>2, <2>1, FirstRun
  <2>9. jobs[j].left \in Jobs!Left BY <2>1, <2>5, <2>6, <2>7, <2>8, JobConstants DEF Jobs!Left
  <2>10. jobs[j] \in [plan : Plan, left : Jobs!Left] BY <2>1, <2>3, <2>4, <2>9
  <2>11. QED BY <2>2, <2>4, <2>6, <2>7, <2>10 DEF j
<1>5. jobs \in Functions(Jobs!JobId, [plan : Plan, left : Jobs!Left])
  <2>1. DOMAIN jobs \in SUBSET Jobs!JobId BY <1>3, <1>4
  <2>2. jobs \in [DOMAIN jobs -> [plan : Plan, left : Jobs!Left]]
    <3> DEFINE J == [plan : Plan, left : Jobs!Left]
    <3>1. jobs = [j \in DOMAIN jobs |-> jobs[j]] BY <1>1 DEF Jobs!Fresh
    <3>2. \A j \in DOMAIN jobs : jobs[j] \in J BY <1>3, <1>4
    <3> HIDE DEF J
    <3>3. jobs \in [DOMAIN jobs -> J] BY <3>1, <3>2
    <3>4. QED BY <3>3 DEF J
  <2>3. QED BY <2>1, <2>2, FunctionIn
<1>6. due \in [Scheduled -> Jobs!Left \cup {Unset}]
  <2>1. \A a \in Scheduled : db[a].step \in Jobs!Left BY <1>1, JobConstants DEF Jobs!Left
  <2>2. QED BY <1>1, <2>1
<1>7. \A t \in Thread : jobsThread[t].pc = "idle" BY <1>1 DEF Jobs!Idle
<1>8. JobTypes
  <2>1. Jobs!Idle \in ReloadThread BY NothingIn DEF Jobs!Idle, ReloadThread
  <2>2. jobsThread \in [Thread -> ReloadThread] BY <1>1, <2>1
  <2>3. QED BY <1>1, <1>2, <1>5, <1>6, <2>2, NothingIn DEF JobTypes
<1>9. OneReloads BY <1>7 DEF OneReloads
<1>10. Staged
  <2>1. Jobs!AsAsked BY <1>3, <1>4 DEF Jobs!AsAsked
  <2>2. QED BY <1>7, <2>1 DEF Staged, Stage
<1>11. Elapsed
  <2> SUFFICES ASSUME NEW a \in Scheduled, due[a] # Unset
               PROVE  Due(a) /\ Plain(a) \in DOMAIN jobs
    BY <1>1, <1>7 DEF Elapsed, Kept
  <2>1. db[a].kind = "interval" /\ due[a] = db[a].step BY <1>1
  <2>2. a \in Jobs!Enabled /\ db[a] \in Plan BY <1>1, <2>1 DEF Jobs!Enabled
  <2>3. Jobs!Id(a, db[a]) = Plain(a) BY <2>1, <2>2, Names
  <2>4. QED BY <1>3, <1>4, <2>1, <2>2, <2>3 DEF Due
<1>12. Jobs!OnAnchorGrid
  <2> SUFFICES ASSUME NEW j \in DOMAIN jobs, jobs[j].plan.kind = "anchored"
               PROVE  (jobsClock + jobs[j].left - Anchor) % jobs[j].plan.step = 0
    BY DEF Jobs!OnAnchorGrid
  <2>1. PICK a \in Jobs!Enabled : j = Jobs!Id(a, db[a]) BY <1>3
  <2>2. jobs[j].plan = db[a] /\ jobs[j].left = Jobs!FirstCandidate(db[a].step) BY <1>4, <2>1
  <2>3. db[a] \in Plan BY <1>1 DEF Jobs!Enabled
  <2>4. QED BY <1>2, <2>2, <2>3, FirstRun
<1>13. QED BY <1>8, <1>9, <1>10, <1>11, <1>12 DEF JobsInv

LEMMA JobsInit == Jobs!Init => JobsInv
<1>1. 0 \in 0..(Day - 1) /\ 0 \in 0..MaxChanges BY JobConstants
<1>2. Jobs!Init => Filled BY <1>1 DEF Jobs!Init, Filled
<1>3. QED BY <1>2, FilledSafe

\* A new process fills its store before its first request.
LEMMA RestartSafe ==
  ASSUME JobsInv, Jobs!Restart
  PROVE  JobsInv'
<1>1. Filled' => JobsInv' BY FilledSafe, PTL
<1>2. JobTypes BY DEF JobsInv
<1>3. /\ UNCHANGED <<db, jobsClock, changes>> /\ jobs' = Jobs!Fresh /\ pending' = Jobs!Nothing
      /\ jobsThread' = [t \in Thread |-> Jobs!Idle] /\ calm' = TRUE /\ due' = Jobs!FreshDue
  BY DEF Jobs!Restart
<1>4. Jobs!Fresh' = Jobs!Fresh /\ Jobs!FreshDue' = Jobs!FreshDue
  BY <1>3 DEF Jobs!Fresh, Jobs!FreshDue, Jobs!Enabled, Jobs!Until, Jobs!FirstCandidate, Jobs!Id
<1>5. Filled' BY <1>2, <1>3, <1>4 DEF Filled, JobTypes
<1>6. QED BY <1>1, <1>5

\* One thread takes a step.
LEMMA OneThread ==
  ASSUME JobTypes, NEW t \in Thread, NEW r \in ReloadThread, jobsThread' = [jobsThread EXCEPT ![t] = r]
  PROVE  /\ jobsThread' \in [Thread -> ReloadThread] /\ jobsThread'[t] = r
         /\ \A u \in Thread \ {t} : jobsThread'[u] = jobsThread[u]
  BY DEF JobTypes

\* While reloads overlap only the types and the anchors are kept.
LEMMA Uncalm ==
  ASSUME JobTypes', Jobs!OnAnchorGrid', ~calm', \A a \in Scheduled : due'[a] = Unset
  PROVE  JobsInv'
  BY DEF JobsInv, OneReloads, Staged, Elapsed

\* While it is calm the one that reloads is all there is to look at.
LEMMA Focus ==
  ASSUME NEW t \in Thread, JobTypes', Jobs!OnAnchorGrid', calm', Lone(t)',
         Stage(jobsThread[t])', jobsThread'[t].pc = "idle" => Jobs!AsAsked',
         \A a \in Scheduled : due'[a] # Unset => Due(a)' /\ Kept(jobsThread[t], a)'
  PROVE  JobsInv'
<1>1. \A u \in Thread \ {t} : jobsThread'[u].pc = "idle" BY DEF Lone
<1>2. OneReloads' BY <1>1 DEF OneReloads, Lone
<1>3. Staged'
  <2>1. Jobs!AllIdle' => Jobs!AsAsked' BY DEF Jobs!AllIdle
  <2>2. ASSUME NEW u \in Thread, u # t PROVE Stage(jobsThread[u])'
    BY <1>1, <2>2 DEF Stage
  <2>3. QED BY <2>1, <2>2 DEF Staged
<1>4. Elapsed'
  <2> SUFFICES ASSUME NEW a \in Scheduled, due'[a] # Unset, NEW u \in Thread, Lone(u)'
               PROVE  Kept(jobsThread[u], a)'
    BY DEF Elapsed
  <2>1. CASE u = t BY <2>1
  <2>2. CASE u # t
    <3>1. jobsThread'[t].pc = "idle" BY <2>2 DEF Lone
    <3>2. Plain(a)' \in DOMAIN jobs' BY <3>1 DEF Kept
    <3>3. jobsThread'[u].pc = "idle" BY <1>1, <2>2
    <3>4. QED BY <3>2, <3>3 DEF Kept
  <2>3. QED BY <2>1, <2>2
<1>5. QED BY <1>2, <1>3, <1>4 DEF JobsInv

\* What a step of the only thread that reloads may build on.
LEMMA Focused ==
  ASSUME JobsInv, calm, NEW t \in Thread, jobsThread[t].pc # "idle",
         \A u \in Thread \ {t} : jobsThread'[u] = jobsThread[u]
  PROVE  /\ Lone(t)' /\ Stage(jobsThread[t])
         /\ \A a \in Scheduled : due[a] # Unset => Due(a) /\ Kept(jobsThread[t], a)
<1>1. Lone(t) BY DEF JobsInv, OneReloads
<1>2. Lone(t)' BY <1>1 DEF Lone
<1>3. QED BY <1>1, <1>2 DEF JobsInv, Staged, Elapsed

\* A request begins: alone, a plan that stays as it is keeps its job.
LEMMA BeginSafe ==
  ASSUME JobsInv, NEW t \in Thread,
         (\E a \in Scheduled, p \in Plan : Jobs!Change(t, a, p)) \/ Jobs!PauseAll(t) \/ Jobs!Reload(t)
  PROVE  JobsInv'
<1>1. JobTypes /\ Elapsed /\ Jobs!OnAnchorGrid BY DEF JobsInv
<1>2. /\ jobsThread[t].pc = "idle" /\ jobsThread' = [jobsThread EXCEPT ![t].pc = "list"]
      /\ calm' = Jobs!AllIdle /\ UNCHANGED <<jobs, pending, jobsClock>>
  BY DEF Jobs!Change, Jobs!PauseAll, Jobs!Reload, Jobs!Begins
<1>3. /\ db' \in [Scheduled -> Plan] /\ due' \in [Scheduled -> Jobs!Left \cup {Unset}] /\ changes' \in 0..MaxChanges
      /\ \A a \in Scheduled : due'[a] # Unset => Jobs!AllIdle /\ due'[a] = due[a] /\ db'[a] = db[a]
  <2>1. /\ db \in [Scheduled -> Plan] /\ due \in [Scheduled -> Jobs!Left \cup {Unset}]
        /\ changes \in 0..MaxChanges /\ MaxChanges \in Nat
    BY <1>1, JobConstants DEF JobTypes
  <2>2. ASSUME NEW S, Jobs!Begins(t, S)
        PROVE  /\ due' \in [Scheduled -> Jobs!Left \cup {Unset}]
               /\ \A b \in Scheduled : due'[b] # Unset => Jobs!AllIdle /\ due'[b] = due[b] /\ b \notin S
    BY <2>1, <2>2 DEF Jobs!Begins
  <2>3. ASSUME NEW a \in Scheduled, NEW p \in Plan, Jobs!Change(t, a, p)
        PROVE  /\ db' \in [Scheduled -> Plan] /\ changes' \in 0..MaxChanges /\ Jobs!Begins(t, {a})
               /\ \A b \in Scheduled : b \notin {a} => db'[b] = db[b]
    <3>1. /\ changes < MaxChanges /\ changes' = changes + 1 /\ db' = [db EXCEPT ![a] = p]
          /\ Jobs!Begins(t, {a})
      BY <2>3 DEF Jobs!Change
    <3>2. changes' \in 0..MaxChanges BY <2>1, <3>1
    <3>3. QED BY <2>1, <3>1, <3>2
  <2>4. ASSUME Jobs!PauseAll(t)
        PROVE  db' \in [Scheduled -> Plan] /\ changes' \in 0..MaxChanges /\ Jobs!Begins(t, Scheduled)
    <3>1. PICK p \in Plan : db' = [a \in Scheduled |-> p] BY <2>4 DEF Jobs!PauseAll
    <3>2. changes < MaxChanges /\ changes' = changes + 1 /\ Jobs!Begins(t, Scheduled)
      BY <2>4 DEF Jobs!PauseAll
    <3>3. changes' \in 0..MaxChanges BY <2>1, <3>2
    <3>4. QED BY <3>1, <3>2, <3>3
  <2>5. ASSUME Jobs!Reload(t) PROVE UNCHANGED <<db, changes>> /\ Jobs!Begins(t, {})
    BY <2>5 DEF Jobs!Reload
  <2>6. QED BY <2>1, <2>2, <2>3, <2>4, <2>5
<1> DEFINE r == [jobsThread[t] EXCEPT !.pc = "list"]
<1>4. jobsThread[t] \in ReloadThread BY <1>1 DEF JobTypes
<1>5. r \in ReloadThread /\ r.pc = "list" BY <1>4 DEF ReloadThread
<1>6. jobsThread' = [jobsThread EXCEPT ![t] = r] BY <1>2
<1> HIDE DEF r
<1>7. /\ jobsThread' \in [Thread -> ReloadThread] /\ jobsThread'[t].pc = "list"
      /\ \A u \in Thread \ {t} : jobsThread'[u] = jobsThread[u]
  BY <1>1, <1>5, <1>6, OneThread
<1>8. JobTypes' BY <1>1, <1>2, <1>3, <1>7 DEF JobTypes, Jobs!AllIdle
<1>9. Jobs!OnAnchorGrid' BY <1>1, <1>2 DEF Jobs!OnAnchorGrid
<1>10. CASE Jobs!AllIdle
  <2>1. Lone(t) /\ Lone(t)' BY <1>7, <1>10 DEF Lone, Jobs!AllIdle
  <2>2. Stage(jobsThread[t])' BY <1>7 DEF Stage
  <2>3. ASSUME NEW a \in Scheduled, due'[a] # Unset PROVE Due(a)' /\ Kept(jobsThread[t], a)'
    <3>1. due'[a] = due[a] /\ db'[a] = db[a] BY <1>3, <2>3
    <3>2. Due(a) /\ Kept(jobsThread[t], a) BY <1>1, <2>1, <2>3, <3>1 DEF Elapsed
    <3>3. Plain(a) \in DOMAIN jobs BY <1>2, <3>2 DEF Kept
    <3>4. QED BY <1>2, <1>7, <3>1, <3>2, <3>3 DEF Due, Kept, Plain
  <2>4. QED BY <1>2, <1>7, <1>8, <1>9, <1>10, <2>1, <2>2, <2>3, Focus
<1>11. CASE ~Jobs!AllIdle BY <1>2, <1>3, <1>8, <1>9, <1>11, Uncalm
<1>12. QED BY <1>10, <1>11

\* The old jobs go, one by one, and leave what was left of them.
LEMMA RemoveSafe ==
  ASSUME JobsInv, NEW t \in Thread, Jobs!List(t) \/ Jobs!Remove(t) \/ Jobs!RemoveFails(t) \/ Jobs!Park(t)
  PROVE  JobsInv'
<1>1. JobTypes /\ Elapsed /\ Jobs!OnAnchorGrid BY DEF JobsInv
<1>2. UNCHANGED <<db, jobsClock, calm, changes>>
  BY DEF Jobs!List, Jobs!Remove, Jobs!RemoveFails, Jobs!Park
<1>3. jobsThread[t] \in ReloadThread /\ calm \in BOOLEAN BY <1>1 DEF JobTypes
<1>4. ~calm => \A a \in Scheduled : due[a] = Unset BY <1>1 DEF Elapsed
<1>5. CASE Jobs!List(t)
  <2> DEFINE r == [jobsThread[t] EXCEPT !.pc = "remove", !.todo = DOMAIN jobs]
  <2>1. /\ jobsThread[t].pc = "list" /\ UNCHANGED <<jobs, pending, due>>
        /\ jobsThread' = [jobsThread EXCEPT ![t] = r]
    BY <1>5 DEF Jobs!List
  <2>2. DOMAIN jobs \subseteq Jobs!JobId BY <1>1, FunctionOf DEF JobTypes
  <2>3. r \in ReloadThread /\ r.pc = "remove" /\ r.todo = DOMAIN jobs BY <1>3, <2>2 DEF ReloadThread
  <2> HIDE DEF r
  <2>4. /\ jobsThread' \in [Thread -> ReloadThread] /\ jobsThread'[t] = r
        /\ \A u \in Thread \ {t} : jobsThread'[u] = jobsThread[u]
    BY <1>1, <2>1, <2>3, OneThread
  <2>5. JobTypes' BY <1>1, <1>2, <2>1, <2>4 DEF JobTypes
  <2>6. Jobs!OnAnchorGrid' BY <1>1, <1>2, <2>1 DEF Jobs!OnAnchorGrid
  <2>7. CASE calm
    <3>1. /\ Lone(t)' /\ Stage(jobsThread[t])
          /\ \A a \in Scheduled : due[a] # Unset => Due(a) /\ Kept(jobsThread[t], a)
      BY <2>1, <2>4, <2>7, Focused
    <3>2. Stage(jobsThread[t])' BY <2>1, <2>3, <2>4 DEF Stage
    <3>3. ASSUME NEW a \in Scheduled, due'[a] # Unset PROVE Due(a)' /\ Kept(jobsThread[t], a)'
      <4>1. Due(a) /\ Plain(a) \in DOMAIN jobs BY <2>1, <3>1, <3>3 DEF Kept
      <4>2. QED BY <1>2, <2>1, <2>3, <2>4, <4>1 DEF Due, Kept, Plain
    <3>4. QED BY <1>2, <2>3, <2>4, <2>5, <2>6, <2>7, <3>1, <3>2, <3>3, Focus
  <2>8. CASE ~calm BY <1>2, <1>4, <2>1, <2>5, <2>6, <2>8, Uncalm
  <2>9. QED BY <1>3, <2>7, <2>8
<1>6. CASE Jobs!Remove(t)
  <2>1. PICK j \in jobsThread[t].todo \cap DOMAIN jobs :
          /\ jobs' = Jobs!Without(jobs, j)
          /\ jobsThread' = [jobsThread EXCEPT ![t].todo = @ \ {j},
               ![t].saved = IF j[2] = "interval" THEN Jobs!With(@, j, jobs[j].left) ELSE @]
          /\ due' = IF jobs[j].left = 0 THEN [due EXCEPT ![j[1]] = Unset] ELSE due
    BY <1>6 DEF Jobs!Remove
  <2>2. jobsThread[t].pc = "remove" /\ pending' = pending BY <1>6 DEF Jobs!Remove
  <2> DEFINE q == jobsThread[t]
             s == IF j[2] = "interval" THEN Jobs!With(q.saved, j, jobs[j].left) ELSE q.saved
             r == [q EXCEPT !.todo = q.todo \ {j}, !.saved = s]
  <2>3. jobsThread' = [jobsThread EXCEPT ![t] = r] BY <2>1
  <2>4. /\ DOMAIN jobs \subseteq Jobs!JobId /\ jobs \in [DOMAIN jobs -> [plan : Plan, left : Jobs!Left]]
        /\ q.saved \in Functions(Jobs!JobId, Jobs!Left) /\ q.todo \in SUBSET Jobs!JobId
    <3>1. jobs \in Functions(Jobs!JobId, [plan : Plan, left : Jobs!Left]) BY <1>1 DEF JobTypes
    <3>2. q.saved \in Functions(Jobs!JobId, Jobs!Left) /\ q.todo \in SUBSET Jobs!JobId BY <1>3 DEF ReloadThread
    <3>3. QED BY <3>1, <3>2, FunctionOf
  <2>5. s \in Functions(Jobs!JobId, Jobs!Left)
    <3>1. j \in Jobs!JobId /\ jobs[j].left \in Jobs!Left BY <2>4
    <3>2. Jobs!With(q.saved, j, jobs[j].left) \in Functions(Jobs!JobId, Jobs!Left)
      BY <2>4, <3>1, PutIn
    <3>3. QED BY <2>4, <3>2
  <2> HIDE DEF s
  <2>6. r \in ReloadThread /\ r.pc = "remove" /\ r.todo = q.todo \ {j} /\ r.saved = s
    BY <1>3, <2>2, <2>5 DEF ReloadThread
  <2> HIDE DEF r
  <2>7. /\ jobsThread' \in [Thread -> ReloadThread] /\ jobsThread'[t] = r
        /\ \A u \in Thread \ {t} : jobsThread'[u] = jobsThread[u]
    BY <1>1, <2>3, <2>6, OneThread
  <2>8. DOMAIN jobs' = DOMAIN jobs \ {j} /\ \A i \in DOMAIN jobs' : jobs'[i] = jobs[i]
    BY <2>1 DEF Jobs!Without
  <2>9. jobs' \in Functions(Jobs!JobId, [plan : Plan, left : Jobs!Left])
    <3>1. jobs' \in [DOMAIN jobs \ {j} -> [plan : Plan, left : Jobs!Left]] BY <2>1, <2>4 DEF Jobs!Without
    <3>2. DOMAIN jobs \ {j} \in SUBSET Jobs!JobId BY <2>4
    <3>3. QED BY <3>1, <3>2, FunctionIn
  <2>10. /\ due' \in [Scheduled -> Jobs!Left \cup {Unset}]
         /\ \A a \in Scheduled : due'[a] # Unset =>
              due'[a] = due[a] /\ due[a] # Unset /\ (Plain(a) = j => jobs[j].left # 0)
    <3>1. due \in [Scheduled -> Jobs!Left \cup {Unset}] BY <1>1 DEF JobTypes
    <3>2. j[1] \in Scheduled /\ \A a \in Scheduled : Plain(a) = j => j[1] = a BY <2>4 DEF Jobs!JobId, Plain
    <3>3. CASE jobs[j].left = 0
      <4>1. due' = [due EXCEPT ![j[1]] = Unset] BY <2>1, <3>3
      <4>2. QED BY <3>1, <3>2, <4>1
    <3>4. CASE jobs[j].left # 0
      <4>1. due' = due BY <2>1, <3>4
      <4>2. QED BY <3>1, <3>4, <4>1
    <3>5. QED BY <3>3, <3>4
  <2>11. JobTypes' BY <1>1, <1>2, <2>2, <2>7, <2>9, <2>10 DEF JobTypes
  <2>12. Jobs!OnAnchorGrid' BY <1>1, <1>2, <2>8 DEF Jobs!OnAnchorGrid
  <2>13. CASE calm
    <3>1. /\ Lone(t)' /\ Stage(q)
          /\ \A a \in Scheduled : due[a] # Unset => Due(a) /\ Kept(q, a)
      BY <2>2, <2>7, <2>13, Focused
    <3>2. Stage(jobsThread[t])' BY <2>2, <2>6, <2>7, <2>8, <3>1 DEF Stage
    <3>3. ASSUME NEW a \in Scheduled, due'[a] # Unset PROVE Due(a)' /\ Kept(jobsThread[t], a)'
      <4>1. due'[a] = due[a] /\ Due(a) /\ Kept(q, a) /\ (Plain(a) = j => jobs[j].left # 0)
        BY <2>10, <3>1, <3>3
      <4>2. Due(a)' BY <1>2, <2>8, <4>1 DEF Due, Plain
      <4>3. Plain(a) \notin DOMAIN jobs' => Plain(a) \in DOMAIN s /\ s[Plain(a)] = due[a] /\ due[a] > 0
        <5>1. CASE Plain(a) = j
          <6>1. s = Jobs!With(q.saved, j, jobs[j].left) BY <5>1 DEF s, Plain
          <6>2. j \in DOMAIN s /\ s[j] = jobs[j].left BY <6>1 DEF Jobs!With
          <6>3. jobs[j].left = due[a] /\ jobs[j].left \in Jobs!Left BY <2>4, <4>1, <5>1 DEF Due
          <6>4. due[a] > 0 BY <4>1, <5>1, <6>3, JobConstants DEF Jobs!Left
          <6>5. QED BY <5>1, <6>2, <6>3, <6>4
        <5>2. CASE Plain(a) # j
          <6>1. Plain(a) \in DOMAIN jobs <=> Plain(a) \in DOMAIN jobs' BY <2>8, <5>2
          <6>2. Plain(a) \in DOMAIN q.saved => Plain(a) \in DOMAIN s /\ s[Plain(a)] = q.saved[Plain(a)]
            BY <5>2 DEF s, Jobs!With
          <6>3. QED BY <2>2, <4>1, <6>1, <6>2 DEF Kept
        <5>3. QED BY <5>1, <5>2
      <4>4. QED BY <2>6, <2>7, <4>1, <4>2, <4>3 DEF Kept, Plain
    <3>4. QED BY <1>2, <2>6, <2>7, <2>11, <2>12, <2>13, <3>1, <3>2, <3>3, Focus
  <2>14. CASE ~calm BY <1>2, <1>4, <2>10, <2>11, <2>12, <2>14, Uncalm
  <2>15. QED BY <1>3, <2>13, <2>14
<1>7. CASE Jobs!RemoveFails(t)
  <2>1. /\ jobsThread[t].pc = "remove" /\ jobsThread[t].todo \ DOMAIN jobs # {}
        /\ jobsThread' = [jobsThread EXCEPT ![t] = Jobs!Idle] /\ UNCHANGED <<jobs, pending, due>>
    BY <1>7 DEF Jobs!RemoveFails
  <2>2. Jobs!Idle \in ReloadThread BY NothingIn DEF Jobs!Idle, ReloadThread
  <2>3. /\ jobsThread' \in [Thread -> ReloadThread]
        /\ \A u \in Thread \ {t} : jobsThread'[u] = jobsThread[u]
    BY <1>1, <2>1, <2>2, OneThread
  <2>4. ~calm
    <3> SUFFICES ASSUME calm PROVE FALSE BY <1>3
    <3>1. Stage(jobsThread[t]) BY <2>1, <2>3, Focused
    <3>2. QED BY <2>1, <3>1 DEF Stage
  <2>5. JobTypes' BY <1>1, <1>2, <2>1, <2>3 DEF JobTypes
  <2>6. Jobs!OnAnchorGrid' BY <1>1, <1>2, <2>1 DEF Jobs!OnAnchorGrid
  <2>7. QED BY <1>2, <1>4, <2>1, <2>4, <2>5, <2>6, Uncalm
<1>8. CASE Jobs!Park(t)
  <2> DEFINE q == jobsThread[t]
             r == [q EXCEPT !.pc = "read", !.saved = Jobs!Nothing]
  <2>1. /\ q.pc = "remove" /\ q.todo = {} /\ pending' = q.saved /\ UNCHANGED <<jobs, due>>
        /\ jobsThread' = [jobsThread EXCEPT ![t] = r]
    BY <1>8 DEF Jobs!Park
  <2>2. r \in ReloadThread /\ r.pc = "read" BY <1>3, NothingIn DEF ReloadThread
  <2>3. pending' \in Functions(Jobs!JobId, Jobs!Left) BY <1>3, <2>1 DEF ReloadThread
  <2> HIDE DEF r
  <2>4. /\ jobsThread' \in [Thread -> ReloadThread] /\ jobsThread'[t] = r
        /\ \A u \in Thread \ {t} : jobsThread'[u] = jobsThread[u]
    BY <1>1, <2>1, <2>2, OneThread
  <2>5. JobTypes' BY <1>1, <1>2, <2>1, <2>3, <2>4 DEF JobTypes
  <2>6. Jobs!OnAnchorGrid' BY <1>1, <1>2, <2>1 DEF Jobs!OnAnchorGrid
  <2>7. CASE calm
    <3>1. /\ Lone(t)' /\ Stage(q)
          /\ \A a \in Scheduled : due[a] # Unset => Due(a) /\ Kept(q, a)
      BY <2>1, <2>4, <2>7, Focused
    <3>2. DOMAIN jobs = {} BY <2>1, <3>1 DEF Stage
    <3>3. Stage(jobsThread[t])' BY <2>1, <2>2, <2>4, <3>2 DEF Stage
    <3>4. ASSUME NEW a \in Scheduled, due'[a] # Unset PROVE Due(a)' /\ Kept(jobsThread[t], a)'
      <4>1. Due(a) /\ Kept(q, a) BY <2>1, <3>1, <3>4
      <4>2. QED BY <1>2, <2>1, <2>2, <2>4, <3>2, <4>1 DEF Due, Kept, Plain
    <3>5. QED BY <1>2, <2>2, <2>4, <2>5, <2>6, <2>7, <3>1, <3>3, <3>4, Focus
  <2>8. CASE ~calm BY <1>2, <1>4, <2>1, <2>5, <2>6, <2>8, Uncalm
  <2>9. QED BY <1>3, <2>7, <2>8
<1>9. QED BY <1>5, <1>6, <1>7, <1>8

LEMMA FirstOf ==
  ASSUME JobTypes, NEW a \in Scheduled, NEW p \in Plan
  PROVE  /\ Jobs!First(a, p) \in 1..Day
         /\ p.kind = "anchored" => (jobsClock + Jobs!First(a, p) - Anchor) % p.step = 0
         /\ p.kind = "interval" /\ Plain(a) \in DOMAIN pending /\ pending[Plain(a)] > 0 =>
              Jobs!First(a, p) = pending[Plain(a)]
<1>1. jobsClock \in 0..(Day - 1) /\ Day \in Nat \ {0} /\ p.step \in 1..Day
  BY JobConstants DEF JobTypes
<1>2. /\ Jobs!Until(Anchor) \in 1..Day /\ Jobs!FirstCandidate(p.step) \in 1..Day
      /\ (jobsClock + Jobs!FirstCandidate(p.step) - Anchor) % p.step = 0
  BY <1>1, FirstRun
<1>3. p.kind = "daily" => Jobs!First(a, p) = Jobs!Until(Anchor) BY DEF Jobs!First
<1>4. p.kind = "anchored" => Jobs!First(a, p) = Jobs!FirstCandidate(p.step) BY DEF Jobs!First
<1>5. p.kind \notin {"daily", "anchored"} =>
        Jobs!First(a, p) = IF Jobs!Id(a, p) \in DOMAIN pending /\ pending[Jobs!Id(a, p)] > 0
                             THEN pending[Jobs!Id(a, p)] ELSE p.step
  BY DEF Jobs!First
<1>6. \A j \in DOMAIN pending : pending[j] \in 0..Day
  <2>1. pending \in [DOMAIN pending -> Jobs!Left] BY FunctionOf DEF JobTypes
  <2>2. QED BY <2>1 DEF Jobs!Left
<1>7. p.kind \notin {"daily", "anchored"} => Jobs!First(a, p) \in 1..Day
  BY <1>1, <1>5, <1>6
<1>8. Jobs!First(a, p) \in 1..Day BY <1>2, <1>3, <1>4, <1>7
<1>9. p.kind = "interval" => Jobs!Id(a, p) = Plain(a) BY Names
<1>10. QED BY <1>2, <1>4, <1>5, <1>8, <1>9

\* The rows are read, and each gets its job with what was left of the old one.
LEMMA RegisterSafe ==
  ASSUME JobsInv, NEW t \in Thread, Jobs!Read(t) \/ Jobs!Register(t) \/ Jobs!Done(t)
  PROVE  JobsInv'
<1>1. JobTypes /\ Elapsed /\ Jobs!OnAnchorGrid BY DEF JobsInv
<1>2. UNCHANGED <<db, jobsClock, calm, changes>> BY DEF Jobs!Read, Jobs!Register, Jobs!Done
<1>3. jobsThread[t] \in ReloadThread /\ calm \in BOOLEAN /\ db \in [Scheduled -> Plan] BY <1>1 DEF JobTypes
<1>4. ~calm => \A a \in Scheduled : due[a] = Unset BY <1>1 DEF Elapsed
<1> DEFINE q == jobsThread[t]
<1>5. CASE Jobs!Read(t)
  <2> DEFINE s == [a \in Jobs!Enabled |-> db[a]]
             r == [q EXCEPT !.pc = "register", !.rows = s]
  <2>1. /\ q.pc = "read" /\ UNCHANGED <<jobs, pending, due>>
        /\ jobsThread' = [jobsThread EXCEPT ![t] = r]
    BY <1>5 DEF Jobs!Read
  <2>2. s \in Functions(Scheduled, Plan)
    <3>1. Jobs!Enabled \in SUBSET Scheduled BY DEF Jobs!Enabled
    <3>2. s \in [Jobs!Enabled -> Plan] BY <1>3, <3>1
    <3>3. QED BY <3>1, <3>2, FunctionIn
  <2>3. DOMAIN s = Jobs!Enabled /\ \A a \in DOMAIN s : s[a] = db[a] OBVIOUS
  <2> HIDE DEF s
  <2>4. r \in ReloadThread /\ r.pc = "register" /\ r.rows = s BY <1>3, <2>2 DEF ReloadThread
  <2> HIDE DEF r
  <2>5. /\ jobsThread' \in [Thread -> ReloadThread] /\ jobsThread'[t] = r
        /\ \A u \in Thread \ {t} : jobsThread'[u] = jobsThread[u]
    BY <1>1, <2>1, <2>4, OneThread
  <2>6. JobTypes' BY <1>1, <1>2, <2>1, <2>5 DEF JobTypes
  <2>7. Jobs!OnAnchorGrid' BY <1>1, <1>2, <2>1 DEF Jobs!OnAnchorGrid
  <2>8. CASE calm
    <3>1. /\ Lone(t)' /\ Stage(q)
          /\ \A a \in Scheduled : due[a] # Unset => Due(a) /\ Kept(q, a)
      BY <2>1, <2>5, <2>8, Focused
    <3>2. DOMAIN jobs = {} BY <2>1, <3>1 DEF Stage
    <3>3. Stage(jobsThread[t])'
      <4>1. Jobs!Enabled' = Jobs!Enabled BY <1>2 DEF Jobs!Enabled
      <4>2. {Jobs!Id(a, db[a]) : a \in Jobs!Enabled \ DOMAIN s} = {} BY <2>3
      <4>3. QED BY <1>2, <2>1, <2>3, <2>4, <2>5, <3>2, <4>1, <4>2 DEF Stage, Jobs!Id
    <3>4. ASSUME NEW a \in Scheduled, due'[a] # Unset PROVE Due(a)' /\ Kept(jobsThread[t], a)'
      <4>1. Due(a) /\ Kept(q, a) BY <2>1, <3>1, <3>4
      <4>2. QED BY <1>2, <2>1, <2>4, <2>5, <3>2, <4>1 DEF Due, Kept, Plain
    <3>5. QED BY <1>2, <2>4, <2>5, <2>6, <2>7, <2>8, <3>1, <3>3, <3>4, Focus
  <2>9. CASE ~calm BY <1>2, <1>4, <2>1, <2>6, <2>7, <2>9, Uncalm
  <2>10. QED BY <1>3, <2>8, <2>9
<1>6. CASE Jobs!Register(t)
  <2>1. PICK a \in DOMAIN q.rows :
          LET p == q.rows[a]
              j == Jobs!Id(a, p)
          IN  /\ jobsThread' = [jobsThread EXCEPT ![t].rows = Jobs!Without(@, a)]
              /\ pending' = IF Jobs!TakesResume(p) THEN Jobs!Without(pending, j) ELSE pending
              /\ jobs' = IF j \in DOMAIN jobs THEN jobs
                         ELSE Jobs!With(jobs, j, [plan |-> p, left |-> Jobs!First(a, p)])
              /\ due' = IF calm /\ due[a] = Unset /\ p.kind = "interval" /\ j \notin DOMAIN jobs
                          THEN [due EXCEPT ![a] = Jobs!First(a, p)] ELSE due
    BY <1>6 DEF Jobs!Register
  <2> DEFINE p == q.rows[a]
             j == Jobs!Id(a, p)
             n == Jobs!First(a, p)
             s == Jobs!Without(q.rows, a)
             r == [q EXCEPT !.rows = s]
  <2>2. q.pc = "register" /\ q.rows \in Functions(Scheduled, Plan) BY <1>3, <1>6 DEF Jobs!Register, ReloadThread
  <2>3. DOMAIN q.rows \subseteq Scheduled /\ q.rows \in [DOMAIN q.rows -> Plan] BY <2>2, FunctionOf
  <2>4. a \in Scheduled /\ p \in Plan BY <2>3
  <2>5. /\ j \in Jobs!JobId /\ j[1] = a /\ (p.kind # "daily" => j = Plain(a))
        /\ \A b \in Scheduled : Plain(b) = j => b = a /\ p.kind # "daily"
    BY <2>4, Names
  <2>6. /\ n \in 1..Day /\ (p.kind = "anchored" => (jobsClock + n - Anchor) % p.step = 0)
        /\ p.kind = "interval" /\ Plain(a) \in DOMAIN pending /\ pending[Plain(a)] > 0 => n = pending[Plain(a)]
    BY <1>1, <2>4, FirstOf
  <2>7. n \in Jobs!Left BY <2>6, JobConstants DEF Jobs!Left
  <2>8. /\ jobs' = IF j \in DOMAIN jobs THEN jobs ELSE Jobs!With(jobs, j, [plan |-> p, left |-> n])
        /\ due' = IF calm /\ due[a] = Unset /\ p.kind = "interval" /\ j \notin DOMAIN jobs
                    THEN [due EXCEPT ![a] = n] ELSE due
        /\ pending' = IF p.kind = "interval" THEN Jobs!Without(pending, j) ELSE pending
        /\ jobsThread' = [jobsThread EXCEPT ![t] = r]
    BY <2>1 DEF Jobs!TakesResume
  <2>9. DOMAIN s = DOMAIN q.rows \ {a} /\ \A b \in DOMAIN s : s[b] = q.rows[b]
    BY DEF Jobs!Without
  <2>10. s \in Functions(Scheduled, Plan) BY <2>2, TakenOut
  <2> HIDE DEF s
  <2>11. r \in ReloadThread /\ r.pc = "register" /\ r.rows = s BY <1>3, <2>2, <2>10 DEF ReloadThread
  <2> HIDE DEF r
  <2>12. /\ jobsThread' \in [Thread -> ReloadThread] /\ jobsThread'[t] = r
         /\ \A u \in Thread \ {t} : jobsThread'[u] = jobsThread[u]
    BY <1>1, <2>8, <2>11, OneThread
  <2> HIDE DEF n, j
  <2>13. j \notin DOMAIN jobs =>
           /\ DOMAIN jobs' = DOMAIN jobs \cup {j} /\ jobs'[j].plan = p /\ jobs'[j].left = n
           /\ \A i \in DOMAIN jobs : jobs'[i] = jobs[i]
    BY <2>8 DEF Jobs!With
  <2>14. jobs' \in Functions(Jobs!JobId, [plan : Plan, left : Jobs!Left])
    <3>1. jobs \in Functions(Jobs!JobId, [plan : Plan, left : Jobs!Left]) BY <1>1 DEF JobTypes
    <3>2. [plan |-> p, left |-> n] \in [plan : Plan, left : Jobs!Left] BY <2>4, <2>7
    <3>3. Jobs!With(jobs, j, [plan |-> p, left |-> n]) \in Functions(Jobs!JobId, [plan : Plan, left : Jobs!Left])
      BY <2>5, <3>1, <3>2, PutIn
    <3>4. QED BY <2>8, <3>1, <3>3
  <2>15. pending' \in Functions(Jobs!JobId, Jobs!Left)
    <3>1. pending \in Functions(Jobs!JobId, Jobs!Left) BY <1>1 DEF JobTypes
    <3>2. \A i : Jobs!Without(pending, i) \in Functions(Jobs!JobId, Jobs!Left) BY <3>1, TakenOut
    <3>3. QED BY <2>8, <3>1, <3>2
  <2>16. due' \in [Scheduled -> Jobs!Left \cup {Unset}] BY <1>1, <2>7, <2>8 DEF JobTypes
  <2>17. JobTypes' BY <1>1, <1>2, <2>12, <2>14, <2>15, <2>16 DEF JobTypes
  <2> HIDE DEF p
  <2>18. Jobs!OnAnchorGrid'
    <3> SUFFICES ASSUME NEW i \in DOMAIN jobs', jobs'[i].plan.kind = "anchored", Day % jobs'[i].plan.step = 0
                 PROVE  (jobsClock + jobs'[i].left - Anchor) % jobs'[i].plan.step = 0
      BY <1>2 DEF Jobs!OnAnchorGrid
    <3>1. CASE j \in DOMAIN jobs BY <1>1, <2>8, <3>1 DEF Jobs!OnAnchorGrid
    <3>2. CASE j \notin DOMAIN jobs /\ i = j BY <2>6, <2>13, <3>2
    <3>3. CASE j \notin DOMAIN jobs /\ i # j BY <1>1, <2>13, <3>3 DEF Jobs!OnAnchorGrid
    <3>4. QED BY <3>1, <3>2, <3>3
  <2>19. CASE calm
    <3>1. /\ Lone(t)' /\ Stage(q)
          /\ \A b \in Scheduled : due[b] # Unset => Due(b) /\ Kept(q, b)
      BY <2>2, <2>12, <2>19, Focused
    <3>2. /\ DOMAIN q.rows \subseteq Jobs!Enabled /\ \A b \in DOMAIN q.rows : q.rows[b] = db[b]
          /\ DOMAIN jobs = {Jobs!Id(b, db[b]) : b \in Jobs!Enabled \ DOMAIN q.rows}
          /\ \A i \in DOMAIN jobs : jobs[i].plan = db[i[1]]
      BY <2>2, <3>1 DEF Stage
    <3>3. a \in Jobs!Enabled /\ p = db[a] BY <3>2 DEF p
    <3>4. j \notin DOMAIN jobs
      <4>1. \A b \in Jobs!Enabled \ DOMAIN q.rows : Jobs!Id(b, db[b])[1] = b /\ b # a
        BY <1>3, Names DEF Jobs!Enabled
      <4>2. QED BY <2>5, <3>2, <4>1
    <3>5. due' = IF due[a] = Unset /\ p.kind = "interval" THEN [due EXCEPT ![a] = n] ELSE due
      BY <2>8, <2>19, <3>4
    <3>6. Stage(jobsThread[t])'
      <4>1. Jobs!Enabled' = Jobs!Enabled BY <1>2 DEF Jobs!Enabled
      <4>2. DOMAIN jobs' = {Jobs!Id(b, db[b]) : b \in Jobs!Enabled \ DOMAIN s}
        <5>1. Jobs!Enabled \ DOMAIN s = (Jobs!Enabled \ DOMAIN q.rows) \cup {a} BY <2>9, <3>3
        <5>2. j = Jobs!Id(a, db[a]) BY <3>3 DEF j
        <5>3. QED BY <2>13, <3>2, <3>4, <5>1, <5>2
      <4>3. \A i \in DOMAIN jobs' : jobs'[i].plan = db[i[1]] BY <2>5, <2>13, <3>2, <3>3, <3>4
      <4>4. DOMAIN s \subseteq Jobs!Enabled /\ \A b \in DOMAIN s : s[b] = db[b] BY <2>9, <3>2
      <4>5. QED BY <1>2, <2>11, <2>12, <4>1, <4>2, <4>3, <4>4 DEF Stage, Jobs!Id
    <3>7. ASSUME NEW b \in Scheduled, due'[b] # Unset PROVE Due(b)' /\ Kept(jobsThread[t], b)'
      <4> SUFFICES /\ db[b].kind = "interval"
                   /\ Plain(b) \in DOMAIN jobs' =>
                        jobs'[Plain(b)].plan = db[b] /\ jobs'[Plain(b)].left = due'[b]
                   /\ b \in DOMAIN s =>
                        Plain(b) \in DOMAIN pending' /\ pending'[Plain(b)] = due'[b] /\ due'[b] > 0
        BY <1>2, <2>11, <2>12 DEF Due, Kept, Plain
      <4>1. CASE b = a
        <5>1. b \notin DOMAIN s BY <2>9, <4>1
        <5>2. CASE due[a] = Unset
          <6>1. p.kind = "interval" /\ due'[a] = n BY <1>1, <2>4, <3>5, <3>7, <4>1, <5>2 DEF JobTypes
          <6>2. j = Plain(a) BY <2>5, <6>1
          <6>3. QED BY <2>13, <3>3, <3>4, <4>1, <5>1, <6>1, <6>2
        <5>3. CASE due[a] # Unset
          <6>1. due'[a] = due[a] BY <3>5, <5>3
          <6>2. /\ db[a].kind = "interval" /\ due[a] > 0
                /\ Plain(a) \in DOMAIN pending /\ pending[Plain(a)] = due[a]
            BY <2>2, <2>4, <3>1, <5>3 DEF Due, Kept
          <6>3. j = Plain(a) /\ n = due[a] BY <2>5, <2>6, <3>3, <6>2
          <6>4. QED BY <2>13, <3>3, <3>4, <4>1, <5>1, <6>1, <6>2, <6>3
        <5>4. QED BY <5>2, <5>3
      <4>2. CASE b # a
        <5>1. due'[b] = due[b] BY <1>1, <3>5, <4>2 DEF JobTypes
        <5>2. Plain(b) # j BY <2>5, <4>2
        <5>3. Plain(b) \in DOMAIN jobs' => Plain(b) \in DOMAIN jobs /\ jobs'[Plain(b)] = jobs[Plain(b)]
          BY <2>13, <3>4, <5>2
        <5>4. Plain(b) \in DOMAIN pending => Plain(b) \in DOMAIN pending' /\ pending'[Plain(b)] = pending[Plain(b)]
          BY <2>8, <5>2 DEF Jobs!Without
        <5>5. Due(b) /\ Kept(q, b) BY <3>1, <3>7, <5>1
        <5>6. QED BY <2>2, <2>9, <5>1, <5>3, <5>4, <5>5 DEF Due, Kept
      <4>3. QED BY <4>1, <4>2
    <3>8. QED BY <1>2, <2>11, <2>12, <2>17, <2>18, <2>19, <3>1, <3>6, <3>7, Focus
  <2>20. CASE ~calm BY <1>2, <1>4, <2>8, <2>17, <2>18, <2>20, Uncalm
  <2>21. QED BY <1>3, <2>19, <2>20
<1>7. CASE Jobs!Done(t)
  <2>1. /\ q.pc = "register" /\ q.rows = Jobs!Nothing /\ UNCHANGED <<jobs, pending, due>>
        /\ jobsThread' = [jobsThread EXCEPT ![t] = Jobs!Idle]
    BY <1>7 DEF Jobs!Done
  <2>2. Jobs!Idle \in ReloadThread /\ Jobs!Idle.pc = "idle" BY NothingIn DEF Jobs!Idle, ReloadThread
  <2>3. /\ jobsThread' \in [Thread -> ReloadThread] /\ jobsThread'[t] = Jobs!Idle
        /\ \A u \in Thread \ {t} : jobsThread'[u] = jobsThread[u]
    BY <1>1, <2>1, <2>2, OneThread
  <2>4. JobTypes' BY <1>1, <1>2, <2>1, <2>3 DEF JobTypes
  <2>5. Jobs!OnAnchorGrid' BY <1>1, <1>2, <2>1 DEF Jobs!OnAnchorGrid
  <2>6. CASE calm
    <3>1. /\ Lone(t)' /\ Stage(q)
          /\ \A a \in Scheduled : due[a] # Unset => Due(a) /\ Kept(q, a)
      BY <2>1, <2>3, <2>6, Focused
    <3>2. /\ DOMAIN jobs = {Jobs!Id(b, db[b]) : b \in Jobs!Enabled}
          /\ \A i \in DOMAIN jobs : jobs[i].plan = db[i[1]]
      <4>1. DOMAIN q.rows = {} BY <2>1 DEF Jobs!Nothing
      <4>2. QED BY <2>1, <3>1, <4>1 DEF Stage
    <3>3. Jobs!AsAsked' BY <1>2, <2>1, <3>2 DEF Jobs!AsAsked, Jobs!Enabled, Jobs!Id
    <3>4. Stage(jobsThread[t])' BY <2>2, <2>3 DEF Stage
    <3>5. ASSUME NEW a \in Scheduled, due'[a] # Unset PROVE Due(a)' /\ Kept(jobsThread[t], a)'
      <4>1. Due(a) BY <2>1, <3>1, <3>5
      <4>2. a \in Jobs!Enabled /\ db[a] \in Plan BY <1>3, <4>1 DEF Jobs!Enabled, Due
      <4>3. Plain(a) = Jobs!Id(a, db[a]) BY <4>1, <4>2, Names DEF Due
      <4>4. Plain(a) \in DOMAIN jobs BY <3>2, <4>2, <4>3
      <4>5. QED BY <1>2, <2>1, <2>2, <2>3, <4>1, <4>4 DEF Due, Kept, Plain
    <3>6. QED BY <1>2, <2>3, <2>4, <2>5, <2>6, <3>1, <3>3, <3>4, <3>5, Focus
  <2>7. CASE ~calm BY <1>2, <1>4, <2>1, <2>4, <2>5, <2>7, Uncalm
  <2>8. QED BY <1>3, <2>6, <2>7
<1>8. QED BY <1>5, <1>6, <1>7

\* A job that is due runs and is due again a step later.
LEMMA FireSafe ==
  ASSUME JobsInv, NEW j \in Jobs!JobId, Jobs!Fire(j)
  PROVE  JobsInv'
<1>1. JobTypes /\ OneReloads /\ Staged /\ Elapsed /\ Jobs!OnAnchorGrid BY DEF JobsInv
<1> DEFINE a == j[1]
           p == jobs[j].plan
           again == IF p.kind = "daily" THEN Day ELSE p.step
<1>2. /\ j \in DOMAIN jobs /\ jobs[j].left = 0 /\ jobs' = [jobs EXCEPT ![j].left = again]
      /\ due' = IF j[2] = "interval" /\ due[a] # Unset THEN [due EXCEPT ![a] = again] ELSE due
      /\ UNCHANGED <<db, pending, jobsThread, jobsClock, calm, changes>>
  BY DEF Jobs!Fire
<1>3. /\ DOMAIN jobs \subseteq Jobs!JobId /\ jobs \in [DOMAIN jobs -> [plan : Plan, left : Jobs!Left]]
  BY <1>1, FunctionOf DEF JobTypes
<1>4. p \in Plan /\ a \in Scheduled /\ j = <<j[1], j[2]>> BY <1>2, <1>3 DEF Jobs!JobId
<1>5. p.step \in 1..Day /\ again \in Jobs!Left BY <1>4, JobConstants DEF Jobs!Left
<1> HIDE DEF again, p
<1>6. /\ DOMAIN jobs' = DOMAIN jobs /\ jobs'[j].plan = p /\ jobs'[j].left = again
      /\ \A i \in DOMAIN jobs : i # j => jobs'[i] = jobs[i]
      /\ jobs'[j] \in [plan : Plan, left : Jobs!Left]
  BY <1>2, <1>3, <1>4, <1>5 DEF p
<1>7. jobs' \in Functions(Jobs!JobId, [plan : Plan, left : Jobs!Left])
  <2>1. jobs' \in [DOMAIN jobs -> [plan : Plan, left : Jobs!Left]] BY <1>2, <1>3, <1>6
  <2>2. QED BY <1>3, <2>1, FunctionIn
<1>8. due' \in [Scheduled -> Jobs!Left \cup {Unset}] BY <1>1, <1>2, <1>5 DEF JobTypes
<1>9. JobTypes' BY <1>1, <1>2, <1>7, <1>8 DEF JobTypes
<1>10. \A i \in DOMAIN jobs : jobs'[i].plan = jobs[i].plan BY <1>6 DEF p
<1>11. OneReloads' BY <1>1, <1>2 DEF OneReloads, Lone
<1>12. Staged'
  <2>1. Jobs!Enabled' = Jobs!Enabled BY <1>2 DEF Jobs!Enabled
  <2>2. Jobs!AsAsked => Jobs!AsAsked' BY <1>2, <1>6, <1>10, <2>1 DEF Jobs!AsAsked, Jobs!Id
  <2>3. \A t \in Thread : Stage(jobsThread[t]) => Stage(jobsThread[t])'
    BY <1>2, <1>6, <1>10, <2>1 DEF Stage, Jobs!Id
  <2>4. QED BY <1>1, <1>2, <2>2, <2>3 DEF Staged, Jobs!AllIdle, Lone
<1>13. Elapsed'
  <2> SUFFICES ASSUME NEW b \in Scheduled, due'[b] # Unset
               PROVE  calm' /\ Due(b)' /\ \A t \in Thread : Lone(t)' => Kept(jobsThread[t], b)'
    BY DEF Elapsed
  <2>1. due[b] # Unset /\ (Plain(b) # j => due'[b] = due[b]) BY <1>1, <1>2, <1>4 DEF JobTypes, Plain
  <2>2. calm /\ Due(b) /\ \A t \in Thread : Lone(t) => Kept(jobsThread[t], b) BY <1>1, <2>1 DEF Elapsed
  <2>3. CASE Plain(b) = j
    <3>1. b = a /\ j[2] = "interval" /\ due'[b] = again BY <1>1, <1>2, <1>4, <2>1, <2>3 DEF Plain, JobTypes
    <3>2. Due(b)' BY <1>2, <1>6, <1>10, <2>2, <2>3, <3>1 DEF Due, Plain
    <3>3. ASSUME NEW t \in Thread, Lone(t)' PROVE Kept(jobsThread[t], b)'
      <4>1. Lone(t) /\ jobsThread'[t] = jobsThread[t] BY <1>2, <3>3 DEF Lone
      <4>2. Plain(b) \in DOMAIN jobs /\ jobs[Plain(b)].left = 0 /\ due[b] = 0 BY <1>2, <2>2, <2>3 DEF Due
      <4>3. Kept(jobsThread[t], b) BY <2>2, <4>1
      <4>4. ~(jobsThread[t].pc = "read" \/ (jobsThread[t].pc = "register" /\ b \in DOMAIN jobsThread[t].rows))
        BY <4>2, <4>3 DEF Kept
      <4>5. QED BY <1>2, <1>6, <4>2, <4>4 DEF Kept, Plain
    <3>4. QED BY <1>2, <2>2, <3>2, <3>3
  <2>4. CASE Plain(b) # j
    <3>1. due'[b] = due[b] BY <2>1, <2>4
    <3>2. Due(b)' BY <1>2, <1>6, <2>2, <2>4, <3>1 DEF Due, Plain
    <3>3. ASSUME NEW t \in Thread, Lone(t)' PROVE Kept(jobsThread[t], b)'
      <4>1. Lone(t) /\ jobsThread'[t] = jobsThread[t] BY <1>2, <3>3 DEF Lone
      <4>2. QED BY <1>2, <1>6, <2>2, <3>1, <4>1 DEF Kept, Plain
    <3>4. QED BY <1>2, <2>2, <3>2, <3>3
  <2>5. QED BY <2>3, <2>4
<1>14. Jobs!OnAnchorGrid'
  <2> SUFFICES ASSUME NEW i \in DOMAIN jobs', jobs'[i].plan.kind = "anchored", Day % jobs'[i].plan.step = 0
               PROVE  (jobsClock + jobs'[i].left - Anchor) % jobs'[i].plan.step = 0
    BY <1>2 DEF Jobs!OnAnchorGrid
  <2>1. CASE i # j BY <1>1, <1>6, <2>1 DEF Jobs!OnAnchorGrid
  <2>2. CASE i = j
    <3>1. p.kind = "anchored" /\ again = p.step /\ jobs'[i].left = p.step /\ jobs'[i].plan = p
      BY <1>6, <2>2 DEF again
    <3>2. (jobsClock + 0 - Anchor) % p.step = 0 BY <1>1, <1>2, <2>2, <3>1 DEF Jobs!OnAnchorGrid, p
    <3>3. jobsClock \in Int /\ Anchor \in Int /\ p.step \in Nat \ {0} BY <1>1, <1>5, JobConstants DEF JobTypes
    <3>4. p.step % p.step = 0 BY <3>3
    <3>5. ((jobsClock + 0 - Anchor) + p.step) % p.step = 0
      <4>1. jobsClock + 0 - Anchor \in Int /\ p.step \in Int BY <3>3
      <4>2. QED BY <3>2, <3>3, <3>4, <4>1, MultiplesAdd
    <3>6. (jobsClock + 0 - Anchor) + p.step = jobsClock + p.step - Anchor BY <3>3
    <3>7. QED BY <3>1, <3>5, <3>6
  <2>3. QED BY <2>1, <2>2
<1>15. QED BY <1>9, <1>11, <1>12, <1>13, <1>14 DEF JobsInv

\* Time passes, for a job in the store and for what is noted of one that is out of it.
LEMMA JobsTick ==
  ASSUME JobsInv, Jobs!Tick
  PROVE  JobsInv'
<1>1. JobTypes /\ OneReloads /\ Staged /\ Elapsed /\ Jobs!OnAnchorGrid BY DEF JobsInv
<1>2. /\ \A j \in DOMAIN jobs : jobs[j].left > 0
      /\ jobsClock' = (jobsClock + 1) % Day
      /\ jobs' = [j \in DOMAIN jobs |-> [jobs[j] EXCEPT !.left = @ - 1]]
      /\ pending' = Jobs!SoonerAll(pending)
      /\ jobsThread' = [t \in Thread |-> [jobsThread[t] EXCEPT !.saved = Jobs!SoonerAll(@)]]
      /\ due' = [a \in Scheduled |-> IF due[a] # Unset /\ (due[a] > 1 \/ Plain(a) \in DOMAIN jobs)
                                       THEN Jobs!Sooner(due[a]) ELSE Unset]
      /\ UNCHANGED <<db, calm, changes>>
  BY DEF Jobs!Tick, Plain
<1>3. /\ DOMAIN jobs \subseteq Jobs!JobId /\ jobs \in [DOMAIN jobs -> [plan : Plan, left : Jobs!Left]]
      /\ DOMAIN pending \subseteq Jobs!JobId /\ pending \in [DOMAIN pending -> Jobs!Left]
  BY <1>1, FunctionOf DEF JobTypes
<1>4. \A t \in Thread : jobsThread[t] \in ReloadThread BY <1>1 DEF JobTypes
<1>5. \A n \in Jobs!Left : Jobs!Sooner(n) \in Jobs!Left /\ (n > 0 => Jobs!Sooner(n) = n - 1)
  BY JobConstants DEF Jobs!Left, Jobs!Sooner
<1>6. ASSUME NEW f \in Functions(Jobs!JobId, Jobs!Left)
      PROVE  /\ Jobs!SoonerAll(f) \in Functions(Jobs!JobId, Jobs!Left)
             /\ DOMAIN Jobs!SoonerAll(f) = DOMAIN f
             /\ \A x \in DOMAIN f : Jobs!SoonerAll(f)[x] = Jobs!Sooner(f[x])
  <2>1. DOMAIN f \subseteq Jobs!JobId /\ f \in [DOMAIN f -> Jobs!Left] BY FunctionOf
  <2>2. Jobs!SoonerAll(f) \in [DOMAIN f -> Jobs!Left] BY <1>5, <2>1 DEF Jobs!SoonerAll
  <2>3. Jobs!SoonerAll(f) \in Functions(Jobs!JobId, Jobs!Left) BY <2>1, <2>2, FunctionIn
  <2>4. QED BY <2>3 DEF Jobs!SoonerAll
<1>7. \A j \in DOMAIN jobs : /\ jobs'[j].plan = jobs[j].plan /\ jobs'[j].left = jobs[j].left - 1
                             /\ jobs'[j] \in [plan : Plan, left : Jobs!Left]
  BY <1>2, <1>3, JobConstants DEF Jobs!Left
<1>8. DOMAIN jobs' = DOMAIN jobs BY <1>2
<1>9. jobs' \in Functions(Jobs!JobId, [plan : Plan, left : Jobs!Left])
  <2>1. jobs' \in [DOMAIN jobs -> [plan : Plan, left : Jobs!Left]] BY <1>2, <1>7
  <2>2. QED BY <1>3, <2>1, FunctionIn
<1>10. ASSUME NEW t \in Thread
       PROVE  /\ jobsThread'[t] \in ReloadThread /\ jobsThread[t].saved \in Functions(Jobs!JobId, Jobs!Left)
              /\ jobsThread'[t].saved = Jobs!SoonerAll(jobsThread[t].saved)
              /\ jobsThread'[t].pc = jobsThread[t].pc /\ jobsThread'[t].todo = jobsThread[t].todo
              /\ jobsThread'[t].rows = jobsThread[t].rows
  <2> DEFINE q == jobsThread[t]
  <2>1. q \in ReloadThread /\ q.saved \in Functions(Jobs!JobId, Jobs!Left) BY <1>4 DEF ReloadThread
  <2>2. Jobs!SoonerAll(q.saved) \in Functions(Jobs!JobId, Jobs!Left) BY <1>6, <2>1
  <2>3. jobsThread'[t] = [q EXCEPT !.saved = Jobs!SoonerAll(q.saved)] BY <1>2
  <2>4. QED BY <2>1, <2>2, <2>3 DEF ReloadThread
<1>11. jobsThread' \in [Thread -> ReloadThread] BY <1>2, <1>10
<1>12. jobsClock' \in 0..(Day - 1) /\ jobsClock \in 0..(Day - 1) /\ Day \in Nat \ {0} /\ Anchor \in 0..(Day - 1)
       /\ (jobsClock' = jobsClock + 1 \/ jobsClock' = jobsClock + 1 - Day)
  <2>1. jobsClock \in 0..(Day - 1) /\ Day \in Nat \ {0} /\ Anchor \in 0..(Day - 1)
    BY <1>1, JobConstants DEF JobTypes
  <2>2. CASE jobsClock + 1 < Day
    <3>1. (jobsClock + 1) % Day = jobsClock + 1 BY <2>1, <2>2
    <3>2. QED BY <1>2, <2>1, <2>2, <3>1
  <2>3. CASE jobsClock + 1 = Day
    <3>1. Day % Day = 0 BY <2>1
    <3>2. QED BY <1>2, <2>1, <2>3, <3>1
  <2>4. QED BY <2>1, <2>2, <2>3
<1>13. due' \in [Scheduled -> Jobs!Left \cup {Unset}] BY <1>1, <1>2, <1>5 DEF JobTypes
<1>14. JobTypes'
  <2>1. pending' \in Functions(Jobs!JobId, Jobs!Left) BY <1>1, <1>2, <1>6 DEF JobTypes
  <2>2. QED BY <1>1, <1>2, <1>9, <1>11, <1>12, <1>13, <2>1 DEF JobTypes
<1>15. \A t \in Thread : Lone(t)' <=> Lone(t) BY <1>10 DEF Lone
<1>16. OneReloads' BY <1>1, <1>2, <1>10, <1>15 DEF OneReloads
<1>17. Staged'
  <2>1. Jobs!Enabled' = Jobs!Enabled BY <1>2 DEF Jobs!Enabled
  <2>2. Jobs!AsAsked => Jobs!AsAsked' BY <1>2, <1>7, <1>8, <2>1 DEF Jobs!AsAsked, Jobs!Id
  <2>3. ASSUME NEW t \in Thread, Stage(jobsThread[t]) PROVE Stage(jobsThread[t])'
    <3>1. /\ jobsThread'[t].pc = jobsThread[t].pc /\ jobsThread'[t].todo = jobsThread[t].todo
          /\ jobsThread'[t].rows = jobsThread[t].rows
      BY <1>10
    <3>2. db' = db /\ \A j \in DOMAIN jobs : jobs'[j].plan = jobs[j].plan BY <1>2, <1>7
    <3>3. QED BY <1>8, <2>1, <2>3, <3>1, <3>2 DEF Stage, Jobs!Id
  <2>4. Jobs!AllIdle' => Jobs!AllIdle BY <1>10 DEF Jobs!AllIdle
  <2>5. QED BY <1>1, <1>2, <1>15, <2>2, <2>3, <2>4 DEF Staged
<1>18. Elapsed'
  <2> SUFFICES ASSUME NEW a \in Scheduled, due'[a] # Unset
               PROVE  calm' /\ Due(a)' /\ \A t \in Thread : Lone(t)' => Kept(jobsThread[t], a)'
    BY DEF Elapsed
  <2>1. due[a] # Unset /\ due'[a] = Jobs!Sooner(due[a]) /\ (due[a] > 1 \/ Plain(a) \in DOMAIN jobs) BY <1>2
  <2>2. calm /\ Due(a) /\ \A t \in Thread : Lone(t) => Kept(jobsThread[t], a) BY <1>1, <2>1 DEF Elapsed
  <2>3. due[a] \in Jobs!Left BY <1>1, <2>1 DEF JobTypes
  <2>4. due[a] > 0 /\ due'[a] = due[a] - 1
    <3>1. Plain(a) \in DOMAIN jobs => due[a] > 0 BY <1>2, <2>2 DEF Due
    <3>2. due[a] > 0 BY <2>1, <2>3, <3>1, JobConstants DEF Jobs!Left
    <3>3. QED BY <1>5, <2>1, <2>3, <3>2
  <2>5. Due(a)' BY <1>2, <1>7, <1>8, <2>2, <2>4 DEF Due, Plain
  <2>6. ASSUME NEW t \in Thread, Lone(t)' PROVE Kept(jobsThread[t], a)'
    <3>1. Lone(t) /\ Kept(jobsThread[t], a) BY <1>15, <2>2, <2>6
    <3>2. Stage(jobsThread[t]) BY <1>1, <2>2, <3>1 DEF Staged
    <3> DEFINE q == jobsThread[t]
    <3>3. q.pc = "remove" /\ Plain(a) \notin DOMAIN jobs =>
            Plain(a) \in DOMAIN q.saved /\ Jobs!SoonerAll(q.saved)[Plain(a)] = due'[a] /\ due'[a] > 0
      <4> SUFFICES ASSUME q.pc = "remove", Plain(a) \notin DOMAIN jobs
                   PROVE  Plain(a) \in DOMAIN q.saved /\ Jobs!SoonerAll(q.saved)[Plain(a)] = due'[a] /\ due'[a] > 0
        OBVIOUS
      <4>1. Plain(a) \in DOMAIN q.saved /\ q.saved[Plain(a)] = due[a] BY <3>1 DEF Kept
      <4>2. Jobs!SoonerAll(q.saved)[Plain(a)] = Jobs!Sooner(due[a]) BY <1>6, <1>10, <4>1
      <4>3. due[a] > 1 BY <2>1
      <4>4. due'[a] > 0 BY <2>3, <2>4, <4>3, JobConstants DEF Jobs!Left
      <4>5. QED BY <2>1, <4>1, <4>2, <4>4
    <3>4. q.pc = "read" \/ (q.pc = "register" /\ a \in DOMAIN q.rows) =>
            Plain(a) \in DOMAIN pending /\ pending'[Plain(a)] = due'[a] /\ due'[a] > 0
      <4> SUFFICES ASSUME q.pc = "read" \/ (q.pc = "register" /\ a \in DOMAIN q.rows)
                   PROVE  Plain(a) \in DOMAIN pending /\ pending'[Plain(a)] = due'[a] /\ due'[a] > 0
        OBVIOUS
      <4>1. Plain(a) \in DOMAIN pending /\ pending[Plain(a)] = due[a] BY <3>1 DEF Kept
      <4>2. pending'[Plain(a)] = Jobs!Sooner(due[a]) BY <1>1, <1>2, <1>6, <4>1 DEF JobTypes
      <4>3. Plain(a) \notin DOMAIN jobs
        <5>1. CASE q.pc = "read" BY <3>2, <5>1 DEF Stage
        <5>2. CASE q.pc = "register" /\ a \in DOMAIN q.rows
          <6>1. DOMAIN jobs = {Jobs!Id(b, db[b]) : b \in Jobs!Enabled \ DOMAIN q.rows} BY <3>2, <5>2 DEF Stage
          <6>2. ASSUME NEW b \in Jobs!Enabled \ DOMAIN q.rows PROVE Jobs!Id(b, db[b]) # Plain(a)
            <7>1. b \in Scheduled /\ db[b] \in Plan /\ b # a BY <1>1, <5>2 DEF JobTypes, Jobs!Enabled
            <7>2. QED BY <7>1, Names
          <6>3. QED BY <6>1, <6>2
        <5>3. QED BY <5>1, <5>2
      <4>4. due[a] > 1 BY <2>1, <4>3
      <4>5. due'[a] > 0 BY <2>3, <2>4, <4>4, JobConstants DEF Jobs!Left
      <4>6. QED BY <2>1, <4>1, <4>2, <4>5
    <3>5. DOMAIN pending' = DOMAIN pending /\ DOMAIN Jobs!SoonerAll(q.saved) = DOMAIN q.saved
      BY <1>1, <1>2, <1>6, <1>10 DEF JobTypes
    <3>6. QED BY <1>8, <1>10, <3>1, <3>3, <3>4, <3>5 DEF Kept, Plain
  <2>7. QED BY <1>2, <2>2, <2>5, <2>6
<1>19. Jobs!OnAnchorGrid'
  <2> SUFFICES ASSUME NEW j \in DOMAIN jobs, jobs[j].plan.kind = "anchored", Day % jobs[j].plan.step = 0
               PROVE  (jobsClock' + (jobs[j].left - 1) - Anchor) % jobs[j].plan.step = 0
    BY <1>7, <1>8 DEF Jobs!OnAnchorGrid
  <2> DEFINE m == jobsClock + jobs[j].left - Anchor
             s == jobs[j].plan.step
  <2>1. m \in Int /\ s \in Nat \ {0} /\ jobs[j].left \in Int BY <1>3, <1>12, JobConstants DEF Jobs!Left
  <2>2. m % s = 0 /\ Day % s = 0 BY <1>1 DEF Jobs!OnAnchorGrid
  <2>3. (m - Day) % s = 0 BY <1>12, <2>1, <2>2, MultiplesAdd
  <2>4. jobsClock' + (jobs[j].left - 1) - Anchor = m \/ jobsClock' + (jobs[j].left - 1) - Anchor = m - Day
    BY <1>12, <2>1
  <2>5. QED BY <2>2, <2>3, <2>4
<1>20. QED BY <1>14, <1>16, <1>17, <1>18, <1>19 DEF JobsInv

LEMMA JobsStep ==
  ASSUME JobsInv, [Jobs!Next]_(Jobs!vars)
  PROVE  JobsInv'
<1>1. CASE UNCHANGED Jobs!vars
  <2>1. UNCHANGED <<db, jobs, pending, jobsThread, jobsClock, calm, due, changes>> BY <1>1 DEF Jobs!vars
  <2>2. JobTypes' BY <2>1 DEF JobsInv, JobTypes
  <2>3. OneReloads' BY <2>1 DEF JobsInv, OneReloads, Lone
  <2>4. Staged'
    <3>1. \A t \in Thread : Lone(t)' = Lone(t) /\ Stage(jobsThread[t])' = Stage(jobsThread[t])
      BY <2>1 DEF Lone, Stage, Jobs!Enabled, Jobs!Id
    <3>2. Jobs!AsAsked' = Jobs!AsAsked /\ Jobs!AllIdle' = Jobs!AllIdle
      BY <2>1 DEF Jobs!AsAsked, Jobs!AllIdle, Jobs!Enabled, Jobs!Id
    <3>3. QED BY <2>1, <3>1, <3>2 DEF JobsInv, Staged
  <2>5. Elapsed'
    <3>1. \A t \in Thread : Lone(t)' = Lone(t) BY <2>1 DEF Lone
    <3>2. \A a \in Scheduled, t \in Thread : Kept(jobsThread[t], a)' = Kept(jobsThread[t], a)
      BY <2>1 DEF Kept, Plain
    <3>3. \A a \in Scheduled : Due(a)' = Due(a) BY <2>1 DEF Due, Plain
    <3>4. QED BY <2>1, <3>1, <3>2, <3>3 DEF JobsInv, Elapsed
  <2>6. Jobs!OnAnchorGrid' BY <2>1 DEF JobsInv, Jobs!OnAnchorGrid
  <2>7. QED BY <2>2, <2>3, <2>4, <2>5, <2>6 DEF JobsInv
<1>2. QED BY <1>1, BeginSafe, RemoveSafe, RegisterSafe, FireSafe, JobsTick, RestartSafe
  DEF Jobs!Next, Jobs!Step

\* scheduler_runtime.py, for any number of request threads, automations, plans and times,
\* slow reloads and restarts: after a reload that met no other the scheduler holds the jobs
\* the table asks for, whatever overlapping ones left; until reloads overlap no unchanged
\* interval is put off, unless its moment passes while its job is out of the store; and no
\* anchored job ever leaves its grid.
THEOREM JobsReloaded ==
  Jobs!Spec => [](Jobs!TypeOK /\ Jobs!Synced /\ Jobs!KeepsElapsed /\ Jobs!OnAnchorGrid)
<1>1. JobsInv => Jobs!TypeOK /\ Jobs!Synced /\ Jobs!KeepsElapsed /\ Jobs!OnAnchorGrid
  <2> SUFFICES ASSUME JobsInv PROVE Jobs!TypeOK /\ Jobs!Synced /\ Jobs!KeepsElapsed
    BY DEF JobsInv
  <2>1. JobTypes /\ Staged /\ Elapsed BY DEF JobsInv
  <2>2. Jobs!Synced BY <2>1 DEF Jobs!Synced, Staged
  <2>3. Jobs!KeepsElapsed BY <2>1 DEF Jobs!KeepsElapsed, Elapsed, Due, Plain
  <2>4. \A S, T : \A f \in Functions(S, T) : Jobs!Partial(f, S, T)
    <3> TAKE S, T
    <3> TAKE f \in Functions(S, T)
    <3>1. QED BY FunctionOf DEF Jobs!Partial
  <2>5. ASSUME NEW t \in Thread
        PROVE  /\ jobsThread[t].pc \in {"idle", "list", "remove", "read", "register"}
               /\ jobsThread[t].todo \subseteq Jobs!JobId
               /\ Jobs!Partial(jobsThread[t].saved, Jobs!JobId, Jobs!Left)
               /\ Jobs!Partial(jobsThread[t].rows, Scheduled, Plan)
    <3>1. jobsThread[t] \in ReloadThread BY <2>1 DEF JobTypes
    <3>2. QED BY <2>4, <3>1 DEF ReloadThread
  <2>6. Jobs!TypeOK BY <2>1, <2>4, <2>5 DEF JobTypes, Jobs!TypeOK
  <2>7. QED BY <2>2, <2>3, <2>6
<1>2. QED BY <1>1, JobsInit, JobsStep, PTL DEF Jobs!Spec
-----------------------------------------------------------------------------
(* SchemaStart: the file an API that serves has validated.                 *)

\* What is on disk of a migration under way, and what each stage has seen.
SchemaInv ==
  /\ Schema!TypeOK /\ Schema!RevisionIsTrue
  /\ pc \in {"start", "migrate"} => at = 1
  /\ pc = "upgrade" => \A i \in 1..(at - 1) : <<Schema!Revision + 1, i>> \in objs
  /\ pc \in {"validate", "clean", "serving"} => version = HeadRevision
  /\ pc \in {"index", "stamp", "stamped"} => Schema!Valid
  /\ pc \in {"stamp", "stamped"} => Schema!Unique \in objs
  /\ pc = "serving" => \A a \in Automation : running[a] <= 1

LEMMA SchemaConstants ==
  /\ HeadRevision \in Nat \ {0} /\ Steps \in [1..HeadRevision -> Nat \ {0}]
  /\ UniqueAt \in 1..HeadRevision /\ Steps[UniqueAt] = 1 /\ NoTable \notin Nat /\ NoRow \notin Nat
  /\ MaxCrashes \in Nat
  BY PartsAssumption DEF Schema!SchemaAssumption

\* A later revision holds what an earlier one does, and the head everything that is checked.
LEMMA RevisionsGrow ==
  ASSUME NEW v \in 0..HeadRevision
  PROVE  /\ Schema!UpTo(v) \subseteq Schema!UpTo(HeadRevision)
         /\ Schema!Columns \cup {Schema!Unique} = Schema!UpTo(HeadRevision)
         /\ v < HeadRevision => Schema!UpTo(v + 1) = Schema!UpTo(v) \cup Schema!Of(v + 1)
<1>1. HeadRevision \in Nat /\ UniqueAt \in 1..HeadRevision /\ Steps[UniqueAt] = 1 BY SchemaConstants
<1>2. Schema!UpTo(v) \subseteq Schema!UpTo(HeadRevision) BY <1>1 DEF Schema!UpTo
<1>3. Schema!Unique \in Schema!UpTo(HeadRevision) BY <1>1 DEF Schema!Unique, Schema!UpTo, Schema!Of
<1>4. ASSUME v < HeadRevision PROVE Schema!UpTo(v + 1) = Schema!UpTo(v) \cup Schema!Of(v + 1)
  <2>1. 1..(v + 1) = 1..v \cup {v + 1} BY <1>1
  <2>2. QED BY <2>1 DEF Schema!UpTo
<1>5. QED BY <1>2, <1>3, <1>4 DEF Schema!Columns

LEMMA SchemaInit == Schema!Init => SchemaInv
<1> SUFFICES ASSUME Schema!Init PROVE SchemaInv OBVIOUS
<1>1. /\ pc = "down" /\ at = 1 /\ cause = "none" /\ crashes = 0
      /\ running \in [Automation -> IF Schema!Unique \in objs THEN 0..1 ELSE IF objs = {} THEN {0} ELSE 0..2]
      /\ \/ objs = {} /\ version = NoTable
         \/ version \in 1..HeadRevision /\ objs = Schema!UpTo(version)
         \/ objs \in {Schema!Columns, Schema!UpTo(HeadRevision)} /\ version = NoRow
  BY DEF Schema!Init
<1>2. HeadRevision \in Nat \ {0} /\ NoTable \notin Nat /\ NoRow \notin Nat /\ MaxCrashes \in Nat BY SchemaConstants
<1>3. running \in [Automation -> 0..2]
  <2>1. CASE Schema!Unique \in objs BY <1>1, <2>1
  <2>2. CASE Schema!Unique \notin objs /\ objs = {} BY <1>1, <2>2
  <2>3. CASE Schema!Unique \notin objs /\ objs # {} BY <1>1, <2>3
  <2>4. QED BY <2>1, <2>2, <2>3
<1>4. /\ objs \subseteq Schema!UpTo(HeadRevision) /\ version \in 1..HeadRevision \cup {NoTable, NoRow}
      /\ version \in Nat => Schema!UpTo(version) \subseteq objs
  <2>1. CASE objs = {} /\ version = NoTable BY <1>2, <2>1
  <2>2. CASE version \in 1..HeadRevision /\ objs = Schema!UpTo(version) BY <1>2, <2>2, RevisionsGrow
  <2>3. CASE objs \in {Schema!Columns, Schema!UpTo(HeadRevision)} /\ version = NoRow
    <3>1. Schema!Columns \subseteq Schema!UpTo(HeadRevision) BY DEF Schema!Columns
    <3>2. QED BY <1>2, <2>3, <3>1
  <2>4. QED BY <1>1, <2>1, <2>2, <2>3
<1>5. QED BY <1>1, <1>2, <1>3, <1>4 DEF SchemaInv, Schema!TypeOK, Schema!RevisionIsTrue

LEMMA Typed ==
  ASSUME Schema!TypeOK, objs' \subseteq Schema!UpTo(HeadRevision), version' \in 1..HeadRevision \cup {NoTable, NoRow},
         pc' \in {"down", "start", "migrate", "index", "stamp", "stamped", "upgrade", "validate", "clean",
                  "serving", "raised"},
         at' \in Nat \ {0}, cause' \in {"none", "no table", "exists", "duplicates", "incomplete"},
         running' \in [Automation -> 0..2], crashes' \in 0..MaxCrashes
  PROVE  Schema!TypeOK'
  BY DEF Schema!TypeOK

LEMMA Types ==
  ASSUME Schema!TypeOK
  PROVE  /\ objs \subseteq Schema!UpTo(HeadRevision) /\ version \in 1..HeadRevision \cup {NoTable, NoRow}
         /\ at \in Nat \ {0} /\ running \in [Automation -> 0..2] /\ crashes \in 0..MaxCrashes
  BY DEF Schema!TypeOK

\* The steps that raise or go on, and touch neither the file nor the executions.
LEMMA StageSafe ==
  ASSUME SchemaInv, UNCHANGED <<objs, version, running, crashes>>,
         Schema!TypeOK',
         pc' \in {"start", "migrate"} => at' = 1,
         pc' = "upgrade" => at' = 1,
         pc' \in {"validate", "clean"} => version = HeadRevision,
         pc' \in {"index", "stamp", "stamped"} => Schema!Valid,
         pc' \in {"stamp", "stamped"} => Schema!Unique \in objs,
         pc' # "serving"
  PROVE  SchemaInv'
<1>1. Schema!RevisionIsTrue' BY DEF SchemaInv, Schema!RevisionIsTrue
<1>2. pc' = "upgrade" => \A i \in 1..(at' - 1) : <<Schema!Revision' + 1, i>> \in objs'
  <2>1. 1..(1 - 1) = {} OBVIOUS
  <2>2. QED BY <2>1
<1>3. QED BY <1>1, <1>2 DEF SchemaInv, Schema!Valid

LEMMA BootSafe ==
  ASSUME SchemaInv, Schema!Boot
  PROVE  SchemaInv'
<1>1. /\ HeadRevision \in Nat \ {0} /\ Steps \in [1..HeadRevision -> Nat \ {0}] /\ UniqueAt \in 1..HeadRevision /\ Steps[UniqueAt] = 1
      /\ NoTable \notin Nat /\ NoRow \notin Nat /\ MaxCrashes \in Nat
  BY SchemaConstants
<1>2. Schema!TypeOK /\ Schema!RevisionIsTrue BY DEF SchemaInv
<1>3. CASE Schema!Checkpoint
  <2>1. pc = "start" /\ pc' = "migrate" /\ UNCHANGED <<objs, version, at, cause, running, crashes>>
    BY <1>3 DEF Schema!Checkpoint, Schema!Step
  <2>2. Schema!TypeOK' /\ at' = 1 BY <1>2, <2>1 DEF Schema!TypeOK, SchemaInv
  <2>3. QED BY <2>1, <2>2, StageSafe
<1>4. CASE Schema!Migrate
  <2>1. /\ pc = "migrate" /\ pc' \in {"validate", "index", "stamp", "upgrade"}
        /\ UNCHANGED <<objs, version, at, cause, running, crashes>>
        /\ pc' = "validate" => version = HeadRevision
        /\ pc' \in {"index", "stamp"} => Schema!Valid
        /\ pc' = "stamp" => Schema!Unique \in objs
    BY <1>4 DEF Schema!Migrate, Schema!Step, Schema!MissingIndex
  <2>2. Schema!TypeOK' /\ at' = 1 BY <1>2, <2>1 DEF Schema!TypeOK, SchemaInv
  <2>3. QED BY <2>1, <2>2, StageSafe
<1>5. CASE Schema!CreateIndex
  <2>1. CASE Schema!Duplicated
    <3>1. pc' = "raised" /\ cause' = "duplicates" /\ UNCHANGED <<objs, version, at, running, crashes>>
      BY <1>5, <2>1 DEF Schema!CreateIndex, Schema!Raise
    <3>2. Schema!TypeOK' BY <1>2, <3>1 DEF Schema!TypeOK
    <3>3. QED BY <3>1, <3>2, StageSafe
  <2>2. CASE ~Schema!Duplicated
    <3>1. /\ pc = "index" /\ pc' = "stamp" /\ objs' = objs \cup {Schema!Unique}
          /\ UNCHANGED <<version, at, cause, running, crashes>>
      BY <1>5, <2>2 DEF Schema!CreateIndex
    <3>2. Schema!Unique \in Schema!UpTo(HeadRevision) BY <1>1, RevisionsGrow
    <3>3. Schema!TypeOK' BY <1>2, <3>1, <3>2 DEF Schema!TypeOK
    <3>4. Schema!RevisionIsTrue' BY <1>2, <3>1 DEF Schema!RevisionIsTrue
    <3>5. Schema!Valid' BY <3>1 DEF SchemaInv, Schema!Valid
    <3>6. QED BY <3>1, <3>3, <3>4, <3>5 DEF SchemaInv
  <2>3. QED BY <2>1, <2>2
<1>6. CASE Schema!Stamp
  <2>1. CASE version = NoTable
    <3>1. pc' = "raised" /\ cause' = "no table" /\ UNCHANGED <<objs, version, at, running, crashes>>
      BY <1>6, <2>1 DEF Schema!Stamp, Schema!Raise
    <3>2. Schema!TypeOK' BY <1>2, <3>1 DEF Schema!TypeOK
    <3>3. QED BY <3>1, <3>2, StageSafe
  <2>2. CASE version # NoTable
    <3>1. pc = "stamp" /\ pc' = "stamped" /\ version' = HeadRevision /\ UNCHANGED <<objs, at, cause, running, crashes>>
      BY <1>6, <2>2 DEF Schema!Stamp
    <3>2. Schema!UpTo(HeadRevision) \subseteq objs
      <4>1. Schema!Columns \subseteq objs /\ Schema!Unique \in objs BY <3>1 DEF SchemaInv, Schema!Valid
      <4>2. QED BY <1>1, <4>1, RevisionsGrow
    <3>3. Schema!TypeOK'
      <4>1. version' \in 1..HeadRevision BY <1>1, <3>1
      <4>2. QED BY <1>2, <3>1, <4>1 DEF Schema!TypeOK
    <3>4. Schema!RevisionIsTrue' BY <3>1, <3>2 DEF Schema!RevisionIsTrue
    <3>5. Schema!Valid' /\ Schema!Unique \in objs' BY <3>1 DEF SchemaInv, Schema!Valid
    <3>6. QED BY <3>1, <3>3, <3>4, <3>5 DEF SchemaInv
  <2>3. QED BY <2>1, <2>2
<1>7. CASE Schema!CheckStamp
  <2>1. version = HeadRevision /\ pc' = "validate" /\ UNCHANGED <<objs, version, at, cause, running, crashes>>
    BY <1>7 DEF Schema!CheckStamp, Schema!Step
  <2>2. Schema!TypeOK' BY <1>2, <2>1 DEF Schema!TypeOK
  <2>3. QED BY <2>1, <2>2, StageSafe
<1>8. CASE Schema!EnsureTable
  <2>1. /\ pc = "upgrade" /\ version = NoTable /\ version' = NoRow
        /\ UNCHANGED <<objs, pc, at, cause, running, crashes>>
    BY <1>8 DEF Schema!EnsureTable
  <2>2. Schema!TypeOK' BY <1>2, <2>1 DEF Schema!TypeOK
  <2>3. Schema!RevisionIsTrue' /\ Schema!Revision = 0 /\ Schema!Revision' = 0
    BY <1>1, <2>1 DEF Schema!RevisionIsTrue, Schema!Revision
  <2>4. QED BY <2>1, <2>2, <2>3 DEF SchemaInv
<1>9. CASE Schema!Statement
  <2> DEFINE new == <<Schema!Revision + 1, at>>
  <2>1. /\ pc = "upgrade" /\ version # NoTable /\ Schema!Revision < HeadRevision /\ at <= Steps[Schema!Revision + 1]
        /\ \/ pc' = "raised" /\ cause' \in {"duplicates", "exists"}
              /\ UNCHANGED <<objs, version, at, running, crashes>>
           \/ objs' = objs \cup {new} /\ at' = at + 1 /\ UNCHANGED <<version, pc, cause, running, crashes>>
    BY <1>9 DEF Schema!Statement, Schema!Raise
  <2>2. CASE pc' = "raised" /\ cause' \in {"duplicates", "exists"}
             /\ UNCHANGED <<objs, version, at, running, crashes>>
    <3>1. Schema!TypeOK' BY <1>2, <2>2 DEF Schema!TypeOK
    <3>2. QED BY <2>2, <3>1, StageSafe
  <2>3. CASE objs' = objs \cup {new} /\ at' = at + 1 /\ UNCHANGED <<version, pc, cause, running, crashes>>
    <3>1. Schema!Revision \in 0..(HeadRevision - 1) /\ at \in Nat \ {0}
      BY <1>1, <1>2, <2>1, Types DEF Schema!Revision
    <3>2. Schema!Revision + 1 \in 1..HeadRevision /\ at \in 1..Steps[Schema!Revision + 1] BY <1>1, <2>1, <3>1
    <3>3. new \in Schema!UpTo(HeadRevision) BY <1>1, <3>2 DEF Schema!UpTo, Schema!Of
    <3>4. Schema!TypeOK'
      <4>1. at' \in Nat \ {0} /\ objs' \subseteq Schema!UpTo(HeadRevision) BY <1>2, <2>3, <3>1, <3>3, Types
      <4>2. QED BY <1>2, <2>3, <4>1 DEF Schema!TypeOK
    <3>5. Schema!RevisionIsTrue' BY <1>2, <2>3 DEF Schema!RevisionIsTrue
    <3>6. Schema!Revision' = Schema!Revision BY <2>3 DEF Schema!Revision
    <3>7. \A i \in 1..(at - 1) : <<Schema!Revision + 1, i>> \in objs BY <2>1 DEF SchemaInv
    <3>8. \A i \in 1..(at' - 1) : i \in 1..(at - 1) \/ i = at BY <2>3, <3>1
    <3>9. \A i \in 1..(at' - 1) : <<Schema!Revision' + 1, i>> \in objs' BY <2>3, <3>6, <3>7, <3>8
    <3>10. QED BY <2>1, <2>3, <3>4, <3>5, <3>9 DEF SchemaInv
  <2>4. QED BY <2>1, <2>2, <2>3
<1>10. CASE Schema!Bump
  <2>1. /\ pc = "upgrade" /\ version # NoTable /\ Schema!Revision < HeadRevision /\ at > Steps[Schema!Revision + 1]
        /\ version' = Schema!Revision + 1 /\ at' = 1 /\ UNCHANGED <<objs, pc, cause, running, crashes>>
    BY <1>10 DEF Schema!Bump
  <2>2. Schema!Revision \in 0..(HeadRevision - 1) /\ at \in Nat \ {0}
    BY <1>1, <1>2, <2>1, Types DEF Schema!Revision
  <2>3. Schema!Revision + 1 \in 1..HeadRevision /\ Steps[Schema!Revision + 1] \in Nat BY <1>1, <2>2
  <2>4. Schema!UpTo(Schema!Revision) \subseteq objs
    <3>1. CASE version \in Nat BY <1>2, <3>1 DEF Schema!Revision, Schema!RevisionIsTrue
    <3>2. CASE version \notin Nat
      <4>1. Schema!Revision = 0 /\ 1..0 = {} BY <3>2 DEF Schema!Revision
      <4>2. QED BY <4>1 DEF Schema!UpTo
    <3>3. QED BY <3>1, <3>2
  <2>5. Schema!Of(Schema!Revision + 1) \subseteq objs
    <3>1. \A i \in 1..(at - 1) : <<Schema!Revision + 1, i>> \in objs BY <2>1 DEF SchemaInv
    <3>2. \A i \in 1..Steps[Schema!Revision + 1] : i \in 1..(at - 1) BY <2>1, <2>2, <2>3
    <3>3. QED BY <3>1, <3>2 DEF Schema!Of
  <2>6. Schema!UpTo(Schema!Revision + 1) \subseteq objs
    <3>1. Schema!Revision \in 0..HeadRevision BY <1>1, <2>2
    <3>2. QED BY <2>1, <2>4, <2>5, <3>1, RevisionsGrow
  <2>7. Schema!TypeOK'
    <3>1. version' \in 1..HeadRevision /\ 1 \in Nat \ {0} BY <2>1, <2>3
    <3>2. QED BY <1>2, <2>1, <3>1, Types DEF Schema!TypeOK
  <2>8. Schema!RevisionIsTrue' BY <2>1, <2>6 DEF Schema!RevisionIsTrue
  <2>9. \A i \in 1..(at' - 1) : <<Schema!Revision' + 1, i>> \in objs' BY <2>1
  <2>10. QED BY <2>1, <2>7, <2>8, <2>9 DEF SchemaInv
<1>11. CASE Schema!Upgraded
  <2>1. version = HeadRevision /\ pc' = "validate" /\ UNCHANGED <<objs, version, at, cause, running, crashes>>
    BY <1>11 DEF Schema!Upgraded, Schema!Step
  <2>2. Schema!TypeOK' BY <1>2, <2>1 DEF Schema!TypeOK
  <2>3. QED BY <2>1, <2>2, StageSafe
<1>12. CASE Schema!Validate
  <2>1. /\ pc = "validate" /\ pc' \in {"clean", "raised"} /\ cause' \in {cause, "incomplete"}
        /\ UNCHANGED <<objs, version, at, running, crashes>>
    BY <1>12 DEF Schema!Validate, Schema!Step, Schema!Raise
  <2>2. Schema!TypeOK' /\ version = HeadRevision BY <1>2, <2>1 DEF Schema!TypeOK, SchemaInv
  <2>3. QED BY <2>1, <2>2, StageSafe
<1>13. CASE Schema!Clean
  <2>1. /\ pc = "clean" /\ pc' = "serving" /\ running' = [a \in Automation |-> 0]
        /\ UNCHANGED <<objs, version, at, cause, crashes>>
    BY <1>13 DEF Schema!Clean
  <2>2. Schema!TypeOK'
    <3>1. running' \in [Automation -> 0..2] BY <2>1
    <3>2. QED BY <1>2, <2>1, <3>1 DEF Schema!TypeOK
  <2>3. Schema!RevisionIsTrue' BY <1>2, <2>1 DEF Schema!RevisionIsTrue
  <2>4. version' = HeadRevision BY <2>1 DEF SchemaInv
  <2>5. QED BY <2>1, <2>2, <2>3, <2>4 DEF SchemaInv
<1>14. QED BY <1>3, <1>4, <1>5, <1>6, <1>7, <1>8, <1>9, <1>10, <1>11, <1>12, <1>13 DEF Schema!Boot

\* An API that serves has its index, and the index refuses the second RUNNING.
LEMMA RunSafe ==
  ASSUME SchemaInv, NEW a \in Automation, Schema!StartRun(a) \/ Schema!EndRun(a)
  PROVE  SchemaInv'
<1>1. UNCHANGED <<objs, version, pc, at, cause, crashes>> BY DEF Schema!StartRun, Schema!EndRun
<1>2. Schema!TypeOK /\ Schema!RevisionIsTrue BY DEF SchemaInv
<1>3. running \in [Automation -> 0..2] BY <1>2 DEF Schema!TypeOK
<1>4. pc = "serving" => Schema!Unique \in objs
  <2>1. HeadRevision \in Nat /\ Schema!Unique \in Schema!UpTo(HeadRevision) BY SchemaConstants, RevisionsGrow
  <2>2. QED BY <1>2, <2>1 DEF SchemaInv, Schema!RevisionIsTrue
<1>5. running' \in [Automation -> 0..2] /\ (pc = "serving" => \A b \in Automation : running'[b] <= 1)
  <2>1. CASE Schema!StartRun(a)
    <3>1. /\ running' = [running EXCEPT ![a] = @ + 1]
          /\ running[a] < IF Schema!Unique \in objs \/ pc # "serving" THEN 1 ELSE 2
      BY <2>1 DEF Schema!StartRun
    <3>2. running[a] < 1 BY <1>4, <3>1
    <3>3. QED BY <1>3, <3>1, <3>2 DEF SchemaInv
  <2>2. CASE Schema!EndRun(a)
    <3>1. running' = [running EXCEPT ![a] = @ - 1] /\ running[a] > 0 BY <2>2 DEF Schema!EndRun
    <3>2. QED BY <1>3, <3>1 DEF SchemaInv
  <2>3. QED BY <2>1, <2>2
<1>6. Schema!TypeOK' BY <1>1, <1>2, <1>5 DEF Schema!TypeOK
<1>7. Schema!RevisionIsTrue' BY <1>1, <1>2 DEF Schema!RevisionIsTrue
<1>8. QED BY <1>1, <1>5, <1>6, <1>7 DEF SchemaInv, Schema!Valid, Schema!Revision

LEMMA SchemaStep ==
  ASSUME SchemaInv, [Schema!Next]_(Schema!vars)
  PROVE  SchemaInv'
<1>1. Schema!TypeOK /\ Schema!RevisionIsTrue BY DEF SchemaInv
<1>2. CASE Schema!Launch
  <2>1. pc' = "start" /\ cause' = "none" /\ at' = 1 /\ UNCHANGED <<objs, version, running, crashes>>
    BY <1>2 DEF Schema!Launch
  <2>2. 1 \in Nat \ {0} OBVIOUS
  <2>3. Schema!TypeOK' BY <1>1, <2>1, <2>2, Types, Typed
  <2>4. QED BY <2>1, <2>3, StageSafe
<1>3. CASE Schema!Operator
  <2>1. /\ pc = "raised" /\ running' = [a \in Automation |-> IF running[a] > 1 THEN 1 ELSE running[a]]
        /\ UNCHANGED <<objs, version, pc, at, cause, crashes>>
    BY <1>3 DEF Schema!Operator
  <2>2. running' \in [Automation -> 0..2]
    <3>1. running \in [Automation -> 0..2] BY <1>1, Types
    <3>2. QED BY <2>1, <3>1
  <2>3. Schema!TypeOK' BY <1>1, <2>1, <2>2 DEF Schema!TypeOK
  <2>4. Schema!RevisionIsTrue' BY <1>1, <2>1 DEF Schema!RevisionIsTrue
  <2>5. QED BY <2>1, <2>3, <2>4 DEF SchemaInv
<1>4. CASE Schema!Crash
  <2>1. /\ pc' = "down" /\ crashes' = crashes + 1 /\ crashes < MaxCrashes
        /\ UNCHANGED <<objs, version, at, cause, running>>
    BY <1>4 DEF Schema!Crash
  <2>2. crashes' \in 0..MaxCrashes
    <3>1. crashes \in 0..MaxCrashes /\ MaxCrashes \in Nat BY <1>1, Types, SchemaConstants
    <3>2. QED BY <2>1, <3>1
  <2>5. Schema!TypeOK' BY <1>1, <2>1, <2>2, Types DEF Schema!TypeOK
  <2>3. Schema!RevisionIsTrue' BY <1>1, <2>1 DEF Schema!RevisionIsTrue
  <2>4. QED BY <2>1, <2>3, <2>5 DEF SchemaInv
<1>5. CASE UNCHANGED Schema!vars
  <2>1. UNCHANGED <<objs, version, pc, at, cause, running, crashes>> BY <1>5 DEF Schema!vars
  <2>2. Schema!TypeOK' BY <2>1 DEF SchemaInv, Schema!TypeOK
  <2>3. Schema!RevisionIsTrue' BY <2>1 DEF SchemaInv, Schema!RevisionIsTrue
  <2>4. QED BY <2>1, <2>2, <2>3 DEF SchemaInv, Schema!Valid, Schema!Revision
<1>6. QED BY <1>2, <1>3, <1>4, <1>5, BootSafe, RunSafe DEF Schema!Next

\* app/main.py and app/database.py: wherever the process is killed the file holds what
\* its revision says, an API that serves has the whole schema, and no automation
\* counts as running twice, for any migrations and any number of kills.
THEOREM SchemaServed ==
  Schema!Spec => [](Schema!TypeOK /\ Schema!RevisionIsTrue /\ Schema!ServedIsWhole /\ Schema!OneRunning)
<1>1. SchemaInv => Schema!TypeOK /\ Schema!RevisionIsTrue /\ Schema!ServedIsWhole /\ Schema!OneRunning
  <2> SUFFICES ASSUME SchemaInv PROVE Schema!ServedIsWhole /\ Schema!OneRunning BY DEF SchemaInv
  <2>1. HeadRevision \in Nat /\ Schema!Columns \cup {Schema!Unique} = Schema!UpTo(HeadRevision)
    BY SchemaConstants, RevisionsGrow
  <2>2. pc = "serving" => Schema!UpTo(HeadRevision) \subseteq objs BY <2>1 DEF SchemaInv, Schema!RevisionIsTrue
  <2>3. Schema!ServedIsWhole BY <2>1, <2>2 DEF Schema!ServedIsWhole, Schema!Valid, Schema!MissingIndex
  <2>4. Schema!OneRunning
    <3>1. \A a \in Automation : running[a] \in 0..2 BY DEF SchemaInv, Schema!TypeOK
    <3>2. pc = "serving" => \A a \in Automation : ~(running[a] > 1) BY <3>1 DEF SchemaInv
    <3>3. QED BY <3>2 DEF Schema!OneRunning, Schema!Duplicated
  <2>5. QED BY <2>3, <2>4
<1>2. QED BY <1>1, SchemaInit, SchemaStep, PTL DEF Schema!Spec
-----------------------------------------------------------------------------
(* Wakeup: no free slot waits for a signalled row longer than one interval. *)

\* The signal of a row is under way, or its news has reached the loop.
Told == untold > 0 \/ signal \/ listener.pc = "answered" \/ wake

SignalTypes ==
  /\ signalsQueue \in Nat /\ active \in Nat /\ blocked = 0 /\ signalsQueue + active <= MaxRows
  /\ active <= MaxWorkers /\ untold \in 0..MaxRows /\ signal \in BOOLEAN /\ wake \in BOOLEAN
  /\ listener \in [pc : {"ask", "parked", "answered"}, left : 0..(LongPoll + MaxBackoff),
                   backoff : MinBackoff..MaxBackoff]
  /\ main \in [pc : {"look", "clear", "wait", "pause"}, left : 0..MaxPoll]
  /\ interval \in Poll..MaxPoll /\ since \in 0..Horizon \cup {Never} /\ reported \in 0..Horizon
  /\ starved \in Nat /\ full \in 0..Horizon

\* A row that nobody is told of waits for the loop, which has looked since it came:
\* what it has starved and what the loop still sleeps are one interval together.
Looked ==
  /\ starved <= Poll
  /\ signalsQueue = 0 \/ active = MaxWorkers => starved = 0
  /\ main.pc = "clear" => starved = 0 /\ interval = Poll
  /\ main.pc = "pause" => starved + main.left <= Poll
  /\ main.pc = "wait" => Told \/ signalsQueue = 0 \/ starved + main.left <= Poll

\* The loop's time begins with a full pool that it saw, and ends with a free slot that it saw.
Measured ==
  /\ since = Never => reported = 0
  /\ since # Never => reported <= since /\ (active = MaxWorkers => since <= full)
  /\ main.pc \in {"wait", "clear"} => reported = 0

SignalsInv == SignalTypes /\ Looked /\ Measured

LEMMA SignalConstants ==
  /\ MaxWorkers \in Nat \ {0} /\ Poll \in Nat \ {0} /\ MaxPoll \in Nat \ {0} /\ LongPoll \in Nat \ {0}
  /\ MinBackoff \in Nat \ {0} /\ MaxBackoff \in Nat \ {0} /\ Poll <= MaxPoll /\ MinBackoff <= MaxBackoff
  /\ MaxRows \in Nat \ {0} /\ Horizon \in Nat /\ Never \notin Nat
  BY PartsAssumption DEF Signals!WakeupAssumption

LEMMA SignalsInit == Signals!Init => SignalsInv
<1> SUFFICES ASSUME Signals!Init PROVE SignalsInv OBVIOUS
<1>1. /\ signalsQueue \in 0..1 /\ blocked = 0 /\ active = 0 /\ untold = 0 /\ signal = FALSE
      /\ listener = [pc |-> "ask", left |-> 0, backoff |-> MinBackoff]
      /\ wake = FALSE /\ main = [pc |-> "look", left |-> 0] /\ interval = Poll
      /\ since = Never /\ reported = 0 /\ starved = 0 /\ full = 0
  BY DEF Signals!Init
<1>2. /\ listener \in [pc : {"ask", "parked", "answered"}, left : 0..(LongPoll + MaxBackoff),
                       backoff : MinBackoff..MaxBackoff]
      /\ main \in [pc : {"look", "clear", "wait", "pause"}, left : 0..MaxPoll]
  BY <1>1, SignalConstants
<1>3. /\ signalsQueue \in Nat /\ active \in Nat /\ active <= MaxWorkers /\ signalsQueue + active <= MaxRows
      /\ interval \in Poll..MaxPoll /\ untold \in 0..MaxRows /\ reported \in 0..Horizon /\ full \in 0..Horizon
  BY <1>1, SignalConstants
<1>4. SignalTypes BY <1>1, <1>2, <1>3 DEF SignalTypes
<1>5. Looked /\ Measured BY <1>1, SignalConstants DEF Looked, Measured
<1>6. QED BY <1>4, <1>5 DEF SignalsInv

\* The API and the listener: a signal that is not yet given, given or taken up is told.
LEMMA SignalSafe ==
  ASSUME SignalsInv,
         Signals!Commit \/ Signals!Trigger \/ Signals!Ask \/ Signals!Signalled \/ Signals!TimedOut
           \/ Signals!Woken
  PROVE  SignalsInv'
<1>1. SignalTypes /\ Looked /\ Measured BY DEF SignalsInv
<1>2. UNCHANGED <<blocked, active, main, interval, since, reported, starved, full>>
  BY DEF Signals!Commit, Signals!Trigger, Signals!Ask, Signals!Signalled, Signals!TimedOut,
         Signals!Woken, Signals!loop, Signals!rows
<1>3. Measured' BY <1>1, <1>2 DEF Measured
<1>0. /\ 0 \in 0..(LongPoll + MaxBackoff) /\ LongPoll \in 0..(LongPoll + MaxBackoff)
      /\ listener \in [pc : {"ask", "parked", "answered"}, left : 0..(LongPoll + MaxBackoff),
                       backoff : MinBackoff..MaxBackoff]
  BY <1>1, SignalConstants DEF SignalTypes
<1>4. CASE Signals!Commit
  <2>1. /\ signalsQueue + blocked + active < MaxRows /\ untold < MaxRows
        /\ signalsQueue' = signalsQueue + 1 /\ untold' = untold + 1
        /\ UNCHANGED <<signal, listener, wake>>
    BY <1>4 DEF Signals!Commit
  <2>2. SignalTypes' BY <1>1, <1>2, <2>1, SignalConstants DEF SignalTypes
  <2>3. Told' BY <1>1, <2>1 DEF SignalTypes, Told
  <2>4. Looked' BY <1>1, <1>2, <2>1, <2>3, SignalConstants DEF Looked, SignalTypes
  <2>5. QED BY <1>3, <2>2, <2>4 DEF SignalsInv
<1>5. CASE ~Signals!Commit
  <2>1. UNCHANGED <<signalsQueue>> /\ SignalTypes' /\ (Told => Told')
    <3>1. CASE Signals!Trigger
      <4>1. untold > 0 /\ untold' = untold - 1 /\ signal' = TRUE /\ UNCHANGED <<signalsQueue, listener, wake>>
        BY <3>1 DEF Signals!Trigger, Signals!rows
      <4>2. QED BY <1>1, <1>2, <4>1, SignalConstants DEF SignalTypes, Told
    <3>2. CASE Signals!Ask
      <4>1. /\ listener.pc = "ask" /\ listener' = [listener EXCEPT !.pc = "parked", !.left = LongPoll]
            /\ UNCHANGED <<signalsQueue, untold, signal, wake>>
        BY <3>2 DEF Signals!Ask, Signals!rows
      <4>2. listener' \in [pc : {"ask", "parked", "answered"}, left : 0..(LongPoll + MaxBackoff),
                           backoff : MinBackoff..MaxBackoff]
        BY <1>0, <4>1
      <4>3. QED BY <1>1, <1>2, <4>1, <4>2 DEF SignalTypes, Told
    <3>3. CASE Signals!Signalled
      <4>1. /\ listener' = [listener EXCEPT !.pc = "answered", !.left = 0] /\ signal' = FALSE
            /\ UNCHANGED <<signalsQueue, untold, wake>>
        BY <3>3 DEF Signals!Signalled, Signals!rows
      <4>2. listener' \in [pc : {"ask", "parked", "answered"}, left : 0..(LongPoll + MaxBackoff),
                           backoff : MinBackoff..MaxBackoff] /\ listener'.pc = "answered"
        BY <1>0, <4>1
      <4>3. QED BY <1>1, <1>2, <4>1, <4>2 DEF SignalTypes, Told
    <3>4. CASE Signals!TimedOut
      <4>1. /\ listener.pc = "parked" /\ ~signal
            /\ listener' = [pc |-> "ask", left |-> 0, backoff |-> MinBackoff]
            /\ UNCHANGED <<signalsQueue, untold, signal, wake>>
        BY <3>4 DEF Signals!TimedOut, Signals!rows
      <4>2. listener' \in [pc : {"ask", "parked", "answered"}, left : 0..(LongPoll + MaxBackoff),
                           backoff : MinBackoff..MaxBackoff]
        BY <4>1, SignalConstants
      <4>3. QED BY <1>1, <1>2, <4>1, <4>2 DEF SignalTypes, Told
    <3>5. CASE Signals!Woken
      <4>1. /\ wake' = TRUE /\ listener' = [pc |-> "ask", left |-> 0, backoff |-> MinBackoff]
            /\ UNCHANGED <<signalsQueue, untold, signal>>
        BY <3>5 DEF Signals!Woken, Signals!rows
      <4>2. listener' \in [pc : {"ask", "parked", "answered"}, left : 0..(LongPoll + MaxBackoff),
                           backoff : MinBackoff..MaxBackoff]
        BY <4>1, SignalConstants
      <4>3. QED BY <1>1, <1>2, <4>1, <4>2 DEF SignalTypes, Told
    <3>6. QED BY <1>5, <3>1, <3>2, <3>3, <3>4, <3>5
  <2>2. Looked' BY <1>1, <1>2, <2>1 DEF Looked
  <2>3. QED BY <1>3, <2>1, <2>2 DEF SignalsInv
<1>6. QED BY <1>4, <1>5

\* A look finds the pool full, a row or nothing; after a row the wait is the shortest.
LEMMA LookSafe ==
  ASSUME SignalsInv, Signals!LookFull \/ Signals!Claim \/ Signals!ClaimNothing
  PROVE  SignalsInv'
<1>1. SignalTypes /\ Looked /\ Measured BY DEF SignalsInv
<1>2. CASE Signals!LookFull
  <2>1. /\ main.pc = "look" /\ active >= MaxWorkers
        /\ since' = (IF since = Never THEN 0 ELSE since) /\ reported' = since'
        /\ main' = [pc |-> "pause", left |-> Poll]
        /\ UNCHANGED <<signalsQueue, blocked, active, untold, signal, listener, wake, interval, starved, full>>
    BY <1>2 DEF Signals!LookFull, Signals!Track, Signals!rows
  <2>2. active = MaxWorkers BY <1>1, <2>1, SignalConstants DEF SignalTypes
  <2>3. main' \in [pc : {"look", "clear", "wait", "pause"}, left : 0..MaxPoll] /\ since' \in 0..Horizon
    BY <1>1, <2>1, SignalConstants DEF SignalTypes
  <2>4. SignalTypes' BY <1>1, <2>1, <2>3 DEF SignalTypes
  <2>5. Looked' BY <1>1, <2>1, <2>2, SignalConstants DEF Looked
  <2>6. Measured' BY <1>1, <2>1, <2>2, <2>3, SignalConstants DEF Measured, SignalTypes
  <2>7. QED BY <2>4, <2>5, <2>6 DEF SignalsInv
<1>3. CASE Signals!Claim
  <2>1. /\ main.pc = "look" /\ active < MaxWorkers /\ signalsQueue > 0 /\ since' = Never /\ reported' = 0
        /\ signalsQueue' = signalsQueue - 1 /\ active' = active + 1 /\ starved' = 0
        /\ main' = [pc |-> "clear", left |-> 0] /\ interval' = Poll
        /\ UNCHANGED <<blocked, untold, signal, listener, wake, full>>
    BY <1>3 DEF Signals!Claim, Signals!Track
  <2>2. main' \in [pc : {"look", "clear", "wait", "pause"}, left : 0..MaxPoll]
        /\ interval' \in Poll..MaxPoll /\ reported' \in 0..Horizon
    BY <2>1, SignalConstants
  <2>3. signalsQueue' \in Nat /\ active' \in Nat /\ signalsQueue' + active' <= MaxRows /\ active' <= MaxWorkers
    BY <1>1, <2>1, SignalConstants DEF SignalTypes
  <2>4. SignalTypes' BY <1>1, <2>1, <2>2, <2>3 DEF SignalTypes
  <2>5. Looked' /\ Measured' BY <2>1, SignalConstants DEF Looked, Measured
  <2>6. QED BY <2>4, <2>5 DEF SignalsInv
<1>4. CASE Signals!ClaimNothing
  <2>1. /\ main.pc = "look" /\ active < MaxWorkers /\ signalsQueue = 0 /\ since' = Never /\ reported' = 0
        /\ interval' = Signals!Grown /\ main' = [pc |-> "wait", left |-> Signals!Grown]
        /\ UNCHANGED <<signalsQueue, blocked, active, untold, signal, listener, wake, starved, full>>
    BY <1>4 DEF Signals!ClaimNothing, Signals!Track, Signals!rows
  <2>2. Signals!Grown \in Poll..MaxPoll
    <3>1. interval \in Nat /\ interval >= Poll BY <1>1, SignalConstants DEF SignalTypes
    <3>2. interval \div 2 \in Nat BY <3>1
    <3>3. interval + (interval \div 2) \in Nat /\ interval + (interval \div 2) >= Poll
      BY <3>1, <3>2, SignalConstants
    <3>4. QED BY <3>3, SignalConstants DEF Signals!Grown, Signals!Least
  <2>3. main' \in [pc : {"look", "clear", "wait", "pause"}, left : 0..MaxPoll] /\ reported' \in 0..Horizon
    BY <2>1, <2>2, SignalConstants
  <2>4. SignalTypes' BY <1>1, <2>1, <2>2, <2>3 DEF SignalTypes
  <2>5. Looked' /\ Measured' BY <1>1, <2>1, SignalConstants DEF Looked, Measured
  <2>6. QED BY <2>4, <2>5 DEF SignalsInv
<1>5. QED BY <1>2, <1>3, <1>4

LEMMA WaitSafe ==
  ASSUME SignalsInv, Signals!Clear \/ Signals!WaitOver \/ Signals!End
  PROVE  SignalsInv'
<1>1. SignalTypes /\ Looked /\ Measured BY DEF SignalsInv
<1>2. CASE Signals!Clear
  <2>1. /\ main.pc = "clear" /\ wake' = FALSE /\ main' = [pc |-> "wait", left |-> interval]
        /\ UNCHANGED <<signalsQueue, blocked, active, untold, signal, listener, interval, since, reported,
                       starved, full>>
    BY <1>2 DEF Signals!Clear, Signals!rows
  <2>2. main' \in [pc : {"look", "clear", "wait", "pause"}, left : 0..MaxPoll]
    BY <1>1, <2>1, SignalConstants DEF SignalTypes
  <2>3. SignalTypes' BY <1>1, <2>1, <2>2 DEF SignalTypes
  <2>4. Looked' BY <1>1, <2>1, SignalConstants DEF Looked
  <2>5. Measured' BY <1>1, <2>1 DEF Measured
  <2>6. QED BY <2>3, <2>4, <2>5 DEF SignalsInv
<1>3. CASE Signals!WaitOver
  <2>1. /\ main' = [pc |-> "look", left |-> 0] /\ wake' = FALSE
        /\ UNCHANGED <<signalsQueue, blocked, active, untold, signal, listener, interval, since, reported,
                       starved, full>>
    BY <1>3 DEF Signals!WaitOver, Signals!rows
  <2>2. main' \in [pc : {"look", "clear", "wait", "pause"}, left : 0..MaxPoll] BY <2>1, SignalConstants
  <2>3. SignalTypes' BY <1>1, <2>1, <2>2 DEF SignalTypes
  <2>4. Looked' /\ Measured' BY <1>1, <2>1 DEF Looked, Measured
  <2>5. QED BY <2>3, <2>4 DEF SignalsInv
<1>4. CASE Signals!End
  <2>1. /\ active > 0 /\ active' = active - 1 /\ full' = 0 /\ signalsQueue' = signalsQueue /\ blocked' = blocked
        /\ UNCHANGED <<untold, signal, listener, wake, main, interval, since, reported, starved>>
    BY <1>1, <1>4 DEF Signals!End, Signals!loop, SignalTypes
  <2>2. active' \in Nat /\ active' < MaxWorkers /\ signalsQueue' + active' <= MaxRows /\ full' \in 0..Horizon
    BY <1>1, <2>1, SignalConstants DEF SignalTypes
  <2>3. SignalTypes' BY <1>1, <2>1, <2>2, SignalConstants DEF SignalTypes
  <2>4. active' # MaxWorkers BY <2>2, SignalConstants
  <2>5. Told' = Told BY <2>1 DEF Told
  <2>6. Looked' BY <1>1, <2>1, <2>4, <2>5 DEF Looked
  <2>7. Measured' BY <1>1, <2>1, <2>4 DEF Measured
  <2>8. QED BY <2>3, <2>6, <2>7 DEF SignalsInv
<1>5. QED BY <1>2, <1>3, <1>4

\* Time passes only while nobody has anything to be told.
LEMMA TickSafe ==
  ASSUME SignalsInv, Signals!Tick
  PROVE  SignalsInv'
<1>1. SignalTypes /\ Looked /\ Measured BY DEF SignalsInv
<1>2. /\ untold = 0 /\ ~wake /\ main.pc \in {"wait", "pause"} /\ main.left # 0
      /\ listener.pc = "parked" /\ listener.left # 0 /\ ~signal
  BY <1>1 DEF Signals!Tick, Signals!Urgent, SignalTypes
<1>3. /\ main' = [main EXCEPT !.left = @ - 1] /\ listener' = [listener EXCEPT !.left = @ - 1]
      /\ since' = IF since = Never THEN Never ELSE Signals!Least(since + 1, Horizon)
      /\ full' = IF active = MaxWorkers THEN Signals!Least(full + 1, Horizon) ELSE 0
      /\ starved' = IF signalsQueue > 0 /\ active < MaxWorkers THEN Signals!Least(starved + 1, MaxPoll + 1) ELSE 0
      /\ UNCHANGED <<signalsQueue, blocked, active, untold, signal, wake, interval, reported>>
  BY DEF Signals!Tick, Signals!rows
<1>4. ~Told BY <1>1, <1>2 DEF Told, SignalTypes
<1>5. /\ main' \in [pc : {"look", "clear", "wait", "pause"}, left : 0..MaxPoll]
      /\ main'.pc = main.pc /\ main'.left = main.left - 1 /\ main.left \in Nat
  <2>1. main \in [pc : {"look", "clear", "wait", "pause"}, left : 0..MaxPoll] /\ MaxPoll \in Nat
    BY <1>1, SignalConstants DEF SignalTypes
  <2>2. main.left - 1 \in 0..MaxPoll BY <1>2, <2>1
  <2>3. QED BY <1>3, <2>1, <2>2
<1>6. listener' \in [pc : {"ask", "parked", "answered"}, left : 0..(LongPoll + MaxBackoff),
                     backoff : MinBackoff..MaxBackoff]
  <2>1. listener \in [pc : {"ask", "parked", "answered"}, left : 0..(LongPoll + MaxBackoff),
                      backoff : MinBackoff..MaxBackoff] /\ LongPoll + MaxBackoff \in Nat
    BY <1>1, SignalConstants DEF SignalTypes
  <2>2. listener.left - 1 \in 0..(LongPoll + MaxBackoff) BY <1>2, <2>1
  <2>3. QED BY <1>3, <2>1, <2>2
<1>7. since' \in 0..Horizon \cup {Never} /\ full' \in 0..Horizon /\ starved' \in Nat
  BY <1>1, <1>3, SignalConstants DEF SignalTypes, Signals!Least
<1>8. SignalTypes' BY <1>1, <1>3, <1>5, <1>6, <1>7 DEF SignalTypes
<1>9. Looked'
  <2>1. CASE signalsQueue > 0 /\ active < MaxWorkers
    <3>1. starved + main.left <= Poll
      BY <1>1, <1>2, <1>4, <2>1 DEF Looked, SignalTypes
    <3>2. starved' <= starved + 1 /\ starved \in Nat /\ starved' \in Nat
      BY <1>1, <1>3, <1>7, <2>1, SignalConstants DEF SignalTypes, Signals!Least
    <3>3. starved' + main'.left <= Poll /\ starved' <= Poll BY <1>2, <1>5, <3>1, <3>2, SignalConstants
    <3>4. signalsQueue' # 0 /\ active' # MaxWorkers BY <1>1, <1>3, <2>1, SignalConstants DEF SignalTypes
    <3>5. main'.pc # "clear" BY <1>2, <1>5
    <3>6. QED BY <3>3, <3>4, <3>5 DEF Looked
  <2>2. CASE ~(signalsQueue > 0 /\ active < MaxWorkers)
    <3>1. starved' = 0 /\ main'.pc # "clear" BY <1>2, <1>3, <1>5, <2>2
    <3>2. main.pc = "pause" => main'.left <= Poll
      BY <1>1, <1>5, SignalConstants DEF Looked, SignalTypes
    <3>3. main.pc = "wait" => signalsQueue = 0 \/ main'.left <= Poll
      BY <1>1, <1>4, <1>5, SignalConstants DEF Looked, SignalTypes
    <3>4. 0 <= Poll BY SignalConstants
    <3>5. \A l \in Nat : 0 + l = l OBVIOUS
    <3>6. main'.left \in Nat BY <1>2, <1>5
    <3>7. QED BY <1>3, <1>5, <3>1, <3>2, <3>3, <3>4, <3>5, <3>6 DEF Looked
  <2>3. QED BY <2>1, <2>2
<1>10. Measured'
  <2>1. CASE since = Never
    <3>1. since' = Never BY <1>3, <2>1
    <3>2. QED BY <1>1, <1>3, <2>1, <3>1 DEF Measured
  <2>2. CASE since # Never
    <3>1. since \in 0..Horizon /\ reported <= since /\ reported \in 0..Horizon /\ full \in 0..Horizon
      BY <1>1, <2>2 DEF SignalTypes, Measured
    <3>2. since' = Signals!Least(since + 1, Horizon) BY <1>3, <2>2
    <3>3. since' >= since /\ since' \in Nat BY <3>1, <3>2, SignalConstants DEF Signals!Least
    <3>4. reported' <= since' /\ since' # Never BY <1>3, <3>1, <3>3, SignalConstants
    <3>5. ASSUME active = MaxWorkers PROVE since' <= full'
      <4>1. since <= full /\ full' = Signals!Least(full + 1, Horizon)
        BY <1>1, <1>3, <2>2, <3>5 DEF Measured
      <4>2. QED BY <3>1, <3>2, <4>1, SignalConstants DEF Signals!Least
    <3>6. main'.pc \in {"wait", "clear"} => reported' = 0 BY <1>1, <1>3, <1>5 DEF Measured
    <3>7. QED BY <1>3, <3>4, <3>5, <3>6 DEF Measured
  <2>3. QED BY <2>1, <2>2
<1>11. QED BY <1>8, <1>9, <1>10 DEF SignalsInv

LEMMA SignalsStep ==
  ASSUME SignalsInv, [Signals!Next]_(Signals!vars)
  PROVE  SignalsInv'
<1>1. CASE UNCHANGED Signals!vars
  BY <1>1 DEF Signals!vars, Signals!rows, Signals!loop, SignalsInv, SignalTypes, Looked, Told, Measured
<1>2. ~Signals!Restart /\ ~Signals!Refused BY DEF Signals!Restart, Signals!Refused
<1>3. ~Signals!BackoffOver BY DEF Signals!BackoffOver, SignalsInv, SignalTypes
<1>4. QED BY <1>1, <1>2, <1>3, SignalSafe, LookSafe, WaitSafe, TickSafe DEF Signals!Next

\* app/runtime.py and worker.py, with a reachable API and signalled rows: no free slot
\* waits for a row longer than the shortest interval, and the pool is never reported
\* as saturated for longer than it has been full.
THEOREM RowsAreTold == Signals!Spec => [](Signals!TypeOK /\ Signals!Prompt /\ Signals!SaturationHonest)
<1>1. SignalsInv => Signals!TypeOK /\ Signals!Prompt /\ Signals!SaturationHonest
  <2> SUFFICES ASSUME SignalsInv PROVE Signals!TypeOK /\ Signals!Prompt /\ Signals!SaturationHonest
    OBVIOUS
  <2>1. SignalTypes /\ Looked /\ Measured BY DEF SignalsInv
  <2>2. Signals!Prompt BY <2>1 DEF Looked, Signals!Prompt
  <2>3. Signals!SaturationHonest
    <3>1. reported > 0 /\ active = MaxWorkers => reported <= full
      BY <2>1, SignalConstants DEF Measured, SignalTypes
    <3>2. QED BY <2>1, <3>1 DEF Measured, Signals!SaturationHonest
  <2>4. Signals!TypeOK
    <3>1. {signalsQueue, blocked, active} \subseteq 0..MaxRows /\ starved \in 0..(MaxPoll + 1)
      BY <2>1, SignalConstants DEF SignalTypes, Looked
    <3>2. /\ listener.pc \in {"ask", "parked", "answered"} /\ listener.left \in 0..(LongPoll + MaxBackoff)
          /\ listener.backoff \in MinBackoff..MaxBackoff
          /\ main.pc \in {"look", "clear", "wait", "pause"} /\ main.left \in 0..MaxPoll
      BY <2>1 DEF SignalTypes
    <3>3. QED BY <2>1, <3>1, <3>2 DEF SignalTypes, Signals!TypeOK
  <2>5. QED BY <2>2, <2>3, <2>4
<1>2. QED BY <1>1, SignalsInit, SignalsStep, PTL DEF Signals!Spec
-----------------------------------------------------------------------------
(* The parts together: a behaviour of MCServices is one of each part.      *)

LEMMA EachPart ==
  AllSpec => /\ Spec /\ Limits!Spec /\ Alerts!Spec /\ Repeats!Spec /\ Logs!Spec
             /\ LossyLogs!Spec /\ Jobs!Spec /\ Schema!Spec /\ Signals!Spec
<1>1. AllInit => /\ Init /\ Limits!Init /\ Alerts!Init /\ Repeats!Init
                 /\ Logs!Init /\ LossyLogs!Init /\ Jobs!Init /\ Schema!Init /\ Signals!Init
  BY DEF AllInit
<1>2. [AllNext]_everything => [Next]_vars BY DEF AllNext, everything
<1>3. [AllNext]_everything => [Limits!Next]_(Limits!vars)
  BY DEF AllNext, everything, limitsVars, Limits!vars
<1>4. [AllNext]_everything => [Alerts!Next]_(Alerts!vars)
  BY DEF AllNext, everything, alertsVars, Alerts!vars
<1>5. [AllNext]_everything => [Repeats!Next]_(Repeats!vars)
  BY DEF AllNext, everything, repeatsVars, Repeats!vars
<1>6. [AllNext]_everything => [Jobs!Next]_(Jobs!vars)
  BY DEF AllNext, everything, jobsVars, Jobs!vars
<1>7. [AllNext]_everything => [Schema!Next]_(Schema!vars)
  BY DEF AllNext, everything, schemaVars, Schema!vars
<1>8. [AllNext]_everything => [Signals!Next]_(Signals!vars)
  BY DEF AllNext, everything, signalsVars, Signals!vars, Signals!rows, Signals!loop
<1>9. [AllNext]_everything => [Logs!Next]_(Logs!vars)
  BY DEF AllNext, everything, logsVars, Logs!vars, Logs!work, Logs!api
<1>10. [AllNext]_everything => [LossyLogs!Next]_(LossyLogs!vars)
  BY DEF AllNext, everything, lossyVars, LossyLogs!vars, LossyLogs!work, LossyLogs!api
<1>11. AllSpec => Spec /\ Limits!Spec /\ Alerts!Spec /\ Repeats!Spec
  BY <1>1, <1>2, <1>3, <1>4, <1>5, PTL DEF AllSpec, Spec, Limits!Spec, Alerts!Spec, Repeats!Spec
<1>12. AllSpec => Jobs!Spec /\ Schema!Spec /\ Signals!Spec
  BY <1>1, <1>6, <1>7, <1>8, PTL DEF AllSpec, Jobs!Spec, Schema!Spec, Signals!Spec
<1>13. AllSpec => Logs!Spec /\ LossyLogs!Spec
  BY <1>1, <1>9, <1>10, PTL DEF AllSpec, Logs!Spec, LossyLogs!Spec
<1>14. QED BY <1>11, <1>12, <1>13

\* services/ws_auth.py and middleware.py: a token opens one connection, and whoever is
\* turned away, with a token or with a request, has to be.
THEOREM AdmittedJustly == AllSpec => [](AdmitsJustly /\ OnceOnly)
  BY TokensSafe, LimitsKept, EachPart, PTL DEF AdmitsJustly

\* services/alerts.py: in both parts a cooldown lets no more alerts pass than the pool
\* has threads, and where the table never fills the count follows the failures.
THEOREM AlertsAreCounted == AllSpec => []AlertsCount
<1>1. Alerts!TierAssumption /\ Repeats!TierAssumption BY PartsAssumption
<1>2. Alerts!Spec => [](Alerts!TypeOK /\ Alerts!BurstBounded /\ Alerts!CountFollowsFailures)
  BY <1>1, Alerts!AlertsBounded
<1>3. Repeats!Spec => [](Repeats!TypeOK /\ Repeats!BurstBounded /\ Repeats!CountFollowsFailures)
  BY <1>1, Repeats!AlertsBounded
<1>4. QED BY <1>2, <1>3, EachPart, PTL DEF AlertsCount

\* worker.py, routers/ide.py and routers/websocket.py: if the log fits a message and the
\* list, a sound network shows all of it, and what a bad one loses is stored; either way
\* after the history, by one writer, and to nobody who is gone.
THEOREM LogsArrive == LogsFit => (AllSpec => []LogsAreWhole)
<1> SUFFICES ASSUME LogsFit PROVE AllSpec => []LogsAreWhole OBVIOUS
<1>1. Logs!LogStreamAssumption /\ LossyLogs!LogStreamAssumption BY PartsAssumption
<1>2. Logs!SoundNetwork BY DEF LogsFit, Logs!SoundNetwork
<1>3. ~FALSE /\ FewLines <= MoreKept BY DEF LogsFit
<1>4. Logs!Spec => [](Logs!TypeOK /\ Logs!SingleWriter /\ Logs!HistoryFirst /\ Logs!NoLeak)
  BY <1>1, Logs!SocketsAreSound
<1>5. Logs!Spec => [](Logs!SeenInOrder /\ Logs!ShownIsPrefix)
  BY <1>1, <1>2, Logs!LogIsShown
<1>6. LossyLogs!Spec => [](LossyLogs!TypeOK /\ LossyLogs!SingleWriter
                           /\ LossyLogs!HistoryFirst /\ LossyLogs!NoLeak)
  BY <1>1, LossyLogs!SocketsAreSound
<1>7. LossyLogs!Spec => []LossyLogs!Preserved
  BY <1>1, <1>3, LossyLogs!LogIsStored
<1>8. QED BY <1>4, <1>5, <1>6, <1>7, EachPart, PTL DEF LogsAreWhole

\* services/scheduler_runtime.py: the scheduler runs what the table asks for after every
\* reload that met no other, such reloads put off no interval whose job is in the store in
\* time, and none at all moves an anchor.
THEOREM ReloadsKeepTime == AllSpec => []JobsAsStored
  BY JobsReloaded, EachPart, PTL DEF JobsAsStored

\* app/main.py and app/database.py: an API that serves has the whole schema, and nothing
\* that counts as running twice, wherever earlier starts were killed.
THEOREM StartsWhole == AllSpec => []ServesWhole
  BY SchemaServed, EachPart, PTL DEF ServesWhole

\* app/runtime.py and worker.py: a signalled row is looked for within the shortest
\* interval of a free slot.
THEOREM WakesInTime == AllSpec => []WokenInTime
  BY RowsAreTold, EachPart, PTL DEF WokenInTime
=============================================================================
