------------------------------- MODULE WsToken -------------------------------
(***************************************************************************)
(* services/ws_auth.py: tokens for one WebSocket handshake each, in the    *)
(* memory of the API process.  The request threads read the clock before   *)
(* they take the lock, so that a thread may go by an old time.             *)
(*                                                                         *)
(*   tokens     _tokens: token -> expiry                                   *)
(*   thread[t]  a request: what it does, the time it read, its token       *)
(*   clock      the monotonic clock                                        *)
(*                                                                         *)
(* History: issued, the expiry of every token and its turn; accepted, how  *)
(* often a token was; refused, those turned away neither used nor late.    *)
(***************************************************************************)
EXTENDS Naturals, FiniteSets

CONSTANTS
  Token, Thread,
  TTL,          \* WS_TOKEN_TTL_SECONDS
  MaxTokens,    \* _MAX_TOKENS
  None,
  MaxClock      \* bound

ASSUME WsTokenAssumption == TTL \in Nat \ {0} /\ MaxTokens \in Nat \ {0} /\ MaxClock \in Nat

VARIABLES tokens, thread, clock, issued, accepted, refused

vars == <<tokens, thread, clock, issued, accepted, refused>>

Time == 0..(MaxClock + TTL)
Idle == [pc |-> "idle", now |-> 0, token |-> None]

\* The store never exceeds its cap.
TypeOK ==
  /\ DOMAIN tokens \subseteq Token /\ Cardinality(DOMAIN tokens) <= MaxTokens
  /\ \A k \in DOMAIN tokens : tokens[k] \in Time
  /\ \A t \in Thread :
       /\ thread[t].pc \in {"idle", "issue", "consume"}
       /\ thread[t].now \in 0..MaxClock /\ thread[t].token \in Token \cup {None}
  /\ clock \in 0..MaxClock
  /\ DOMAIN issued \subseteq Token /\ accepted \in [Token -> 0..2] /\ refused \subseteq Token

Init ==
  /\ tokens = [k \in {} |-> 0] /\ thread = [t \in Thread |-> Idle] /\ clock = 0
  /\ issued = [k \in {} |-> [expiry |-> 0, nth |-> 0]] /\ accepted = [k \in Token |-> 0] /\ refused = {}
-----------------------------------------------------------------------------
Only(f, S) == [k \in DOMAIN f \cap S |-> f[k]]
Put(f, k, e) == [x \in DOMAIN f \cup {k} |-> IF x = k THEN e ELSE f[x]]

\* _prune_expired.
Pruned(now) == Only(tokens, {k \in DOMAIN tokens : tokens[k] > now})

\* At the cap the token nearest to its expiry makes room.
Room(f) ==
  IF Cardinality(DOMAIN f) < MaxTokens THEN {f}
  ELSE {Only(f, DOMAIN f \ {k}) : k \in {x \in DOMAIN f : \A y \in DOMAIN f : f[x] <= f[y]}}

IssueStart(t) ==
  /\ thread[t].pc = "idle"
  /\ \E k \in Token \ DOMAIN issued :
       /\ \A u \in Thread : thread[u].pc = "issue" => thread[u].token # k
       /\ thread' = [thread EXCEPT ![t] = [pc |-> "issue", now |-> clock, token |-> k]]
  /\ UNCHANGED <<tokens, clock, issued, accepted, refused>>

\* issue_ws_token, under the lock.
Issue(t) ==
  /\ thread[t].pc = "issue"
  /\ LET k == thread[t].token
         e == thread[t].now + TTL
     IN  /\ \E f \in Room(Pruned(thread[t].now)) : tokens' = Put(f, k, e)
         /\ issued' = Put(issued, k, [expiry |-> e, nth |-> Cardinality(DOMAIN issued) + 1])
  /\ thread' = [thread EXCEPT ![t] = Idle]
  /\ UNCHANGED <<clock, accepted, refused>>

ConsumeStart(t, k) ==
  /\ thread[t].pc = "idle" /\ k \in DOMAIN issued /\ accepted[k] < 2
  /\ thread' = [thread EXCEPT ![t] = [pc |-> "consume", now |-> clock, token |-> k]]
  /\ UNCHANGED <<tokens, clock, issued, accepted, refused>>

\* Mutated form: the token stays in the store.
ConsumeKeeps(t) ==
  /\ thread[t].pc = "consume"
  /\ LET k == thread[t].token
         f == Pruned(thread[t].now)
         ok == k \in DOMAIN f
     IN  /\ tokens' = f
         /\ accepted' = IF ok THEN [accepted EXCEPT ![k] = @ + 1] ELSE accepted
         /\ refused' = IF ok \/ accepted[k] > 0 \/ issued[k].expiry <= thread[t].now THEN refused ELSE refused \cup {k}
  /\ thread' = [thread EXCEPT ![t] = Idle]
  /\ UNCHANGED <<clock, issued>>

\* consume_ws_token, under the lock.  refused notes a token turned away
\* although it was neither used nor late.
Consume(t) ==
  /\ thread[t].pc = "consume"
  /\ LET k == thread[t].token
         f == Pruned(thread[t].now)
         ok == k \in DOMAIN f
     IN  /\ tokens' = Only(f, DOMAIN f \ {k})
         /\ accepted' = IF ok THEN [accepted EXCEPT ![k] = @ + 1] ELSE accepted
         /\ refused' = IF ok \/ accepted[k] > 0 \/ issued[k].expiry <= thread[t].now THEN refused ELSE refused \cup {k}
  /\ thread' = [thread EXCEPT ![t] = Idle]
  /\ UNCHANGED <<clock, issued>>

Tick == clock < MaxClock /\ clock' = clock + 1 /\ UNCHANGED <<tokens, thread, issued, accepted, refused>>

Next ==
  \/ \E t \in Thread :
       IssueStart(t) \/ Issue(t) \/ Consume(t) \/ \E k \in Token : ConsumeStart(t, k)
  \/ Tick

Spec == Init /\ [][Next]_vars
-----------------------------------------------------------------------------
\* A token opens one connection, whoever presents it at the same time.
OnceOnly == \A k \in Token : accepted[k] <= 1

\* A token that is neither used nor late is turned away only if as many tokens
\* as the store holds were issued after it or expire no earlier, or a thread
\* whose clock was ahead took it for expired.
TurnedAwayForRoom ==
  \A k \in refused :
    \/ Cardinality({x \in DOMAIN issued \ {k} :
         issued[x].expiry >= issued[k].expiry \/ issued[x].nth > issued[k].nth}) >= MaxTokens
    \/ issued[k].expiry <= clock
=============================================================================
