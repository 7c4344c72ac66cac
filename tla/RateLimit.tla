------------------------------ MODULE RateLimit ------------------------------
(***************************************************************************)
(* RateLimitMiddleware of middleware.py: a sliding window of request times *)
(* per IP address, on the wall clock of the host, with a sweep of idle     *)
(* addresses.  The event loop runs one dispatch at a time.                 *)
(*                                                                         *)
(*   window[ip]   _window: how long ago each counted request was, by the   *)
(*                wall clock (negative after the clock was set back)       *)
(*   seen[ip]     _last_seen: how long ago, Absent once swept              *)
(*   count        _request_count                                           *)
(*                                                                         *)
(* History: passed[ip], how long ago each request really passed; unjust,   *)
(* that one was refused with fewer than the limit in the last Span ticks.  *)
(***************************************************************************)
EXTENDS Integers, Sequences, FiniteSets

CONSTANTS
  Address,
  Limit,         \* RATE_LIMIT_RPM
  Span,          \* _window_seconds
  StaleTTL,      \* _STALE_TTL
  CleanupEvery,  \* _CLEANUP_EVERY
  SetBack,       \* by how much the wall clock may be set back once; 0: never
  Absent

RateLimitAssumption ==
  /\ Limit \in Nat \ {0} /\ Span \in Nat \ {0} /\ CleanupEvery \in Nat \ {0}
  /\ StaleTTL \in Nat /\ StaleTTL > Span /\ SetBack \in Nat
  /\ Absent \notin Int

VARIABLES window, seen, count, passed, unjust, adjusted

vars == <<window, seen, count, passed, unjust, adjusted>>

TypeOK ==
  /\ window \in [Address -> Seq(-SetBack..(StaleTTL + 1))]
  /\ \A ip \in Address : Len(window[ip]) <= Limit
  /\ seen \in [Address -> -SetBack..(StaleTTL + 1) \cup {Absent}]
  /\ count \in 0..(CleanupEvery - 1)
  /\ unjust \in BOOLEAN /\ adjusted \in BOOLEAN

Init ==
  /\ window = [ip \in Address |-> <<>>] /\ seen = [ip \in Address |-> Absent]
  /\ count = 0 /\ passed = [ip \in Address |-> <<>>] /\ unjust = FALSE /\ adjusted = FALSE
-----------------------------------------------------------------------------
\* Mutated form: a request at the edge of the window no longer counts.
WithinShort(s) == SelectSeq(s, LAMBDA age : age < Span - 1)

\* Requests older than the window go out from the front, as far as the first
\* one that is not.
Within(s) ==
  IF \A i \in DOMAIN s : s[i] > Span THEN <<>>
  ELSE LET first == CHOOSE i \in DOMAIN s : s[i] <= Span /\ \A j \in 1..(i - 1) : s[j] > Span
       IN  SubSeq(s, first, Len(s))

Stale(ip) == seen[ip] # Absent /\ seen[ip] > StaleTTL

\* _sweep_stale_ips, at every CleanupEvery-th counted request.
Swept(ip, w) ==
  IF count + 1 < CleanupEvery THEN w
  ELSE [x \in Address |-> IF x # ip /\ Stale(x) THEN <<>> ELSE w[x]]

\* A request under /api that is not exempt.
Pass(ip) ==
  /\ Len(Within(window[ip])) < Limit
  /\ window' = Swept(ip, [window EXCEPT ![ip] = Append(Within(@), 0)])
  /\ seen' = [x \in Address |->
       IF x = ip THEN 0 ELSE IF count + 1 >= CleanupEvery /\ Stale(x) THEN Absent ELSE seen[x]]
  /\ count' = (count + 1) % CleanupEvery
  /\ passed' = [passed EXCEPT ![ip] = Append(@, 0)]
  /\ UNCHANGED <<unjust, adjusted>>

Refuse(ip) ==
  /\ Len(Within(window[ip])) >= Limit
  /\ window' = [window EXCEPT ![ip] = Within(@)]
  /\ seen' = [seen EXCEPT ![ip] = 0]
  /\ unjust' = (unjust \/ Len(passed[ip]) < Limit)
  /\ UNCHANGED <<count, passed, adjusted>>

\* The history keeps what the last Span ticks saw; ages come oldest first.
Recent(s) == SubSeq(s, Cardinality({i \in DOMAIN s : s[i] > Span}) + 1, Len(s))

Older(age) == IF age > StaleTTL THEN age ELSE age + 1

Tick ==
  /\ window' = [ip \in Address |-> [i \in DOMAIN window[ip] |-> Older(window[ip][i])]]
  /\ seen' = [ip \in Address |-> IF seen[ip] = Absent THEN Absent ELSE Older(seen[ip])]
  /\ passed' = [ip \in Address |-> Recent([i \in DOMAIN passed[ip] |-> passed[ip][i] + 1])]
  /\ UNCHANGED <<count, unjust, adjusted>>

\* The host's clock is corrected.
ClockSetBack ==
  /\ SetBack > 0 /\ ~adjusted /\ adjusted' = TRUE
  /\ window' = [ip \in Address |-> [i \in DOMAIN window[ip] |-> window[ip][i] - SetBack]]
  /\ seen' = [ip \in Address |-> IF seen[ip] = Absent THEN Absent ELSE seen[ip] - SetBack]
  /\ UNCHANGED <<count, passed, unjust>>

Next == (\E ip \in Address : Pass(ip) \/ Refuse(ip)) \/ Tick \/ ClockSetBack

Spec == Init /\ [][Next]_vars
-----------------------------------------------------------------------------
\* Within any span an address passes no more than the limit, whatever the
\* sweep forgets and however the clock is set back.
LimitHolds == \A ip \in Address : Len(passed[ip]) <= Limit

\* Whoever is refused had the limit in the last span: after waiting one out
\* ("Tente novamente em 60 segundos") the next request passes.
RefusedJustly == ~unjust
=============================================================================
