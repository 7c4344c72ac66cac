---------------------------- MODULE Oracle_proofs ----------------------------
(***************************************************************************)
(* The clients of Oracle, for every value of the constants: the mode of    *)
(* the driver, the queries of the Beneficiamento under their budget, the   *)
(* statements of the SQL tools with their threads, the sessions of the MCP *)
(* server, fetch_all behind its breaker, and MCOracle, which is one of     *)
(* them at a time.                                                         *)
(***************************************************************************)
EXTENDS MCOracle, Sequences, FiniteSetTheorems, TLAPS
-----------------------------------------------------------------------------
(* OracleDriver: one mode for the whole process. *)

\* A thread has an outcome once its connection stands, and no sooner; the mode it
\* has connected in is then the mode of the process, whatever the others do.
OutcomeIsMode ==
  \A t \in Thread :
    /\ pc[t] \notin {"open", "end"} => how[t] = "none"
    /\ pc[t] = "open" => how[t] = mode /\ mode # "none"
    /\ pc[t] = "again" => mode = "thick"

IInv == TypeOK /\ OutcomeIsMode /\ ModeIsSound

LEMMA InitIInv == Init => IInv
<1> SUFFICES ASSUME Init PROVE IInv OBVIOUS
<1> USE DEF Init
<1>1. TypeOK
  <2>1. lost \in 0..MaxLost BY DriverAssumption
  <2>2. /\ pc \in [Thread -> {"start", "preinit", "connect", "net", "open", "refused", "init", "again", "end"}]
        /\ how \in [Thread -> {"none", "thin", "thick", "legacy", "fixed", "library", "init", "network"}]
    OBVIOUS
  <2>3. \A t \in Thread : pc[t] = "end" => how[t] # "none" OBVIOUS
  <2>4. QED BY <2>1, <2>2, <2>3 DEF TypeOK
<1>2. OutcomeIsMode BY DEF OutcomeIsMode
<1>3. ModeIsSound BY DriverAssumption DEF ModeIsSound, FlagIsTrue, NoThinForLegacy
<1>4. QED BY <1>1, <1>2, <1>3 DEF IInv

\* Once decided, the mode is for good.
LEMMA ModeStays ==
  ASSUME IInv, NEW t \in Thread, Step(t)
  PROVE  mode # "none" => mode' = mode
  BY DEF IInv, TypeOK, Step, Begin, Connect, Net, Opened, Refused, Preinit, Fallback, Again, Anew, Thick,
         Released, End, Goto, IsThin

LEMMA StepType ==
  ASSUME IInv, NEW t \in Thread, Step(t), UNCHANGED env
  PROVE  TypeOK'
<1> USE DriverAssumption DEF IInv, TypeOK, End, Goto
<1>1. CASE Begin(t) BY <1>1 DEF Begin
<1>2. CASE Connect(t) BY <1>2, OutcomeIsMode DEF Connect, OutcomeIsMode
<1>3. CASE Net(t) BY <1>3 DEF Net, Released, IsThin, OutcomeIsMode
<1>4. CASE Opened(t) BY <1>4 DEF Opened, OutcomeIsMode, IsThin
<1>5. CASE Refused(t) BY <1>5 DEF Refused
<1>6. CASE Preinit(t) BY <1>6 DEF Preinit, Thick
<1>7. CASE Fallback(t) BY <1>7 DEF Fallback, Thick
<1>8. CASE Again(t) BY <1>8 DEF Again, OutcomeIsMode
<1>9. CASE Anew(t) BY <1>9 DEF Anew
<1>10. QED BY <1>1, <1>2, <1>3, <1>4, <1>5, <1>6, <1>7, <1>8, <1>9 DEF Step

LEMMA StepOutcome ==
  ASSUME IInv, NEW t \in Thread, Step(t), UNCHANGED env
  PROVE  OutcomeIsMode'
<1> USE DEF IInv, TypeOK, End, Goto, OutcomeIsMode
<1>1. CASE Begin(t) BY <1>1 DEF Begin
<1>2. CASE Connect(t) BY <1>2 DEF Connect
<1>3. CASE Net(t) BY <1>3 DEF Net, IsThin
<1>4. CASE Opened(t) BY <1>4 DEF Opened
<1>5. CASE Refused(t) BY <1>5 DEF Refused
<1>6. CASE Preinit(t) BY <1>6 DEF Preinit, Thick
<1>7. CASE Fallback(t) BY <1>7 DEF Fallback, Thick
<1>8. CASE Again(t) BY <1>8 DEF Again
<1>9. CASE Anew(t) BY <1>9 DEF Anew
<1>10. QED BY <1>1, <1>2, <1>3, <1>4, <1>5, <1>6, <1>7, <1>8, <1>9 DEF Step

\* A thread that ended in Thin Mode keeps that outcome: only a lost connection is tried anew.
LEMMA ThinIsKept ==
  ASSUME IInv, NEW t \in Thread, Step(t), NEW u \in Thread, how[u] = "thin"
  PROVE  how'[u] = "thin"
<1>1. pc[u] \in {"open", "end"} BY DEF IInv, TypeOK, OutcomeIsMode
<1>2. QED BY <1>1 DEF IInv, TypeOK, Step, Begin, Connect, Net, Opened, Refused, Preinit, Fallback, Again,
                      Anew, Thick, End, Goto

LEMMA StepMode ==
  ASSUME IInv, NEW t \in Thread, Step(t), UNCHANGED env
  PROVE  ModeIsSound'
<1>1. FlagIsTrue'
  <2>1. CASE Opened(t)
    <3>1. fixed' => mode = "thin" /\ mode' = mode /\ how[t] = "thin" /\ how'[t] = "thin"
      BY <2>1 DEF Opened, IsThin, IInv, TypeOK, OutcomeIsMode
    <3>2. QED BY <3>1 DEF FlagIsTrue
  <2>2. CASE ~Opened(t)
    <3>1. fixed' = fixed
      BY <2>2 DEF Step, Begin, Connect, Net, Refused, Preinit, Fallback, Again, Anew, Thick
    <3>2. fixed => mode = "thin" /\ \E u \in Thread : how[u] = "thin"
      BY DEF IInv, ModeIsSound, FlagIsTrue
    <3>3. QED BY <3>1, <3>2, ModeStays, ThinIsKept DEF FlagIsTrue
  <2>3. QED BY <2>1, <2>2
<1>2. NoThinForLegacy'
  <2>1. SUFFICES ASSUME NEW u \in Legacy, how'[u] = "thin", how[u] # "thin" PROVE FALSE
    BY DEF NoThinForLegacy, IInv, ModeIsSound
  <2>2. u = t /\ (Net(t) \/ Again(t))
    BY <2>1, DriverAssumption DEF IInv, TypeOK, Step, Begin, Connect, Opened, Refused, Preinit, Fallback, Again,
      Anew, Net, Thick, End, Goto
  <2>3. CASE Net(t)
    BY <2>1, <2>2, <2>3, DriverAssumption DEF Net, IsThin, IInv, TypeOK, End, Goto
  <2>4. CASE Again(t)
    BY <2>1, <2>2, <2>4, DriverAssumption DEF Again, IInv, TypeOK, OutcomeIsMode, End, Goto
  <2>5. QED BY <2>2, <2>3, <2>4
<1>3. QED BY <1>1, <1>2 DEF ModeIsSound

\* lib/python/oracle_client.py: "thin_consolidado" is set only in a process that is in
\* Thin Mode and has a thin connection, and an account that Thin Mode does not serve is
\* never connected in it, whichever threads decide the mode and whatever the network does.
THEOREM ModeSafe == Spec => []ModeIsSound
<1>1. IInv /\ [Next]_vars => IInv'
  <2> SUFFICES ASSUME IInv, [Next]_vars PROVE IInv'
    OBVIOUS
  <2>1. ASSUME NEW t \in Thread, Step(t), UNCHANGED env PROVE IInv'
    BY <2>1, StepType, StepOutcome, StepMode DEF IInv
  <2>2. CASE UNCHANGED vars
    BY <2>2 DEF vars, IInv, TypeOK, OutcomeIsMode, ModeIsSound, FlagIsTrue, NoThinForLegacy
  <2>3. QED BY <2>1, <2>2 DEF Next
<1>2. IInv => ModeIsSound BY DEF IInv
<1>3. QED BY InitIInv, <1>1, <1>2, PTL DEF Spec
-----------------------------------------------------------------------------
(* OracleQuery: the attempts, the watchdog of the one under way, the clock. *)

QueryNet == {"none", "connecting", "open", "late", "closed", "drop", "error"}
QueryRecord == [net : QueryNet, left : BOOLEAN, call : {"idle", "running", "broken", "over"},
                cancel : {"none", "going", "done"}, since : 0..QueryEnd, pending : BOOLEAN]
Served == {"query", "leave", "join", "ping", "close"}

QueryTypes ==
  /\ queryNow \in 0..QueryEnd /\ queryLink \in [1..Links -> QueryRecord]
  /\ queryCloses \in [1..Links -> Nat]
  /\ queryN \in 1..Links /\ queryBegan \in 0..QueryEnd
  /\ queryPc \in Served \cup {"connect", "answer"}
  /\ got \in {"none", "ok", "drop", "error", "timeout"}
  /\ timer \in {"off", "armed", "cancelling", "done"} /\ fired \in BOOLEAN
  /\ queryUntil \in 0..(QueryEnd + Grace) /\ ended \in 0..QueryEnd

\* The attempts before this one are over, those after it have not begun.
OthersOver ==
  \A k \in 1..Links :
    /\ k > queryN => queryLink[k] = Query!Fresh
    /\ k < queryN => queryLink[k].net \in {"closed", "drop", "error"} /\ queryLink[k].cancel # "going"

\* The connection and the watchdog of this one, wherever its caller is.
OneWatched ==
  LET own == queryLink[queryN]
  IN  /\ queryPc = "connect" =>
           own.net \in {"connecting", "open", "drop", "error"} /\ ~own.left /\ timer = "off" /\ ~fired
      /\ queryPc \in Served => own.net = "open"
      /\ queryPc \in {"connect", "query"} <=> got = "none"
      /\ queryPc = "answer" =>
           own.net \in {"closed", "drop", "error"} \/ (own.net \in {"connecting", "late"} /\ own.left)
      /\ queryPc = "query" =>
           (timer \in {"armed", "cancelling"} /\ own.call = "running") \/ (timer = "done" /\ own.call = "broken")
      /\ queryPc = "leave" => timer # "off"
      /\ queryPc = "join" => timer # "armed"
      /\ queryPc \in {"ping", "close", "answer"} => timer \in {"off", "done"}
      /\ own.cancel = "going" <=> timer = "cancelling"

\* What the clock has not passed: the budget while nothing fired, then cancel()'s time.
OnTime ==
  LET own == queryLink[queryN]
  IN  /\ timer = "armed" \/ (timer = "off" /\ queryPc # "answer") => queryNow <= Budget
      /\ timer = "cancelling" =>
           /\ own.since <= queryNow /\ own.since <= Budget /\ queryNow <= own.since + CancelTime
           /\ queryPc = "join" => own.since + Grace <= queryUntil
      /\ queryPc # "answer" => queryNow <= Budget + CancelTime
      /\ queryPc = "answer" => ended <= Budget + CancelTime
      /\ fired => queryNow >= Budget \/ got = "timeout"

QueryInv == QueryTypes /\ OthersOver /\ OneWatched /\ OnTime

LEMMA QueryConstants ==
  /\ Links \in Nat \ {0} /\ Budget \in Nat \ {0} /\ Grace \in Nat /\ CancelTime \in Nat /\ QueryEnd \in Nat
  /\ MinRetry \in Nat \ {0}
  BY PartsAssumption DEF Query!SessionAssumption, Query!QueryAssumption

\* However the budget was divided, what is left of it is what the clock says.
LEMMA BudgetLeft ==
  ASSUME QueryTypes
  PROVE  Query!Left = Budget - queryNow /\ Query!Left \in Int
<1>1. queryNow \in Int /\ queryBegan \in Int /\ Budget \in Int BY QueryConstants DEF QueryTypes
<1>2. QED BY <1>1 DEF Query!Left

LEMMA QueryInit == Query!Init => QueryInv
<1> SUFFICES ASSUME Query!Init PROVE QueryInv OBVIOUS
<1>1. /\ queryLink = [k \in 1..Links |-> IF k = 1 THEN [Query!Fresh EXCEPT !.net = "connecting"] ELSE Query!Fresh]
      /\ queryNow = 0 /\ queryCloses = [k \in 1..Links |-> 0] /\ queryN = 1 /\ queryBegan = 0
      /\ queryPc = "connect" /\ got = "none" /\ timer = "off" /\ fired = FALSE /\ queryUntil = 0 /\ ended = 0
  BY DEF Query!Init, Query!SessionInit
<1>2. 0 \in 0..QueryEnd /\ 0 \in 0..(QueryEnd + Grace) /\ 1 \in 1..Links BY QueryConstants
<1> DEFINE first == [Query!Fresh EXCEPT !.net = "connecting"]
<1>3. Query!Fresh \in QueryRecord BY <1>2 DEF Query!Fresh, QueryRecord, QueryNet
<1>4. first \in QueryRecord /\ first.net = "connecting" /\ ~first.left /\ first.cancel = "none"
  BY <1>2 DEF Query!Fresh, QueryRecord, QueryNet
<1> HIDE DEF first
<1>5. queryLink \in [1..Links -> QueryRecord] /\ queryLink[1] = first BY <1>1, <1>2, <1>3, <1>4 DEF first
<1>6. QueryTypes BY <1>1, <1>2, <1>5 DEF QueryTypes
<1>7. OthersOver BY <1>1 DEF OthersOver
<1>8. OneWatched BY <1>1, <1>4, <1>5 DEF OneWatched, Served
<1>9. OnTime BY <1>1, QueryConstants DEF OnTime
<1>10. QED BY <1>6, <1>7, <1>8, <1>9 DEF QueryInv

\* A step that concerns the connection of this attempt only.
LEMMA OwnMoves ==
  ASSUME QueryInv, NEW l \in QueryRecord, queryLink' = [queryLink EXCEPT ![queryN] = l], UNCHANGED queryN
  PROVE  /\ queryLink' \in [1..Links -> QueryRecord] /\ queryLink'[queryN'] = l /\ OthersOver'
<1>1. queryLink \in [1..Links -> QueryRecord] /\ queryN \in 1..Links BY DEF QueryInv, QueryTypes
<1>2. \A k \in 1..Links : k # queryN => queryLink'[k] = queryLink[k] BY <1>1
<1>3. QED BY <1>1, <1>2 DEF QueryInv, OthersOver

\* Where the attempt ends: it is tried again with budget left and nothing fired, or the
\* answer is there.
LEMMA Decides ==
  ASSUME QueryInv, NEW g \in {"ok", "drop", "error", "timeout"}, NEW l \in QueryRecord,
         Query!Decide(g, [queryLink EXCEPT ![queryN] = l]),
         UNCHANGED <<queryNow, queryUntil>>, queryCloses' \in [1..Links -> Nat],
         queryPc \in {"connect", "close"}, g = "drop" => ~fired \/ queryNow >= Budget,
         timer \in {"off", "done"}, l.cancel # "going", fired => queryNow >= Budget \/ g = "timeout",
         l.net \in {"closed", "drop", "error"} \/ (l.net = "connecting" /\ l.left /\ g = "timeout")
  PROVE  QueryInv' /\ (queryN' # queryN => ~fired /\ queryNow + MinRetry <= Budget)
<1>1. QueryTypes /\ OthersOver /\ OneWatched /\ OnTime BY DEF QueryInv
<1>2. /\ queryLink \in [1..Links -> QueryRecord] /\ queryN \in 1..Links /\ queryNow \in 0..QueryEnd
      /\ queryUntil \in 0..(QueryEnd + Grace) /\ queryNow <= Budget + CancelTime
  BY <1>1 DEF QueryTypes, OnTime
<1> DEFINE links == [queryLink EXCEPT ![queryN] = l]
<1>3. links \in [1..Links -> QueryRecord] /\ links[queryN] = l
      /\ \A k \in 1..Links : k # queryN => links[k] = queryLink[k]
  BY <1>2
<1>4. CASE g = "drop" /\ queryN < Links /\ Query!Left >= MinRetry
  <2>1. /\ queryN' = queryN + 1 /\ queryBegan' = queryNow /\ queryPc' = "connect" /\ got' = "none"
        /\ ended' = ended /\ timer' = "off" /\ fired' = FALSE
        /\ queryLink' = [links EXCEPT ![queryN + 1].net = "connecting"]
    BY <1>4 DEF Query!Decide
  <2>2. Budget - queryNow >= MinRetry BY <1>1, <1>4, BudgetLeft
  <2>3. queryNow + MinRetry <= Budget /\ queryNow <= Budget /\ ~(queryNow >= Budget)
    BY <1>2, <2>2, QueryConstants
  <2>4. ~fired BY <1>4, <2>3
  <2>5. queryN + 1 \in 1..Links /\ queryN + 1 > queryN BY <1>2, <1>4, QueryConstants
  <2> DEFINE next == [Query!Fresh EXCEPT !.net = "connecting"]
  <2>6. links[queryN + 1] = Query!Fresh BY <1>1, <1>3, <2>5 DEF OthersOver
  <2> HIDE DEF links
  <2>7. queryLink' = [links EXCEPT ![queryN + 1] = next] BY <2>1, <2>5, <2>6, <1>3
  <2>8. next \in QueryRecord /\ next.net = "connecting" /\ ~next.left /\ next.cancel = "none"
    <3>1. 0 \in 0..QueryEnd BY QueryConstants
    <3>2. QED BY <3>1 DEF Query!Fresh, QueryRecord, QueryNet
  <2> HIDE DEF next
  <2>9. queryLink' \in [1..Links -> QueryRecord] /\ queryLink'[queryN + 1] = next
        /\ \A k \in 1..Links : k # queryN + 1 => queryLink'[k] = links[k]
    BY <1>3, <2>5, <2>7, <2>8
  <2>10. QueryTypes' BY <1>1, <1>2, <2>1, <2>5, <2>9 DEF QueryTypes
  <2>11. OthersOver'
    <3>1. ASSUME NEW k \in 1..Links, k > queryN' PROVE queryLink'[k] = Query!Fresh
      <4>1. k # queryN + 1 /\ k # queryN /\ k > queryN BY <1>2, <2>1, <3>1
      <4>2. QED BY <1>1, <1>3, <2>9, <4>1 DEF OthersOver
    <3>2. ASSUME NEW k \in 1..Links, k < queryN'
          PROVE  queryLink'[k].net \in {"closed", "drop", "error"} /\ queryLink'[k].cancel # "going"
      <4>1. k # queryN + 1 /\ (k = queryN \/ (k # queryN /\ k < queryN)) BY <1>2, <2>1, <3>2
      <4>2. CASE k = queryN BY <1>3, <1>4, <2>9, <4>1, <4>2
      <4>3. CASE k # queryN /\ k < queryN BY <1>1, <1>3, <2>9, <4>1, <4>3 DEF OthersOver
      <4>4. QED BY <4>1, <4>2, <4>3
    <3>3. QED BY <3>1, <3>2 DEF OthersOver
  <2>12. OneWatched' BY <2>1, <2>8, <2>9 DEF OneWatched, Served
  <2>13. OnTime'
    <3>1. queryNow' <= Budget /\ queryNow' <= Budget + CancelTime BY <1>2, <2>3
    <3>2. QED BY <2>1, <3>1 DEF OnTime
  <2>14. QED BY <2>3, <2>4, <2>10, <2>11, <2>12, <2>13 DEF QueryInv
<1>5. CASE ~(g = "drop" /\ queryN < Links /\ Query!Left >= MinRetry)
  <2>1. /\ queryPc' = "answer" /\ got' = g /\ ended' = queryNow /\ queryLink' = links
        /\ UNCHANGED <<queryN, queryBegan, timer, fired>>
    BY <1>5 DEF Query!Decide
  <2>2. queryLink' \in [1..Links -> QueryRecord] /\ queryLink'[queryN'] = l /\ OthersOver'
    BY <2>1, OwnMoves
  <2> HIDE DEF links
  <2>3. QueryTypes' BY <1>1, <1>2, <2>1, <2>2 DEF QueryTypes
  <2>4. OneWatched' BY <2>1, <2>2 DEF OneWatched, Served
  <2>5. OnTime' BY <1>1, <1>2, <2>1 DEF OnTime
  <2>6. QED BY <2>1, <2>2, <2>3, <2>4, <2>5 DEF QueryInv
<1>6. QED BY <1>4, <1>5

\* connect() returns or raises, or what came too late is closed.
LEMMA ConnectorSafe ==
  ASSUME QueryInv, NEW k \in 1..Links, Query!Connecting(k)
  PROVE  QueryInv'
<1>1. QueryTypes /\ OthersOver /\ OneWatched /\ OnTime BY DEF QueryInv
<1>2. /\ UNCHANGED <<queryNow, queryN, queryBegan, queryPc, got, timer, fired, queryUntil, ended>>
      /\ queryLink[k].net \in {"connecting", "late"}
  BY DEF Query!Connecting, Query!Connector, Query!ConnectReturns, Query!ConnectRaises, Query!LateCloses
<1>3. queryLink \in [1..Links -> QueryRecord] /\ queryN \in 1..Links /\ queryCloses \in [1..Links -> Nat]
  BY <1>1 DEF QueryTypes
<1>4. k = queryN
  <2>1. Query!Fresh.net = "none" BY DEF Query!Fresh
  <2>2. ~(k > queryN) /\ ~(k < queryN) BY <1>1, <1>2, <2>1 DEF OthersOver
  <2>3. QED BY <1>3, <2>2
<1> DEFINE own == queryLink[queryN]
<1>5. own \in QueryRecord /\ queryPc \in {"connect", "answer"}
      /\ (queryPc = "answer" => own.left) /\ (queryPc = "connect" => ~own.left /\ own.net = "connecting")
      /\ own.cancel # "going"
  <2>1. own \in QueryRecord BY <1>3
  <2>2. queryPc \notin Served BY <1>1, <1>2, <1>4 DEF OneWatched
  <2>3. queryPc \in {"connect", "answer"} BY <1>1, <2>2 DEF QueryTypes
  <2>4. timer # "cancelling" BY <1>1, <2>3 DEF OneWatched
  <2>5. QED BY <1>1, <1>2, <1>4, <2>1, <2>3, <2>4 DEF OneWatched
<1>6. PICK e \in QueryNet : /\ queryLink' = [queryLink EXCEPT ![queryN].net = e]
                            /\ queryPc = "connect" => e \in {"open", "drop", "error"}
                            /\ queryPc = "answer" => e \in {"late", "closed", "drop", "error"}
  BY <1>2, <1>4, <1>5
  DEF Query!Connecting, Query!Connector, Query!ConnectReturns, Query!ConnectRaises, Query!LateCloses, QueryNet
<1> DEFINE l == [own EXCEPT !.net = e]
<1>7. l \in QueryRecord /\ l.net = e /\ l.left = own.left /\ l.cancel = own.cancel /\ l.call = own.call
      /\ l.since = own.since
  BY <1>5 DEF QueryRecord
<1>8. queryLink' = [queryLink EXCEPT ![queryN] = l] BY <1>3, <1>6
<1> HIDE DEF l
<1>9. queryLink' \in [1..Links -> QueryRecord] /\ queryLink'[queryN'] = l /\ OthersOver'
  BY <1>2, <1>7, <1>8, OwnMoves
<1>10. queryCloses' \in [1..Links -> Nat]
  BY <1>3 DEF Query!Connecting, Query!Connector, Query!ConnectReturns, Query!ConnectRaises, Query!LateCloses
<1>11. QueryTypes' BY <1>1, <1>2, <1>9, <1>10 DEF QueryTypes
<1>12. OneWatched' BY <1>1, <1>2, <1>5, <1>6, <1>7, <1>9 DEF OneWatched, Served
<1>13. OnTime' BY <1>1, <1>2, <1>5, <1>7, <1>9 DEF OnTime, OneWatched
<1>14. QED BY <1>9, <1>11, <1>12, <1>13 DEF QueryInv

\* The caller is connected, or not.
LEMMA ConnectedSafe ==
  ASSUME QueryInv, Query!Connected \/ Query!ConnectFailed \/ Query!ConnectTimesOut
  PROVE  QueryInv' /\ (queryN' # queryN => ~fired /\ queryNow + MinRetry <= Budget)
<1>1. QueryTypes /\ OthersOver /\ OneWatched /\ OnTime BY DEF QueryInv
<1>2. queryPc = "connect" /\ UNCHANGED <<queryNow, queryUntil, queryCloses>>
  BY DEF Query!Connected, Query!ConnectFailed, Query!ConnectTimesOut
<1> DEFINE own == queryLink[queryN]
<1>3. /\ queryLink \in [1..Links -> QueryRecord] /\ queryN \in 1..Links /\ own \in QueryRecord
      /\ queryCloses \in [1..Links -> Nat] /\ queryNow \in 0..QueryEnd /\ queryNow <= Budget
      /\ timer = "off" /\ ~fired /\ own.cancel # "going" /\ ~own.left /\ got = "none"
  BY <1>1, <1>2 DEF QueryTypes, OneWatched, OnTime
<1>4. CASE Query!Connected
  <2>1. own.net = "open" /\ UNCHANGED <<queryN, queryBegan, fired, ended>> BY <1>4 DEF Query!Connected
  <2>2. PICK c \in {own.call, "running"} :
          /\ queryLink' = [queryLink EXCEPT ![queryN].call = c]
          /\ \/ queryPc' = "close" /\ got' = "timeout" /\ timer' = timer
             \/ queryPc' = "query" /\ timer' = "armed" /\ c = "running" /\ got' = got
    <3>1. CASE Query!Left <= 0
      <4>1. queryPc' = "close" /\ got' = "timeout" /\ timer' = timer /\ queryLink' = queryLink
        BY <1>4, <3>1 DEF Query!Connected
      <4>2. own = [own EXCEPT !.call = own.call] BY <1>3 DEF QueryRecord
      <4>3. queryLink' = [queryLink EXCEPT ![queryN].call = own.call] BY <1>3, <4>1, <4>2
      <4>4. QED BY <4>1, <4>3
    <3>2. CASE ~(Query!Left <= 0) BY <1>4, <3>2 DEF Query!Connected
    <3>3. QED BY <3>1, <3>2
  <2> DEFINE l == [own EXCEPT !.call = c]
  <2>3. l \in QueryRecord /\ l.net = own.net /\ l.cancel = own.cancel /\ l.call = c /\ l.since = own.since
    BY <1>3 DEF QueryRecord
  <2>4. queryLink' = [queryLink EXCEPT ![queryN] = l] BY <1>3, <2>2
  <2> HIDE DEF l
  <2>5. queryLink' \in [1..Links -> QueryRecord] /\ queryLink'[queryN'] = l /\ OthersOver'
    BY <2>1, <2>3, <2>4, OwnMoves
  <2>6. queryPc' \in {"close", "query"} /\ (queryPc' = "close" => timer' = "off" /\ got' = "timeout")
        /\ (queryPc' = "query" => timer' = "armed" /\ c = "running" /\ got' = got) /\ got' \in {got, "timeout"}
    BY <1>3, <2>2
  <2>7. QueryTypes' BY <1>1, <1>2, <2>1, <2>5, <2>6 DEF QueryTypes, Served
  <2>8. OneWatched' BY <1>3, <2>1, <2>3, <2>5, <2>6 DEF OneWatched, Served
  <2>9. OnTime'
    <3>1. queryNow <= Budget + CancelTime BY <1>3, QueryConstants
    <3>2. QED BY <1>2, <1>3, <2>1, <2>5, <2>6, <3>1 DEF OnTime
  <2>10. QED BY <2>1, <2>5, <2>7, <2>8, <2>9 DEF QueryInv
<1>5. CASE Query!ConnectFailed
  <2>1. own.net \in {"drop", "error"} /\ Query!Decide(own.net, queryLink) BY <1>5 DEF Query!ConnectFailed
  <2>2. queryLink = [queryLink EXCEPT ![queryN] = own] BY <1>3
  <2>3. Query!Decide(own.net, [queryLink EXCEPT ![queryN] = own]) BY <2>1, <2>2
  <2>4. own.net \in {"ok", "drop", "error", "timeout"} BY <2>1
  <2> HIDE DEF own
  <2>5. QED BY <1>2, <1>3, <2>1, <2>3, <2>4, Decides
<1>6. CASE Query!ConnectTimesOut
  <2> DEFINE l == [own EXCEPT !.left = TRUE]
  <2>1. own.net = "connecting" /\ Query!Decide("timeout", [queryLink EXCEPT ![queryN].left = TRUE])
    BY <1>6 DEF Query!ConnectTimesOut
  <2>2. [queryLink EXCEPT ![queryN].left = TRUE] = [queryLink EXCEPT ![queryN] = l] BY <1>3
  <2>3. l \in QueryRecord /\ l.net = "connecting" /\ l.left /\ l.cancel = own.cancel
    BY <1>3, <2>1 DEF QueryRecord
  <2>4. Query!Decide("timeout", [queryLink EXCEPT ![queryN] = l]) BY <2>1, <2>2
  <2> HIDE DEF l, own
  <2>5. QED BY <1>2, <1>3, <2>3, <2>4, Decides
<1>7. QED BY <1>4, <1>5, <1>6

\* The call ends, in one of its ways.
LEMMA CallOver ==
  ASSUME QueryInv, Query!CallEnds \/ Query!CallCancelled \/ Query!CallTimesOut
  PROVE  QueryInv'
<1>1. QueryTypes /\ OthersOver /\ OneWatched /\ OnTime BY DEF QueryInv
<1>2. /\ queryPc = "query" /\ queryPc' = "leave" /\ queryLink' = [queryLink EXCEPT ![queryN].call = "over"]
      /\ UNCHANGED <<queryNow, queryCloses, queryN, queryBegan, timer, queryUntil, ended>>
  BY DEF Query!CallEnds, Query!CallCancelled, Query!CallTimesOut
<1>3. fired \in BOOLEAN /\ (fired => queryNow >= Budget) /\ Native \in BOOLEAN
  BY <1>1, <1>2, PartsAssumption DEF QueryTypes, OneWatched, OnTime, Query!QueryAssumption
<1>4. /\ got' \in {"ok", "drop", "error", "timeout"} /\ fired' \in BOOLEAN
      /\ fired' => queryNow >= Budget \/ got' = "timeout"
  <2>1. CASE Query!CallEnds
    <3>1. UNCHANGED fired /\ \E g \in {"ok", "drop", "error"} : got' = IF g # "ok" /\ fired THEN "timeout" ELSE g
      BY <2>1 DEF Query!CallEnds
    <3>2. QED BY <1>3, <3>1
  <2>2. CASE Query!CallCancelled BY <1>3, <2>2 DEF Query!CallCancelled
  <2>3. CASE Query!CallTimesOut BY <1>3, <2>3 DEF Query!CallTimesOut
  <2>4. QED BY <2>1, <2>2, <2>3
<1> DEFINE own == queryLink[queryN]
           l == [own EXCEPT !.call = "over"]
<1>5. queryLink \in [1..Links -> QueryRecord] /\ queryN \in 1..Links /\ own \in QueryRecord
  BY <1>1 DEF QueryTypes
<1>6. l \in QueryRecord /\ l.net = own.net /\ l.cancel = own.cancel /\ l.since = own.since
  BY <1>5 DEF QueryRecord
<1>7. queryLink' = [queryLink EXCEPT ![queryN] = l] BY <1>2, <1>5
<1> HIDE DEF l
<1>8. queryLink' \in [1..Links -> QueryRecord] /\ queryLink'[queryN'] = l /\ OthersOver'
  BY <1>2, <1>6, <1>7, OwnMoves
<1>9. QueryTypes' BY <1>1, <1>2, <1>4, <1>8 DEF QueryTypes, Served
<1>10. OneWatched' BY <1>1, <1>2, <1>4, <1>6, <1>8 DEF OneWatched, Served
<1>11. OnTime' BY <1>1, <1>2, <1>4, <1>6, <1>8 DEF OnTime
<1>12. QED BY <1>8, <1>9, <1>10, <1>11 DEF QueryInv

\* cancel_after ends: the timer is put off, and its thread is waited for.
LEMMA LeaveSafe ==
  ASSUME QueryInv, Query!Leave
  PROVE  QueryInv'
<1>1. QueryTypes /\ OthersOver /\ OneWatched /\ OnTime BY DEF QueryInv
<1>2. /\ queryPc = "leave" /\ queryPc' = "join" /\ queryUntil' = queryNow + Grace
      /\ timer' = (IF timer = "armed" THEN "off" ELSE timer)
      /\ UNCHANGED <<queryNow, queryLink, queryCloses, queryN, queryBegan, got, fired, ended>>
  BY DEF Query!Leave
<1>3. queryUntil' \in 0..(QueryEnd + Grace) /\ queryNow \in 0..QueryEnd
  <2>1. queryNow \in 0..QueryEnd BY <1>1 DEF QueryTypes
  <2>2. QED BY <1>2, <2>1, QueryConstants
<1>4. timer \in {"armed", "cancelling", "done"} BY <1>1, <1>2 DEF QueryTypes, OneWatched
<1>5. QueryTypes' BY <1>1, <1>2, <1>3, <1>4 DEF QueryTypes, Served
<1>6. OthersOver' BY <1>1, <1>2 DEF OthersOver
<1>7. OneWatched' BY <1>1, <1>2, <1>4 DEF OneWatched, Served
<1>8. OnTime'
  <2>1. queryLink[queryN].since \in 0..QueryEnd
    <3>1. queryLink[queryN] \in QueryRecord BY <1>1 DEF QueryTypes
    <3>2. QED BY <3>1 DEF QueryRecord
  <2>2. timer = "cancelling" => queryLink[queryN].since + Grace <= queryUntil'
    <3>1. timer = "cancelling" => queryLink[queryN].since <= queryNow BY <1>1 DEF OnTime
    <3>2. QED BY <1>2, <1>3, <2>1, <3>1, QueryConstants
  <2>3. QED BY <1>1, <1>2, <1>4, <2>2 DEF OnTime
<1>9. QED BY <1>5, <1>6, <1>7, <1>8 DEF QueryInv

\* The watchdog fires when the budget is over, and its cancel() arrives.
LEMMA FiresSafe ==
  ASSUME QueryInv, Query!Fire
  PROVE  QueryInv'
<1>1. QueryTypes /\ OthersOver /\ OneWatched /\ OnTime BY DEF QueryInv
<1>2. /\ timer = "armed" /\ Query!Left <= 0 /\ timer' = "cancelling" /\ fired' = TRUE
      /\ queryLink' = [queryLink EXCEPT ![queryN].cancel = "going", ![queryN].since = queryNow]
      /\ UNCHANGED <<queryNow, queryCloses, queryN, queryBegan, queryPc, got, queryUntil, ended>>
  BY DEF Query!Fire
<1> DEFINE own == queryLink[queryN]
           l == [own EXCEPT !.cancel = "going", !.since = queryNow]
<1>3. queryLink \in [1..Links -> QueryRecord] /\ queryN \in 1..Links /\ own \in QueryRecord
      /\ queryNow \in 0..QueryEnd
  BY <1>1 DEF QueryTypes
<1>4. l \in QueryRecord /\ l.net = own.net /\ l.cancel = "going" /\ l.since = queryNow /\ l.call = own.call
      /\ l.left = own.left
  BY <1>3 DEF QueryRecord
<1>5. queryLink' = [queryLink EXCEPT ![queryN] = l] BY <1>2, <1>3
<1>6. queryNow <= Budget /\ queryNow >= Budget /\ queryNow <= queryNow + CancelTime
  <2>1. Budget - queryNow <= 0 BY <1>1, <1>2, BudgetLeft
  <2>2. queryNow <= Budget BY <1>1, <1>2 DEF OnTime
  <2>3. QED BY <1>3, <2>1, <2>2, QueryConstants
<1>7. queryPc \in {"query", "leave"} BY <1>1, <1>2 DEF QueryTypes, OneWatched, Served
<1> HIDE DEF l
<1>8. queryLink' \in [1..Links -> QueryRecord] /\ queryLink'[queryN'] = l /\ OthersOver'
  BY <1>2, <1>4, <1>5, OwnMoves
<1>9. QueryTypes' BY <1>1, <1>2, <1>8 DEF QueryTypes
<1>10. OneWatched' BY <1>1, <1>2, <1>4, <1>7, <1>8 DEF OneWatched, Served
<1>11. OnTime' BY <1>1, <1>2, <1>3, <1>4, <1>6, <1>7, <1>8 DEF OnTime
<1>12. QED BY <1>8, <1>9, <1>10, <1>11 DEF QueryInv

LEMMA CancelArrives ==
  ASSUME QueryInv, Query!CancelReaches
  PROVE  QueryInv'
<1>1. QueryTypes /\ OthersOver /\ OneWatched /\ OnTime BY DEF QueryInv
<1> DEFINE own == queryLink[queryN]
           met == own.call = "running"
           l == [own EXCEPT !.cancel = "done", !.call = IF met THEN "broken" ELSE own.call, !.pending = ~met]
<1>2. /\ timer = "cancelling" /\ timer' = "done" /\ queryLink' = [queryLink EXCEPT ![queryN] = l]
      /\ UNCHANGED <<queryNow, queryCloses, queryN, queryBegan, queryPc, got, fired, queryUntil, ended>>
  BY DEF Query!CancelReaches, Query!Reached
<1>3. queryLink \in [1..Links -> QueryRecord] /\ queryN \in 1..Links /\ own \in QueryRecord
  BY <1>1 DEF QueryTypes
<1>4. l \in QueryRecord /\ l.net = own.net /\ l.cancel = "done" /\ (met => l.call = "broken") /\ l.left = own.left
  <2>1. (IF met THEN "broken" ELSE own.call) \in {"idle", "running", "broken", "over"} BY <1>3 DEF QueryRecord
  <2>2. QED BY <1>3, <2>1 DEF QueryRecord
<1>5. queryPc \in {"query", "leave", "join"} /\ (queryPc = "query" => met)
  BY <1>1, <1>2 DEF QueryTypes, OneWatched, Served
<1> HIDE DEF l, met
<1>6. queryLink' \in [1..Links -> QueryRecord] /\ queryLink'[queryN'] = l /\ OthersOver'
  BY <1>2, <1>4, OwnMoves
<1>7. QueryTypes' BY <1>1, <1>2, <1>6 DEF QueryTypes
<1>8. OneWatched' BY <1>1, <1>2, <1>4, <1>5, <1>6 DEF OneWatched, Served
<1>9. OnTime' BY <1>1, <1>2, <1>5, <1>6 DEF OnTime
<1>10. QED BY <1>6, <1>7, <1>8, <1>9 DEF QueryInv

\* The join ends: within its grace the thread of the timer has ended too.
LEMMA JoinedSafe ==
  ASSUME QueryInv, CancelTime < Grace, Query!Joined
  PROVE  QueryInv'
<1>1. QueryTypes /\ OthersOver /\ OneWatched /\ OnTime BY DEF QueryInv
<1>2. /\ queryPc = "join" /\ (timer \in {"off", "done"} \/ queryNow >= queryUntil)
      /\ queryPc' = (IF got = "ok" /\ fired THEN "ping" ELSE "close")
      /\ UNCHANGED <<queryNow, queryLink, queryCloses, queryN, queryBegan, got, timer, fired, queryUntil, ended>>
  BY DEF Query!Joined
<1>3. timer \in {"off", "done"}
  <2>1. SUFFICES ASSUME timer = "cancelling" PROVE FALSE
    BY <1>1, <1>2 DEF QueryTypes, OneWatched
  <2>2. queryLink[queryN] \in QueryRecord /\ queryNow \in Nat /\ queryUntil \in Nat
    BY <1>1 DEF QueryTypes
  <2>3. queryLink[queryN].since \in Nat BY <2>2 DEF QueryRecord
  <2>4. /\ queryNow <= queryLink[queryN].since + CancelTime
        /\ queryLink[queryN].since + Grace <= queryUntil /\ queryNow >= queryUntil
    BY <1>1, <1>2, <2>1 DEF OnTime
  <2>5. QED BY <2>2, <2>3, <2>4, QueryConstants
<1>4. queryPc' \in {"ping", "close"} BY <1>2
<1>5. QueryTypes' BY <1>1, <1>2, <1>4 DEF QueryTypes, Served
<1>6. OthersOver' BY <1>1, <1>2 DEF OthersOver
<1>7. OneWatched' BY <1>1, <1>2, <1>3, <1>4 DEF OneWatched, Served
<1>8. OnTime' BY <1>1, <1>2, <1>3, <1>4 DEF OnTime
<1>9. QED BY <1>5, <1>6, <1>7, <1>8 DEF QueryInv

\* The ping, and the end of the connection's own block.
LEMMA CloseSafe ==
  ASSUME QueryInv, Query!Ping \/ Query!CloseIt
  PROVE  QueryInv' /\ (queryN' # queryN => ~fired /\ queryNow + MinRetry <= Budget)
<1>1. QueryTypes /\ OthersOver /\ OneWatched /\ OnTime BY DEF QueryInv
<1> DEFINE own == queryLink[queryN]
<1>2. /\ queryLink \in [1..Links -> QueryRecord] /\ queryN \in 1..Links /\ own \in QueryRecord
      /\ queryCloses \in [1..Links -> Nat]
  BY <1>1 DEF QueryTypes
<1>3. CASE Query!Ping
  <2> DEFINE l == [own EXCEPT !.pending = FALSE]
  <2>1. /\ queryPc = "ping" /\ queryPc' = "close" /\ queryLink' = [queryLink EXCEPT ![queryN].pending = FALSE]
        /\ UNCHANGED <<queryNow, queryCloses, queryN, queryBegan, got, timer, fired, queryUntil, ended>>
    BY <1>3 DEF Query!Ping
  <2>2. l \in QueryRecord /\ l.net = own.net /\ l.cancel = own.cancel /\ l.since = own.since
    BY <1>2 DEF QueryRecord
  <2>3. queryLink' = [queryLink EXCEPT ![queryN] = l] BY <1>2, <2>1
  <2> HIDE DEF l
  <2>4. queryLink' \in [1..Links -> QueryRecord] /\ queryLink'[queryN'] = l /\ OthersOver'
    BY <2>1, <2>2, <2>3, OwnMoves
  <2>5. QueryTypes' BY <1>1, <2>1, <2>4 DEF QueryTypes, Served
  <2>6. OneWatched' BY <1>1, <2>1, <2>2, <2>4 DEF OneWatched, Served
  <2>7. OnTime' BY <1>1, <2>1, <2>2, <2>4 DEF OnTime, OneWatched
  <2>8. QED BY <2>1, <2>4, <2>5, <2>6, <2>7 DEF QueryInv
<1>4. CASE Query!CloseIt
  <2> DEFINE l == [own EXCEPT !.net = "closed"]
  <2>1. /\ queryPc = "close" /\ UNCHANGED <<queryNow, queryUntil>>
        /\ Query!Decide(got, [queryLink EXCEPT ![queryN] = l])
        /\ queryCloses' = [queryCloses EXCEPT ![queryN] = @ + 1]
    BY <1>4 DEF Query!CloseIt, Query!Close
  <2>2. l \in QueryRecord /\ l.net = "closed" /\ l.cancel = own.cancel BY <1>2 DEF QueryRecord, QueryNet
  <2>3. timer \in {"off", "done"} /\ own.cancel # "going" BY <1>1, <2>1 DEF OneWatched
  <2>4. queryCloses' \in [1..Links -> Nat] BY <1>2, <2>1
  <2>5. (fired => queryNow >= Budget \/ got = "timeout") BY <1>1 DEF OnTime
  <2>6. got \in {"ok", "drop", "error", "timeout"} BY <1>1, <2>1 DEF QueryTypes, OneWatched
  <2>7. got = "drop" => ~fired \/ queryNow >= Budget BY <2>5
  <2> HIDE DEF l
  <2>8. QED BY <2>1, <2>2, <2>3, <2>4, <2>5, <2>6, <2>7, Decides
<1>5. QED BY <1>3, <1>4

\* The clock does not pass by what is due.
LEMMA QueryTicks ==
  ASSUME QueryInv, Query!Tick
  PROVE  QueryInv'
<1>1. QueryTypes /\ OthersOver /\ OneWatched /\ OnTime BY DEF QueryInv
<1>2. /\ queryNow < QueryEnd /\ ~Query!Due /\ queryNow' = queryNow + 1
      /\ UNCHANGED <<queryLink, queryCloses, queryN, queryBegan, queryPc, got, timer, fired, queryUntil, ended>>
  BY DEF Query!Tick
<1>3. /\ queryNow \in 0..QueryEnd /\ queryNow \in Nat /\ queryNow' \in 0..QueryEnd /\ queryN \in 1..Links
      /\ Query!Left = Budget - queryNow
  BY <1>1, <1>2, QueryConstants, BudgetLeft DEF QueryTypes
<1> DEFINE own == queryLink[queryN]
<1>4. own.since \in Nat
  <2>1. own \in QueryRecord BY <1>1 DEF QueryTypes
  <2>2. QED BY <2>1 DEF QueryRecord
<1>5. /\ queryPc = "connect" => ~(Query!Left <= 0)
      /\ queryPc \notin {"leave", "ping", "close"}
      /\ queryPc = "join" => timer \notin {"off", "done"}
      /\ timer = "armed" => ~(Query!Left <= 0)
      /\ own.cancel = "going" => ~(queryNow >= own.since + CancelTime)
      /\ own.call # "broken"
  BY <1>2, <1>3 DEF Query!Due, Query!Held
<1>6. timer = "armed" \/ queryPc = "connect" => queryNow + 1 <= Budget BY <1>3, <1>5, QueryConstants
<1>7. timer = "cancelling" => queryNow + 1 <= own.since + CancelTime
  <2>1. timer = "cancelling" => own.cancel = "going" BY <1>1 DEF OneWatched
  <2>2. QED BY <1>3, <1>4, <1>5, <2>1, QueryConstants
<1>8. timer = "off" /\ queryPc # "answer" => queryPc = "connect"
  BY <1>1, <1>5 DEF QueryTypes, OneWatched, Served
<1>9. queryPc # "answer" => timer # "done"
  BY <1>1, <1>5 DEF QueryTypes, OneWatched, Served
<1>10. queryPc # "answer" => queryNow + 1 <= Budget + CancelTime
  <2>1. CASE timer = "armed" \/ queryPc = "connect" BY <1>3, <1>6, <2>1, QueryConstants
  <2>2. CASE timer = "cancelling"
    <3>1. own.since <= Budget BY <1>1, <2>2 DEF OnTime
    <3>2. QED BY <1>3, <1>4, <1>7, <2>2, <3>1, QueryConstants
  <2>3. QED BY <1>1, <1>8, <1>9, <2>1, <2>2 DEF QueryTypes
<1>11. QueryTypes' BY <1>1, <1>2, <1>3 DEF QueryTypes
<1>12. OthersOver' /\ OneWatched' BY <1>1, <1>2 DEF OthersOver, OneWatched
<1>13. OnTime'
  <2>1. timer' = "armed" \/ (timer' = "off" /\ queryPc' # "answer") => queryNow' <= Budget
    BY <1>2, <1>6, <1>8
  <2>2. timer' = "cancelling" =>
          /\ queryLink'[queryN'].since <= queryNow' /\ queryLink'[queryN'].since <= Budget
          /\ queryNow' <= queryLink'[queryN'].since + CancelTime
          /\ queryPc' = "join" => queryLink'[queryN'].since + Grace <= queryUntil'
    <3>1. timer = "cancelling" => own.since <= queryNow /\ own.since <= Budget
                                  /\ (queryPc = "join" => own.since + Grace <= queryUntil)
      BY <1>1 DEF OnTime
    <3>2. own.since <= queryNow => own.since <= queryNow + 1 BY <1>3, <1>4
    <3>3. QED BY <1>2, <1>7, <3>1, <3>2
  <2>3. fired' => queryNow' >= Budget \/ got' = "timeout"
    <3>1. queryNow >= Budget => queryNow + 1 >= Budget BY <1>3, QueryConstants
    <3>2. QED BY <1>1, <1>2, <3>1 DEF OnTime
  <2>4. queryPc' = "answer" => ended' <= Budget + CancelTime BY <1>1, <1>2 DEF OnTime
  <2>5. queryPc' # "answer" => queryNow' <= Budget + CancelTime BY <1>2, <1>10
  <2>6. QED BY <2>1, <2>2, <2>3, <2>4, <2>5 DEF OnTime
<1>14. QED BY <1>11, <1>12, <1>13 DEF QueryInv

LEMMA QueryStep ==
  ASSUME QueryInv, CancelTime < Grace, [Query!Next]_(Query!vars)
  PROVE  QueryInv' /\ (queryN' # queryN => ~fired /\ queryNow + MinRetry <= Budget)
<1>1. CASE Query!Connected \/ Query!ConnectFailed \/ Query!ConnectTimesOut BY <1>1, ConnectedSafe
<1>2. CASE Query!Ping \/ Query!CloseIt BY <1>2, CloseSafe
<1>3. CASE Query!CallEnds \/ Query!CallCancelled \/ Query!CallTimesOut
  BY <1>3, CallOver DEF Query!CallEnds, Query!CallCancelled, Query!CallTimesOut
<1>4. CASE Query!Leave BY <1>4, LeaveSafe DEF Query!Leave
<1>5. CASE Query!Fire BY <1>5, FiresSafe DEF Query!Fire
<1>6. CASE Query!CancelReaches BY <1>6, CancelArrives DEF Query!CancelReaches
<1>7. CASE Query!Joined BY <1>7, JoinedSafe DEF Query!Joined
<1>8. CASE \E k \in 1..Links : Query!Connecting(k) BY <1>8, ConnectorSafe DEF Query!Connecting
<1>9. CASE Query!Tick BY <1>9, QueryTicks DEF Query!Tick
<1>10. CASE UNCHANGED Query!vars
  <2>1. UNCHANGED <<queryNow, queryLink, queryCloses, queryN, queryBegan, queryPc, got, timer, fired,
                    queryUntil, ended>>
    BY <1>10 DEF Query!vars
  <2>2. QED BY <2>1 DEF QueryInv, QueryTypes, OthersOver, OneWatched, OnTime
<1>11. QED BY <1>1, <1>2, <1>3, <1>4, <1>5, <1>6, <1>7, <1>8, <1>9, <1>10 DEF Query!Next, Query!Caller

\* One budget for all attempts, no connection left to nobody, none closed while cancel()
\* is at work on it, and what the watchdog ended not tried again (execute_query).
THEOREM QueryIsBounded ==
  ASSUME CancelTime < Grace
  PROVE  /\ Query!Spec => [](Query!TypeOK /\ Query!NothingLeft /\ Query!CancelAlone /\ Query!WithinBudget)
         /\ Query!Spec => Query!NoRetryAfterDeadline
<1>1. ASSUME QueryInv
      PROVE  Query!TypeOK /\ Query!NothingLeft /\ Query!CancelAlone /\ Query!WithinBudget
  <2>1. QueryTypes /\ OthersOver /\ OneWatched /\ OnTime BY <1>1 DEF QueryInv
  <2>2. ASSUME NEW k \in 1..Links
        PROVE  /\ queryLink[k] \in QueryRecord /\ queryCloses[k] \in Nat
               /\ queryPc = "answer" =>
                    queryLink[k].net # "open" /\ (queryLink[k].net = "connecting" => queryLink[k].left)
               /\ queryLink[k].cancel = "going" => queryLink[k].net # "closed"
    <3>1. queryLink[k] \in QueryRecord /\ queryCloses[k] \in Nat /\ queryN \in 1..Links BY <2>1 DEF QueryTypes
    <3>2. CASE k > queryN BY <2>1, <3>1, <3>2 DEF OthersOver, Query!Fresh
    <3>3. CASE k < queryN BY <2>1, <3>1, <3>3 DEF OthersOver
    <3>4. CASE k = queryN
      <4>1. queryPc = "connect" \/ queryPc \in Served \/ (queryPc = "answer" /\ timer # "cancelling")
        BY <2>1 DEF QueryTypes, OneWatched
      <4>2. QED BY <2>1, <3>1, <3>4, <4>1 DEF OneWatched
    <3>5. QED BY <3>1, <3>2, <3>3, <3>4
  <2>3. Query!NothingLeft BY <2>2 DEF Query!NothingLeft
  <2>4. Query!CancelAlone BY <2>2 DEF Query!CancelAlone
  <2>5. Query!WithinBudget
    <3>1. ended \in Nat BY <2>1 DEF QueryTypes
    <3>2. Budget + CancelTime <= Budget + Grace BY QueryConstants
    <3>3. QED BY <2>1, <3>1, <3>2, QueryConstants DEF OnTime, Query!WithinBudget
  <2>6. Query!SessionTypeOK
    <3>1. queryNow \in 0..QueryEnd BY <2>1 DEF QueryTypes
    <3>2. QED BY <2>2, <3>1 DEF Query!SessionTypeOK, QueryRecord, QueryNet
  <2>7. Query!TypeOK BY <2>1, <2>6 DEF QueryTypes, Query!TypeOK, Served
  <2>8. QED BY <2>3, <2>4, <2>5, <2>7
<1>2. QueryInv /\ [Query!Next]_(Query!vars) =>
        QueryInv' /\ (queryN' # queryN => ~fired /\ queryNow + MinRetry <= Budget)
  BY QueryStep
<1>3. QueryInv /\ [Query!Next]_(Query!vars) =>
        [queryN' # queryN => ~fired /\ queryNow + MinRetry <= Budget]_(Query!vars)
  BY <1>2
<1>4. Query!Spec => []QueryInv BY <1>2, QueryInit, PTL DEF Query!Spec
<1>5. Query!Spec => [](Query!TypeOK /\ Query!NothingLeft /\ Query!CancelAlone /\ Query!WithinBudget)
  BY <1>1, <1>4, PTL
<1>6. Query!Spec => Query!NoRetryAfterDeadline BY <1>3, <1>4, PTL DEF Query!Spec, Query!NoRetryAfterDeadline
<1>7. QED BY <1>5, <1>6
-----------------------------------------------------------------------------
(* SqlStage: the threads of the calls, who closes what, and the worst case. *)

StageLinks == 1..(Attempts * Runs)
StageNet == {"none", "connecting", "open", "late", "closed", "drop", "error"}
StageRecord == [net : StageNet, left : BOOLEAN, call : {"idle", "running", "broken", "over"},
                cancel : {"none", "going", "done"}, since : 0..StageEnd, pending : BOOLEAN]

StageTypes ==
  /\ stageNow \in 0..StageEnd /\ stageLink \in [StageLinks -> StageRecord]
  /\ stageCloses \in [StageLinks -> {0, 1}]
  /\ stageN \in StageLinks /\ tries \in 1..Attempts /\ runs \in 1..Runs /\ stageBegan \in 0..StageEnd
  /\ stagePc \in {"connect", "wait", "cancel", "grace", "judge", "close", "sleep", "done"}
  /\ thread \in [StageLinks -> {"none", "at work", "finishing", "done"}]
  /\ saw \in [StageLinks -> {"none", "ok", "drop", "error"}] /\ gone \in [StageLinks -> BOOLEAN]
  /\ status \in {"none", "ok", "drop", "error", "timeout", "interrupted"}
  /\ stageUntil \in Nat /\ spent \in 0..StageEnd

\* A connection, the thread of its call and whose it is to close, at any time.
Tidy(l, c, t, g) ==
  /\ c = 1 <=> l.net = "closed"
  /\ t = "at work" <=> l.call \in {"running", "broken"}
  /\ t # "none" => l.net \in {"open", "closed"}
  /\ t \in {"at work", "finishing"} => l.net = "open"
  /\ l.net = "late" => l.left
  /\ g => t # "none" /\ (t = "done" => l.net = "closed")

\* An attempt that is over leaves a connection open to a thread that will close it only.
Behind(l, t, g) ==
  /\ \/ l.net \in {"drop", "error", "closed", "late"}
     \/ l.net = "connecting" /\ l.left
     \/ l.net = "open" /\ g /\ t \in {"at work", "finishing"}
  /\ l.cancel # "going"
Past(k) == k < stageN \/ (k = stageN /\ stagePc \in {"sleep", "done"})

\* The attempt under way.
UnderWay ==
  LET l == stageLink[stageN]
  IN  /\ stagePc = "connect" =>
           /\ l.net \in {"connecting", "open", "drop", "error"} /\ ~l.left
           /\ thread[stageN] = "none" /\ ~gone[stageN]
      /\ stagePc \in {"wait", "cancel", "grace", "judge"} =>
           l.net = "open" /\ thread[stageN] # "none" /\ ~gone[stageN]
      /\ stagePc = "close" =>
           IF gone[stageN] THEN l.net \in {"open", "closed"} ELSE l.net = "open" /\ thread[stageN] = "done"
      /\ l.cancel = "going" <=> stagePc = "cancel"

AllTidy == \A k \in StageLinks : Tidy(stageLink[k], stageCloses[k], thread[k], gone[k])
NotYet == \A k \in StageLinks : k > stageN => stageLink[k] = Stage!Fresh /\ thread[k] = "none" /\ ~gone[k]
PastBehind == \A k \in StageLinks : Past(k) => Behind(stageLink[k], thread[k], gone[k])
Settled == AllTidy /\ NotYet /\ PastBehind /\ UnderWay

\* The waits before an attempt, and what a run of attempts may take.
Pause(t) == (Backoff * t * (t - 1)) \div 2
\* What the cancel() of one attempt takes the others spare in grace.
Spared == StageCancel <= (Attempts - 1) * StageGrace
RunTime == Attempts * (Timeout + StageGrace) + Pause(Attempts)

\* The attempts are counted, and the clock passes by no deadline, cancel() or grace.
Counted ==
  /\ stageN <= (runs - 1) * Attempts + tries
  /\ stageBegan <= (runs - 1) * RunTime + (tries - 1) * Timeout + Pause(tries)
  /\ stagePc = "connect" => stageNow <= stageBegan + Timeout
  /\ stagePc = "wait" => stageUntil = stageBegan + Timeout /\ stageNow <= stageUntil
  /\ stagePc = "cancel" =>
       /\ stageLink[stageN].since <= stageBegan + Timeout
       /\ stageNow <= stageLink[stageN].since + StageCancel
  /\ stagePc = "grace" =>
       stageUntil <= stageBegan + Timeout + StageCancel + StageGrace /\ stageNow <= stageUntil
  /\ stagePc \in {"judge", "close"} => stageNow <= stageBegan + Timeout + StageCancel + StageGrace
  /\ stagePc \in {"cancel", "grace", "judge"} => status = "timeout"
  /\ stagePc = "close" /\ status = "drop" => stageNow <= stageBegan + Timeout
  /\ stagePc = "sleep" =>
       tries < Attempts /\ stageNow <= stageUntil /\ stageUntil <= stageBegan + Timeout + Backoff * tries
  /\ stagePc = "done" => spent <= Runs * RunTime

StageInv == StageTypes /\ Settled /\ Counted

LEMMA StageConstants ==
  /\ {Attempts, Runs, Timeout} \subseteq Nat \ {0} /\ {Backoff, StageGrace, StageCancel, StageEnd} \subseteq Nat
  BY PartsAssumption DEF Stage!SessionAssumption, Stage!StageAssumption

\* What multiplies and what adds up.
LEMMA Times ==
  ASSUME NEW a \in Nat, NEW b \in Nat, NEW c \in Nat, a <= b
  PROVE  a * c <= b * c /\ a * c \in Nat
  OBVIOUS

\* The waits grow with the attempts.
LEMMA PauseGrows ==
  ASSUME NEW t \in Nat \ {0}
  PROVE  Pause(t) \in Nat /\ Pause(t + 1) = Pause(t) + Backoff * t
<1>1. Backoff \in Nat /\ t - 1 \in Nat /\ t \in Nat BY StageConstants
<1> DEFINE x == Backoff * t
           y == x * (t - 1)
<1>2. x \in Nat BY <1>1, Times
<1>3. y \in Nat BY <1>1, <1>2, Times
<1>4. Backoff * (t + 1) * t = y + x * 2 BY <1>1
<1>5. (y + x * 2) \div 2 = y \div 2 + x /\ y \div 2 \in Nat
  <2> HIDE DEF y, x
  <2>1. QED BY <1>2, <1>3
<1>6. (t + 1) - 1 = t BY <1>1
<1>7. QED BY <1>4, <1>5, <1>6, <1>2 DEF Pause

LEMMA PauseLasts ==
  ASSUME NEW t \in Nat \ {0}, t <= Attempts
  PROVE  Pause(t) <= Pause(Attempts)
<1>1. Backoff \in Nat /\ t - 1 \in Nat /\ t \in Nat /\ Attempts \in Nat /\ Attempts - 1 \in Nat BY StageConstants
<1>2. t * Backoff <= Attempts * Backoff /\ t * Backoff \in Nat /\ Attempts * Backoff \in Nat BY <1>1, Times
<1> DEFINE x == Backoff * t
           z == Backoff * Attempts
<1>3. x <= z /\ x \in Nat /\ z \in Nat BY <1>1, <1>2
<1> HIDE DEF x, z
<1>4. x * (t - 1) <= z * (t - 1) /\ x * (t - 1) \in Nat BY <1>1, <1>3, Times
<1>5. (t - 1) * z <= (Attempts - 1) * z BY <1>1, <1>3, Times
<1>6. z * (t - 1) = (t - 1) * z /\ z * (Attempts - 1) = (Attempts - 1) * z /\ (t - 1) * z \in Int /\ (Attempts - 1) * z \in Int BY <1>1, <1>3
<1>7. x * (t - 1) <= z * (Attempts - 1) /\ z * (Attempts - 1) \in Nat BY <1>1, <1>3, <1>4, <1>5, <1>6
<1> DEFINE p == x * (t - 1)
           q == z * (Attempts - 1)
<1>8. p <= q /\ p \in Nat /\ q \in Nat BY <1>4, <1>7
<1> HIDE DEF p, q
<1>9. p \div 2 <= q \div 2 BY <1>8
<1>10. QED BY <1>9 DEF p, q, x, z, Pause

\* A run takes its attempts: what the last of them takes more they do not all take.
LEMMA RunFits ==
  ASSUME NEW t \in 1..Attempts, Spared
  PROVE  /\ RunTime \in Nat /\ Pause(t) \in Nat /\ (t - 1) * Timeout \in Nat
         /\ (t - 1) * Timeout + Pause(t) + Timeout + StageCancel + StageGrace <= RunTime
         /\ t < Attempts => (t - 1) * Timeout + Pause(t) + Timeout + Backoff * t = t * Timeout + Pause(t + 1)
<1>1. /\ t \in Nat \ {0} /\ t - 1 \in Nat /\ Attempts \in Nat \ {0} /\ Timeout \in Nat /\ StageGrace \in Nat
      /\ StageCancel \in Nat /\ Backoff \in Nat /\ Attempts - 1 \in Nat /\ t <= Attempts
  BY StageConstants
<1>2. Pause(t) \in Nat /\ Pause(Attempts) \in Nat /\ Pause(t) <= Pause(Attempts)
      /\ Pause(t + 1) = Pause(t) + Backoff * t
  BY <1>1, PauseGrows, PauseLasts
<1> DEFINE at == Attempts * Timeout
           ag == Attempts * StageGrace
           tt == t * Timeout
           st == (t - 1) * Timeout
           sg == (Attempts - 1) * StageGrace
           bt == Backoff * t
<1>3. /\ at \in Nat /\ ag \in Nat /\ tt \in Nat /\ st \in Nat /\ sg \in Nat /\ bt \in Nat
      /\ tt <= at
  BY <1>1, Times
<1>4. st + Timeout = tt BY <1>1
<1>5. sg + StageGrace = ag BY <1>1
<1>6. RunTime = at + ag + Pause(Attempts) BY <1>1, <1>2 DEF RunTime
<1>7. StageCancel <= sg BY DEF Spared
<1>8. Pause(t + 1) = Pause(t) + bt BY <1>2
<1>9. SUFFICES /\ RunTime \in Nat /\ Pause(t) \in Nat /\ st \in Nat
               /\ st + Pause(t) + Timeout + StageCancel + StageGrace <= RunTime
               /\ st + Pause(t) + Timeout + bt = tt + Pause(t + 1)
  OBVIOUS
<1> DEFINE p == Pause(t)
           pa == Pause(Attempts)
           pn == Pause(t + 1)
<1>10. p \in Nat /\ pa \in Nat /\ p <= pa /\ pn = p + bt /\ RunTime = at + ag + pa BY <1>2, <1>6, <1>8
<1> HIDE DEF at, ag, tt, st, sg, bt, p, pa, pn
<1>11. RunTime \in Nat BY <1>3, <1>10
<1>12. st + p + Timeout + StageCancel + StageGrace <= RunTime BY <1>1, <1>3, <1>4, <1>5, <1>7, <1>10
<1>13. st + p + Timeout + bt = tt + pn BY <1>1, <1>3, <1>4, <1>10
<1>14. QED BY <1>3, <1>10, <1>11, <1>12, <1>13 DEF p, pn

LEMMA StageInit == Stage!Init => StageInv
<1> SUFFICES ASSUME Stage!Init PROVE StageInv OBVIOUS
<1>1. /\ stageLink = [k \in StageLinks |-> IF k = 1 THEN [Stage!Fresh EXCEPT !.net = "connecting"] ELSE Stage!Fresh]
      /\ stageNow = 0 /\ stageCloses = [k \in StageLinks |-> 0] /\ stageN = 1 /\ tries = 1 /\ runs = 1
      /\ stageBegan = 0 /\ stagePc = "connect" /\ thread = [k \in StageLinks |-> "none"]
      /\ saw = [k \in StageLinks |-> "none"] /\ gone = [k \in StageLinks |-> FALSE]
      /\ status = "none" /\ stageUntil = 0 /\ spent = 0
  BY DEF Stage!Init, Stage!SessionInit, StageLinks
<1>2. 0 \in 0..StageEnd /\ 1 \in 1..Attempts /\ 1 \in 1..Runs /\ 1 \in StageLinks
  <2>1. 1 * Runs <= Attempts * Runs /\ Runs \in Nat \ {0} /\ Attempts \in Nat \ {0} /\ Attempts * Runs \in Nat
    BY StageConstants, Times
  <2>2. Attempts * Runs >= 1 BY <2>1
  <2>3. QED BY <2>1, <2>2, StageConstants DEF StageLinks
<1> DEFINE first == [Stage!Fresh EXCEPT !.net = "connecting"]
<1>3. Stage!Fresh \in StageRecord /\ Stage!Fresh.net = "none" /\ Stage!Fresh.call = "idle" /\ ~Stage!Fresh.left
  BY <1>2 DEF Stage!Fresh, StageRecord, StageNet
<1>4. first \in StageRecord /\ first.net = "connecting" /\ ~first.left /\ first.cancel = "none" /\ first.call = "idle"
  BY <1>2 DEF Stage!Fresh, StageRecord, StageNet
<1> HIDE DEF first
<1>5. stageLink \in [StageLinks -> StageRecord] /\ stageLink[1] = first
      /\ \A k \in StageLinks : k # 1 => stageLink[k] = Stage!Fresh
  BY <1>1, <1>2, <1>3, <1>4 DEF first
<1>6. StageTypes BY <1>1, <1>2, <1>5 DEF StageTypes
<1>7. \A k \in StageLinks : k \in Int /\ k >= 1 BY DEF StageLinks
<1>8. AllTidy
  <2>1. ASSUME NEW k \in StageLinks PROVE Tidy(stageLink[k], stageCloses[k], thread[k], gone[k])
    BY <1>1, <1>3, <1>4, <1>5 DEF Tidy
  <2>2. QED BY <2>1 DEF AllTidy
<1>9. NotYet BY <1>1, <1>5, <1>7 DEF NotYet
<1>10. PastBehind BY <1>1, <1>7 DEF PastBehind, Past
<1>11. UnderWay BY <1>1, <1>2, <1>4, <1>5 DEF UnderWay
<1>12. Counted
  <2>1. (1 - 1) * Attempts + 1 = 1 /\ (1 - 1) * Timeout = 0 /\ Timeout \in Nat BY StageConstants
  <2>2. (1 - 1) * RunTime = 0 /\ Pause(1) \in Nat
    <3>1. Pause(1) \in Nat BY PauseGrows
    <3>2. Pause(Attempts) \in Nat BY PauseGrows, StageConstants
    <3>3. Attempts * (Timeout + StageGrace) \in Nat BY StageConstants, Times
    <3>4. RunTime \in Nat BY <3>2, <3>3 DEF RunTime
    <3>5. QED BY <3>1, <3>4
  <2>3. stageN <= (runs - 1) * Attempts + tries BY <1>1, <2>1
  <2>4. stageBegan <= (runs - 1) * RunTime + (tries - 1) * Timeout + Pause(tries) BY <1>1, <2>1, <2>2
  <2>5. stageNow <= stageBegan + Timeout BY <1>1, <2>1
  <2>6. QED BY <1>1, <2>3, <2>4, <2>5 DEF Counted
<1>13. QED BY <1>6, <1>8, <1>9, <1>10, <1>11, <1>12 DEF StageInv, Settled

LEMMA StageOrder == \A k \in StageLinks : k \in Nat /\ k <= k
  BY DEF StageLinks

\* Another attempt has its connection, and its time.
LEMMA InTurn ==
  ASSUME StageTypes, Counted
  PROVE  /\ tries < Attempts =>
              stageN + 1 \in StageLinks /\ stageN + 1 <= (runs - 1) * Attempts + (tries + 1)
         /\ runs < Runs => stageN + 1 \in StageLinks /\ stageN + 1 <= ((runs + 1) - 1) * Attempts + 1
<1>1. /\ stageN \in Nat /\ stageN >= 1 /\ tries \in 1..Attempts /\ runs \in 1..Runs /\ Attempts \in Nat \ {0}
      /\ Runs \in Nat \ {0}
  <2>1. stageN \in StageLinks /\ tries \in 1..Attempts /\ runs \in 1..Runs BY DEF StageTypes
  <2>2. stageN \in Nat /\ stageN >= 1 BY <2>1 DEF StageLinks
  <2>3. QED BY <2>1, <2>2, StageConstants
<1> DEFINE before == (runs - 1) * Attempts
           with == runs * Attempts
           next == (runs + 1) * Attempts
           all == Attempts * Runs
<1>2. stageN <= before + tries BY DEF Counted
<1>3. before \in Nat /\ with \in Nat /\ next \in Nat /\ all \in Nat BY <1>1, Times
<1>4. with = before + Attempts /\ next = with + Attempts BY <1>1
<1>5. with <= all
  <2>1. runs * Attempts <= Runs * Attempts BY <1>1, Times
  <2>2. QED BY <1>1, <2>1
<1>6. runs < Runs => next <= all
  <2>1. runs < Runs => (runs + 1) * Attempts <= Runs * Attempts BY <1>1, Times
  <2>2. QED BY <1>1, <2>1
<1>7. (runs + 1) - 1 = runs BY <1>1
<1> HIDE DEF before, with, next, all
<1>8. tries < Attempts => stageN + 1 <= all /\ stageN + 1 <= before + (tries + 1)
  BY <1>1, <1>2, <1>3, <1>4, <1>5
<1>9. runs < Runs => stageN + 1 <= all /\ stageN + 1 <= with + 1 BY <1>1, <1>2, <1>3, <1>4, <1>6
<1>10. stageN + 1 \in Nat /\ stageN + 1 >= 1 BY <1>1
<1>11. QED BY <1>3, <1>7, <1>8, <1>9, <1>10 DEF before, with, all, StageLinks

LEMMA InBudget ==
  ASSUME StageTypes, Counted, Spared, NEW t \in Nat
  PROVE  /\ tries < Attempts /\ t <= stageBegan + Timeout + Backoff * tries =>
              t <= (runs - 1) * RunTime + ((tries + 1) - 1) * Timeout + Pause(tries + 1)
         /\ t <= stageBegan + Timeout + StageCancel + StageGrace =>
              t <= ((runs + 1) - 1) * RunTime + (1 - 1) * Timeout + Pause(1) /\ t <= runs * RunTime
<1>1. /\ tries \in 1..Attempts /\ tries \in Nat /\ runs \in Nat /\ runs - 1 \in Nat /\ Timeout \in Nat /\ StageGrace \in Nat
      /\ StageCancel \in Nat /\ Backoff \in Nat /\ stageBegan \in Nat
  <2>1. tries \in 1..Attempts /\ runs \in 1..Runs /\ stageBegan \in 0..StageEnd BY DEF StageTypes
  <2>2. QED BY <2>1, StageConstants
<1> DEFINE r == RunTime
           rr == (runs - 1) * RunTime
           rn == runs * RunTime
           st == (tries - 1) * Timeout
           tt == tries * Timeout
           p == Pause(tries)
           pn == Pause(tries + 1)
           bt == Backoff * tries
<1>2. /\ r \in Nat /\ p \in Nat /\ st \in Nat
      /\ st + p + Timeout + StageCancel + StageGrace <= r
      /\ tries < Attempts => st + p + Timeout + bt = tt + pn
  BY <1>1, RunFits
<1>3. rr \in Nat /\ rn \in Nat /\ bt \in Nat /\ tt \in Nat BY <1>1, <1>2, Times
<1>4. rn = rr + r BY <1>1, <1>2
<1>5. stageBegan <= rr + st + p BY DEF Counted
<1>6. pn \in Nat /\ Pause(1) \in Nat BY <1>1, PauseGrows
<1>7. (tries + 1) - 1 = tries /\ (runs + 1) - 1 = runs /\ (1 - 1) * Timeout = 0 BY <1>1
<1>8. SUFFICES /\ tries < Attempts /\ t <= stageBegan + Timeout + bt => t <= rr + tt + pn
               /\ t <= stageBegan + Timeout + StageCancel + StageGrace => t <= rn + 0 + Pause(1) /\ t <= rn
  BY <1>7
<1> DEFINE p1 == Pause(1)
<1>9. p1 \in Nat BY <1>6
<1> HIDE DEF r, rr, rn, st, tt, p, pn, bt, p1
<1>10. tries < Attempts /\ t <= stageBegan + Timeout + bt => t <= rr + tt + pn
  BY <1>1, <1>2, <1>3, <1>5, <1>6
<1>11. t <= stageBegan + Timeout + StageCancel + StageGrace => t <= rn /\ t <= rn + 0 + p1
  BY <1>1, <1>2, <1>3, <1>4, <1>5, <1>9
<1>12. QED BY <1>10, <1>11 DEF p1

\* Another attempt begins where the ones before it are settled.
LEMMA Begins ==
  ASSUME NEW links \in [StageLinks -> StageRecord], StageTypes, Stage!Another(links), stageN + 1 \in StageLinks,
         UNCHANGED <<thread, gone>>, stageCloses' \in [StageLinks -> {0, 1}],
         \A k \in StageLinks : Tidy(links[k], stageCloses'[k], thread[k], gone[k]),
         \A k \in StageLinks : k > stageN => links[k] = Stage!Fresh /\ thread[k] = "none" /\ ~gone[k],
         \A k \in StageLinks : k <= stageN => Behind(links[k], thread[k], gone[k])
  PROVE  Settled' /\ stageLink' \in [StageLinks -> StageRecord]
<1>1. /\ stageN' = stageN + 1 /\ stagePc' = "connect" /\ stageLink' = [links EXCEPT ![stageN + 1].net = "connecting"]
  BY DEF Stage!Another
<1>2. \A k \in StageLinks : k \in Nat BY DEF StageLinks
<1>3. stageN \in StageLinks /\ stageN \in Nat /\ stageN + 1 > stageN
  <2>1. stageN \in StageLinks BY DEF StageTypes
  <2>2. QED BY <1>2, <2>1
<1> DEFINE next == [Stage!Fresh EXCEPT !.net = "connecting"]
<1>4. links[stageN + 1] = Stage!Fresh /\ thread[stageN + 1] = "none" /\ ~gone[stageN + 1] BY <1>3
<1>5. stageLink' = [links EXCEPT ![stageN + 1] = next] BY <1>1, <1>4
<1>6. next \in StageRecord /\ next.net = "connecting" /\ ~next.left /\ next.cancel = "none" /\ next.call = "idle"
  <2>1. 0 \in 0..StageEnd BY StageConstants
  <2>2. QED BY <2>1 DEF Stage!Fresh, StageRecord, StageNet
<1> HIDE DEF next
<1>7. /\ stageLink' \in [StageLinks -> StageRecord] /\ stageLink'[stageN + 1] = next
      /\ \A k \in StageLinks : k # stageN + 1 => stageLink'[k] = links[k]
  BY <1>5, <1>6
<1>8. AllTidy'
  <2>1. ASSUME NEW k \in StageLinks PROVE Tidy(stageLink'[k], stageCloses'[k], thread'[k], gone'[k])
    <3>1. CASE k = stageN + 1
      <4>1. Tidy(Stage!Fresh, stageCloses'[k], "none", gone[k]) BY <1>4, <3>1
      <4>2. stageCloses'[k] # 1 BY <4>1 DEF Tidy, Stage!Fresh
      <4>3. QED BY <1>4, <1>6, <1>7, <3>1, <4>2 DEF Tidy
    <3>2. CASE k # stageN + 1 BY <1>7, <3>2
    <3>3. QED BY <3>1, <3>2
  <2>2. QED BY <2>1 DEF AllTidy
<1>9. NotYet'
  <2>1. ASSUME NEW k \in StageLinks, k > stageN'
        PROVE  stageLink'[k] = Stage!Fresh /\ thread'[k] = "none" /\ ~gone'[k]
    <3>1. k # stageN + 1 /\ k > stageN BY <1>1, <1>2, <1>3, <2>1
    <3>2. QED BY <1>7, <3>1
  <2>2. QED BY <2>1 DEF NotYet
<1>10. PastBehind'
  <2>1. ASSUME NEW k \in StageLinks, Past(k)' PROVE Behind(stageLink'[k], thread'[k], gone'[k])
    <3>1. k < stageN + 1 BY <1>1, <2>1 DEF Past
    <3>2. k # stageN + 1 /\ k <= stageN BY <1>2, <1>3, <3>1
    <3>3. QED BY <1>7, <3>2
  <2>2. QED BY <2>1 DEF PastBehind
<1>11. UnderWay' BY <1>1, <1>4, <1>6, <1>7 DEF UnderWay
<1>12. QED BY <1>7, <1>8, <1>9, <1>10, <1>11 DEF Settled

\* A step that concerns one connection.
LEMMA LinkMoves ==
  ASSUME StageInv, NEW j \in StageLinks, NEW l \in StageRecord, stageLink' = [stageLink EXCEPT ![j] = l],
         j <= stageN, UNCHANGED stageN, j = stageN \/ UNCHANGED stagePc,
         \A k \in StageLinks : k # j =>
           stageCloses'[k] = stageCloses[k] /\ thread'[k] = thread[k] /\ gone'[k] = gone[k],
         Tidy(l, stageCloses'[j], thread'[j], gone'[j]),
         Past(j)' => Behind(l, thread'[j], gone'[j]), UnderWay'
  PROVE  Settled' /\ stageLink' \in [StageLinks -> StageRecord]
<1>1. stageLink \in [StageLinks -> StageRecord] /\ stageN \in StageLinks BY DEF StageInv, StageTypes
<1>2. /\ stageLink' \in [StageLinks -> StageRecord] /\ stageLink'[j] = l
      /\ \A k \in StageLinks : k # j => stageLink'[k] = stageLink[k]
  BY <1>1
<1>3. \A k \in StageLinks : k \in Nat BY DEF StageLinks
<1>4. AllTidy'
  <2>1. ASSUME NEW k \in StageLinks PROVE Tidy(stageLink'[k], stageCloses'[k], thread'[k], gone'[k])
    BY <1>2 DEF StageInv, Settled, AllTidy
  <2>2. QED BY <2>1 DEF AllTidy
<1>5. NotYet'
  <2>1. ASSUME NEW k \in StageLinks, k > stageN'
        PROVE  stageLink'[k] = Stage!Fresh /\ thread'[k] = "none" /\ ~gone'[k]
    <3>1. k # j BY <1>1, <1>3, <2>1
    <3>2. QED BY <1>2, <2>1, <3>1 DEF StageInv, Settled, NotYet
  <2>2. QED BY <2>1 DEF NotYet
<1>6. PastBehind'
  <2>1. ASSUME NEW k \in StageLinks, Past(k)' PROVE Behind(stageLink'[k], thread'[k], gone'[k])
    <3>1. CASE k = j BY <1>2, <2>1, <3>1
    <3>2. CASE k # j
      <4>1. Past(k)
        <5>1. CASE k < stageN BY <5>1 DEF Past
        <5>2. CASE ~(k < stageN)
          <6>1. k = stageN /\ stagePc' \in {"sleep", "done"} BY <2>1, <5>2 DEF Past
          <6>2. QED BY <3>2, <6>1 DEF Past
        <5>3. QED BY <5>1, <5>2
      <4>2. QED BY <1>2, <3>2, <4>1 DEF StageInv, Settled, PastBehind
    <3>3. QED BY <3>1, <3>2
  <2>2. QED BY <2>1 DEF PastBehind
<1>7. QED BY <1>2, <1>4, <1>5, <1>6 DEF Settled

\* Where an attempt ends: at once another, one after a wait, the next run, or the end.
LEMMA StageDecides ==
  ASSUME StageInv, Spared,
         NEW s \in {"none", "ok", "drop", "error", "timeout", "interrupted"}, NEW l \in StageRecord,
         Stage!Decide(s, [stageLink EXCEPT ![stageN] = l]),
         UNCHANGED <<stageNow, thread, saw, gone>>, stageCloses' \in [StageLinks -> {0, 1}],
         \A k \in StageLinks : k # stageN => stageCloses'[k] = stageCloses[k],
         Tidy(l, stageCloses'[stageN], thread[stageN], gone[stageN]),
         Behind(l, thread[stageN], gone[stageN]), stagePc \in {"connect", "close"},
         stageNow <= stageBegan + Timeout + StageCancel + StageGrace,
         s = "drop" => stageNow <= stageBegan + Timeout
  PROVE  StageInv'
<1>1. StageTypes /\ Settled /\ Counted /\ AllTidy /\ NotYet /\ PastBehind BY DEF StageInv, Settled
<1>2. /\ stageLink \in [StageLinks -> StageRecord] /\ stageN \in StageLinks /\ stageNow \in 0..StageEnd
      /\ stageNow \in Nat /\ tries \in 1..Attempts /\ runs \in 1..Runs /\ stageBegan \in 0..StageEnd
      /\ status' = s /\ status' \in {"none", "ok", "drop", "error", "timeout", "interrupted"}
  <2>1. status' = s BY DEF Stage!Decide
  <2>2. /\ stageLink \in [StageLinks -> StageRecord] /\ stageN \in StageLinks /\ stageNow \in 0..StageEnd
        /\ tries \in 1..Attempts /\ runs \in 1..Runs /\ stageBegan \in 0..StageEnd
    BY <1>1 DEF StageTypes
  <2>3. QED BY <2>1, <2>2
<1>3. \A k \in StageLinks : k \in Nat BY DEF StageLinks
<1> DEFINE links == [stageLink EXCEPT ![stageN] = l]
<1>4. links \in [StageLinks -> StageRecord] /\ links[stageN] = l
      /\ \A k \in StageLinks : k # stageN => links[k] = stageLink[k]
  BY <1>2
<1> HIDE DEF links
<1>5. \A k \in StageLinks : Tidy(links[k], stageCloses'[k], thread[k], gone[k])
  <2>1. ASSUME NEW k \in StageLinks PROVE Tidy(links[k], stageCloses'[k], thread[k], gone[k])
    BY <1>1, <1>4 DEF AllTidy
  <2>2. QED BY <2>1
<1>6. \A k \in StageLinks : k > stageN => links[k] = Stage!Fresh /\ thread[k] = "none" /\ ~gone[k]
  <2>1. ASSUME NEW k \in StageLinks, k > stageN PROVE links[k] = Stage!Fresh /\ thread[k] = "none" /\ ~gone[k]
    <3>1. k # stageN BY <1>2, <1>3, <2>1
    <3>2. QED BY <1>1, <1>4, <2>1, <3>1 DEF NotYet
  <2>2. QED BY <2>1
<1>7. \A k \in StageLinks : k <= stageN => Behind(links[k], thread[k], gone[k])
  <2>1. ASSUME NEW k \in StageLinks, k <= stageN PROVE Behind(links[k], thread[k], gone[k])
    <3>1. CASE k = stageN BY <1>4, <3>1
    <3>2. CASE k # stageN
      <4>1. Past(k) BY <1>2, <1>3, <2>1, <3>2 DEF Past
      <4>2. QED BY <1>1, <1>4, <3>2, <4>1 DEF PastBehind
    <3>3. QED BY <3>1, <3>2
  <2>2. QED BY <2>1
<1>8. /\ tries < Attempts => stageN + 1 \in StageLinks /\ stageN + 1 <= (runs - 1) * Attempts + (tries + 1)
      /\ runs < Runs => stageN + 1 \in StageLinks /\ stageN + 1 <= ((runs + 1) - 1) * Attempts + 1
  BY <1>1, InTurn
<1>9. /\ tries < Attempts /\ stageNow <= stageBegan + Timeout + Backoff * tries =>
           stageNow <= (runs - 1) * RunTime + ((tries + 1) - 1) * Timeout + Pause(tries + 1)
      /\ stageNow <= ((runs + 1) - 1) * RunTime + (1 - 1) * Timeout + Pause(1)
      /\ stageNow <= runs * RunTime
  BY <1>1, <1>2, InBudget
<1>10. /\ stageN <= stageN
       /\ \A k \in StageLinks : k # stageN =>
            stageCloses'[k] = stageCloses[k] /\ thread'[k] = thread[k] /\ gone'[k] = gone[k]
       /\ Tidy(l, stageCloses'[stageN], thread'[stageN], gone'[stageN])
       /\ Behind(l, thread'[stageN], gone'[stageN])
  BY <1>2, <1>3
<1>11. stageNow <= stageNow + Timeout BY <1>2, StageConstants
<1>12. CASE s = "drop" /\ tries < Attempts /\ Backoff = 0 /\ Stage!Another(links) /\ tries' = tries + 1
            /\ UNCHANGED <<runs, stageUntil, spent>>
  <2>1. Settled' /\ stageLink' \in [StageLinks -> StageRecord] BY <1>1, <1>4, <1>5, <1>6, <1>7, <1>8, <1>12, Begins
  <2>2. stageN' = stageN + 1 /\ stagePc' = "connect" /\ stageBegan' = stageNow BY <1>12 DEF Stage!Another
  <2>3. tries + 1 \in 1..Attempts BY <1>2, <1>12, StageConstants
  <2>4. StageTypes' BY <1>1, <1>2, <1>8, <1>12, <2>1, <2>2, <2>3 DEF StageTypes
  <2>5. stageNow <= stageBegan + Timeout + Backoff * tries
    <3>1. Backoff * tries = 0 BY <1>2, <1>12
    <3>2. stageBegan + Timeout + 0 = stageBegan + Timeout BY <1>2, StageConstants
    <3>3. QED BY <1>12, <3>1, <3>2
  <2>6. Counted' BY <1>8, <1>9, <1>11, <1>12, <2>2, <2>5 DEF Counted, RunTime, Pause
  <2>7. QED BY <2>1, <2>4, <2>6 DEF StageInv
<1>13. CASE s = "drop" /\ tries < Attempts /\ Backoff > 0 /\ stagePc' = "sleep"
            /\ stageUntil' = stageNow + Backoff * tries /\ stageLink' = links
            /\ UNCHANGED <<stageN, tries, runs, stageBegan, spent>>
  <2>1. UnderWay' BY <1>2, <1>4, <1>13 DEF UnderWay, Behind
  <2>2. Settled' /\ stageLink' \in [StageLinks -> StageRecord]
    <3>1. stageLink' = [stageLink EXCEPT ![stageN] = l] BY <1>13 DEF links
    <3>2. QED BY <1>2, <1>10, <1>13, <2>1, <3>1, LinkMoves
  <2>3. Backoff * tries \in Nat BY <1>2, StageConstants, Times
  <2>4. stageUntil' \in Nat /\ stageNow <= stageNow + Backoff * tries BY <1>2, <1>13, <2>3
  <2>5. StageTypes' BY <1>1, <1>2, <1>13, <2>2, <2>4 DEF StageTypes
  <2>6. stageNow + Backoff * tries <= stageBegan + Timeout + Backoff * tries
    <3>1. stageNow <= stageBegan + Timeout BY <1>13
    <3> DEFINE b == Backoff * tries
    <3>2. b \in Nat BY <2>3
    <3> HIDE DEF b
    <3>3. stageNow + b <= stageBegan + Timeout + b BY <1>2, <3>1, <3>2, StageConstants
    <3>4. QED BY <3>3 DEF b
  <2>7. Counted'
    <3>1. stageN <= (runs - 1) * Attempts + tries
          /\ stageBegan <= (runs - 1) * RunTime + (tries - 1) * Timeout + Pause(tries)
      BY <1>1 DEF Counted
    <3>2. QED BY <1>13, <2>4, <2>6, <3>1 DEF Counted, RunTime, Pause
  <2>8. QED BY <2>2, <2>5, <2>7 DEF StageInv
<1>14. CASE runs < Runs /\ Stage!Another(links) /\ tries' = 1 /\ runs' = runs + 1 /\ UNCHANGED <<stageUntil, spent>>
  <2>1. Settled' /\ stageLink' \in [StageLinks -> StageRecord] BY <1>1, <1>4, <1>5, <1>6, <1>7, <1>8, <1>14, Begins
  <2>2. stageN' = stageN + 1 /\ stagePc' = "connect" /\ stageBegan' = stageNow BY <1>14 DEF Stage!Another
  <2>3. 1 \in 1..Attempts /\ runs + 1 \in 1..Runs BY <1>2, <1>14, StageConstants
  <2>4. StageTypes' BY <1>1, <1>2, <1>8, <1>14, <2>1, <2>2, <2>3 DEF StageTypes
  <2>5. Counted' BY <1>8, <1>9, <1>11, <1>14, <2>2 DEF Counted, RunTime, Pause
  <2>6. QED BY <2>1, <2>4, <2>5 DEF StageInv
<1>15. CASE runs = Runs /\ stagePc' = "done" /\ spent' = stageNow /\ stageLink' = links
            /\ UNCHANGED <<stageN, tries, runs, stageBegan, stageUntil>>
  <2>1. UnderWay' BY <1>2, <1>4, <1>15 DEF UnderWay, Behind
  <2>2. Settled' /\ stageLink' \in [StageLinks -> StageRecord]
    <3>1. stageLink' = [stageLink EXCEPT ![stageN] = l] BY <1>15 DEF links
    <3>2. QED BY <1>2, <1>10, <1>15, <2>1, <3>1, LinkMoves
  <2>3. StageTypes' BY <1>1, <1>2, <1>15, <2>2 DEF StageTypes
  <2>4. Counted'
    <3>1. stageN <= (runs - 1) * Attempts + tries
          /\ stageBegan <= (runs - 1) * RunTime + (tries - 1) * Timeout + Pause(tries)
      BY <1>1 DEF Counted
    <3>2. QED BY <1>9, <1>15, <3>1 DEF Counted, RunTime, Pause
  <2>5. QED BY <2>2, <2>3, <2>4 DEF StageInv
<1>16. \/ s = "drop" /\ tries < Attempts /\ Backoff = 0 /\ Stage!Another(links) /\ tries' = tries + 1
          /\ UNCHANGED <<runs, stageUntil, spent>>
       \/ s = "drop" /\ tries < Attempts /\ Backoff > 0 /\ stagePc' = "sleep"
          /\ stageUntil' = stageNow + Backoff * tries /\ stageLink' = links
          /\ UNCHANGED <<stageN, tries, runs, stageBegan, spent>>
       \/ runs < Runs /\ Stage!Another(links) /\ tries' = 1 /\ runs' = runs + 1 /\ UNCHANGED <<stageUntil, spent>>
       \/ runs = Runs /\ stagePc' = "done" /\ spent' = stageNow /\ stageLink' = links
          /\ UNCHANGED <<stageN, tries, runs, stageBegan, stageUntil>>
  BY DEF Stage!Decide, Stage!Repeated, links
<1>17. QED BY <1>12, <1>13, <1>14, <1>15, <1>16

\* The threads: of connect(), which may come too late, and of a call, which closes what
\* its caller has given up.
LEMMA ThreadMoves ==
  ASSUME StageInv, NEW k \in StageLinks, NEW l \in StageRecord, stageLink' = [stageLink EXCEPT ![k] = l],
         UNCHANGED <<stageNow, stageN, tries, runs, stageBegan, stagePc, gone, status, stageUntil, spent>>,
         stageCloses' \in [StageLinks -> {0, 1}], saw' \in [StageLinks -> {"none", "ok", "drop", "error"}],
         thread' \in [StageLinks -> {"none", "at work", "finishing", "done"}],
         \A x \in StageLinks : x # k => stageCloses'[x] = stageCloses[x] /\ thread'[x] = thread[x],
         k <= stageN, l.since = stageLink[k].since,
         Tidy(l, stageCloses'[k], thread'[k], gone[k]), Past(k) => Behind(l, thread'[k], gone[k]),
         k = stageN => UnderWay'
  PROVE  StageInv'
<1>1. StageTypes /\ Settled /\ Counted /\ UnderWay BY DEF StageInv, Settled
<1>2. stageLink \in [StageLinks -> StageRecord] /\ stageN \in StageLinks BY <1>1 DEF StageTypes
<1>3. UnderWay'
  <2>1. CASE k = stageN BY <2>1
  <2>2. CASE k # stageN
    <3>1. stageLink'[stageN] = stageLink[stageN] BY <1>2, <2>2
    <3>2. QED BY <1>1, <1>2, <2>2, <3>1 DEF UnderWay
  <2>3. QED BY <2>1, <2>2
<1>4. Past(k)' <=> Past(k) BY DEF Past
<1>5. Settled' /\ stageLink' \in [StageLinks -> StageRecord] BY <1>3, <1>4, LinkMoves
<1>6. StageTypes' BY <1>1, <1>5 DEF StageTypes
<1>7. stageLink'[stageN].since = stageLink[stageN].since BY <1>2
<1>8. Counted' BY <1>1, <1>7 DEF Counted, RunTime, Pause
<1>9. QED BY <1>5, <1>6, <1>8 DEF StageInv

\* Only an attempt that has begun has a connection or a thread.
LEMMA HasBegun ==
  ASSUME StageInv, NEW k \in StageLinks, thread[k] # "none" \/ stageLink[k].net # "none"
  PROVE  /\ k <= stageN /\ stageLink[k] \in StageRecord /\ Tidy(stageLink[k], stageCloses[k], thread[k], gone[k])
         /\ Past(k) => Behind(stageLink[k], thread[k], gone[k])
         /\ thread[k] \in {"none", "at work", "finishing", "done"} /\ gone[k] \in BOOLEAN
         /\ stageCloses[k] \in {0, 1}
<1>1. stageN \in StageLinks BY DEF StageInv, StageTypes
<1>2. k \in Nat /\ stageN \in Nat BY <1>1 DEF StageLinks
<1>3. Stage!Fresh.net = "none" BY DEF Stage!Fresh
<1>4. ~(k > stageN) BY <1>3 DEF StageInv, Settled, NotYet
<1>5. k <= stageN BY <1>2, <1>4
<1>6. QED BY <1>5 DEF StageInv, StageTypes, Settled, AllTidy, PastBehind

LEMMA ConnectorMoves ==
  ASSUME StageInv, NEW k \in StageLinks, Stage!Connector(k), UNCHANGED Stage!own
  PROVE  StageInv'
<1>1. UNCHANGED <<stageNow, stageN, tries, runs, stageBegan, stagePc, thread, saw, gone, status, stageUntil, spent>>
  BY DEF Stage!Connector, Stage!ConnectReturns, Stage!ConnectRaises, Stage!LateCloses, Stage!own
<1> DEFINE own == stageLink[k]
<1>2. own.net \in {"connecting", "late"}
  BY DEF Stage!Connector, Stage!ConnectReturns, Stage!ConnectRaises, Stage!LateCloses
<1>3. /\ StageTypes /\ UnderWay /\ stageLink \in [StageLinks -> StageRecord]
      /\ stageCloses \in [StageLinks -> {0, 1}]
      /\ saw \in [StageLinks -> {"none", "ok", "drop", "error"}]
      /\ thread \in [StageLinks -> {"none", "at work", "finishing", "done"}]
  BY DEF StageInv, Settled, StageTypes
<1>4. /\ k <= stageN /\ own \in StageRecord /\ Tidy(own, stageCloses[k], thread[k], gone[k])
      /\ Past(k) => Behind(own, thread[k], gone[k])
      /\ stageCloses[k] \in {0, 1}
  BY <1>2, HasBegun
<1>5. thread[k] = "none" /\ ~gone[k] /\ stageCloses[k] = 0 /\ (own.net = "late" => own.left)
      /\ own.call \notin {"running", "broken"}
  BY <1>2, <1>3, <1>4 DEF Tidy
<1>6. PICK e \in StageNet :
        /\ stageLink' = [stageLink EXCEPT ![k].net = e]
        /\ \/ own.net = "connecting" /\ own.left /\ e \in {"late", "drop", "error"} /\ UNCHANGED stageCloses
           \/ own.net = "connecting" /\ ~own.left /\ e \in {"open", "drop", "error"} /\ UNCHANGED stageCloses
           \/ own.net = "late" /\ e = "closed" /\ stageCloses' = [stageCloses EXCEPT ![k] = @ + 1]
  BY DEF Stage!Connector, Stage!ConnectReturns, Stage!ConnectRaises, Stage!LateCloses, StageNet
<1> DEFINE l == [own EXCEPT !.net = e]
<1>7. l \in StageRecord /\ l.net = e /\ l.left = own.left /\ l.cancel = own.cancel /\ l.call = own.call
      /\ l.since = own.since
  BY <1>4 DEF StageRecord
<1>8. stageLink' = [stageLink EXCEPT ![k] = l] BY <1>3, <1>6
<1> HIDE DEF l
<1>9. /\ stageCloses' \in [StageLinks -> {0, 1}] /\ \A x \in StageLinks : x # k => stageCloses'[x] = stageCloses[x]
      /\ stageCloses'[k] = 1 <=> e = "closed"
  <2>1. CASE stageCloses' = stageCloses /\ e # "closed"
    <3>1. stageCloses'[k] = 0 /\ stageCloses' \in [StageLinks -> {0, 1}] BY <1>3, <1>5, <2>1
    <3>2. QED BY <2>1, <3>1
  <2>2. CASE own.net = "late" /\ e = "closed" /\ stageCloses' = [stageCloses EXCEPT ![k] = @ + 1]
    <3>1. stageCloses' = [stageCloses EXCEPT ![k] = 1] BY <1>5, <2>2
    <3>2. QED BY <1>3, <2>2, <3>1
  <2>3. QED BY <1>6, <2>1, <2>2
<1>10. Tidy(l, stageCloses'[k], thread'[k], gone[k])
  <2>1. l.net = "late" => l.left BY <1>6, <1>7
  <2>2. QED BY <1>1, <1>5, <1>7, <1>9, <2>1 DEF Tidy
<1>11. Past(k) => Behind(l, thread'[k], gone[k])
  BY <1>2, <1>4, <1>5, <1>6, <1>7 DEF Behind
<1>12. k = stageN => UnderWay'
  <2>1. SUFFICES ASSUME k = stageN PROVE UnderWay' OBVIOUS
  <2>2. stageLink'[stageN] = l BY <1>3, <1>8, <2>1
  <2>3. stagePc = "connect" => e \in {"open", "drop", "error"} BY <1>3, <1>5, <1>6, <2>1 DEF UnderWay
  <2>4. stagePc \notin {"wait", "cancel", "grace", "judge", "close"} BY <1>2, <1>3, <1>5, <2>1 DEF UnderWay
  <2>5. own.cancel = "going" <=> stagePc = "cancel" BY <1>3, <2>1 DEF UnderWay
  <2>6. stagePc = "connect" => ~own.left BY <1>3, <2>1 DEF UnderWay
  <2>7. QED BY <1>1, <1>5, <1>7, <2>1, <2>2, <2>3, <2>4, <2>5, <2>6 DEF UnderWay
<1>13. QED BY <1>1, <1>3, <1>4, <1>7, <1>8, <1>9, <1>10, <1>11, <1>12, ThreadMoves

LEMMA CallEndsSafe ==
  ASSUME StageInv, NEW k \in StageLinks, Stage!CallEnds(k)
  PROVE  StageInv'
<1> DEFINE own == stageLink[k]
           l == [own EXCEPT !.call = "over"]
<1>1. /\ own.call \in {"running", "broken"} /\ stageLink' = [stageLink EXCEPT ![k].call = "over"]
      /\ thread' = [thread EXCEPT ![k] = "finishing"]
      /\ \E s \in {"ok", "drop", "error"} : saw' = [saw EXCEPT ![k] = s]
      /\ UNCHANGED <<stageNow, stageCloses, stageN, tries, runs, stageBegan, stagePc, gone, status, stageUntil, spent>>
  BY DEF Stage!CallEnds
<1>2. /\ StageTypes /\ UnderWay /\ stageLink \in [StageLinks -> StageRecord]
      /\ stageCloses \in [StageLinks -> {0, 1}]
      /\ saw \in [StageLinks -> {"none", "ok", "drop", "error"}]
      /\ thread \in [StageLinks -> {"none", "at work", "finishing", "done"}]
      /\ Tidy(own, stageCloses[k], thread[k], gone[k])
  BY DEF StageInv, Settled, StageTypes, AllTidy
<1>3. thread[k] = "at work" /\ own.net = "open" BY <1>1, <1>2 DEF Tidy
<1>4. /\ k <= stageN /\ own \in StageRecord /\ (Past(k) => Behind(own, thread[k], gone[k]))
  BY <1>3, HasBegun
<1>5. l \in StageRecord /\ l.net = own.net /\ l.left = own.left /\ l.cancel = own.cancel /\ l.call = "over"
      /\ l.since = own.since
  BY <1>4 DEF StageRecord
<1>6. stageLink' = [stageLink EXCEPT ![k] = l] BY <1>1, <1>2
<1> HIDE DEF l
<1>7. /\ thread' \in [StageLinks -> {"none", "at work", "finishing", "done"}] /\ thread'[k] = "finishing"
      /\ saw' \in [StageLinks -> {"none", "ok", "drop", "error"}]
      /\ \A x \in StageLinks : x # k => thread'[x] = thread[x]
  BY <1>1, <1>2
<1>8. Tidy(l, stageCloses'[k], thread'[k], gone[k]) BY <1>1, <1>2, <1>3, <1>5, <1>7 DEF Tidy
<1>9. Past(k) => Behind(l, thread'[k], gone[k]) BY <1>3, <1>4, <1>5, <1>7 DEF Behind
<1>10. k = stageN => UnderWay'
  <2>1. SUFFICES ASSUME k = stageN PROVE UnderWay' OBVIOUS
  <2>2. stageLink'[stageN] = l BY <1>2, <1>6, <2>1
  <2>3. QED BY <1>1, <1>2, <1>3, <1>5, <1>7, <2>1, <2>2, ZenonT(40) DEF UnderWay
<1>11. QED BY <1>1, <1>2, <1>4, <1>5, <1>6, <1>7, <1>8, <1>9, <1>10, ThreadMoves

LEMMA FinishesSafe ==
  ASSUME StageInv, NEW k \in StageLinks, Stage!Finishes(k)
  PROVE  StageInv'
<1> DEFINE own == stageLink[k]
           l == IF gone[k] THEN [own EXCEPT !.net = "closed"] ELSE own
           c == IF gone[k] THEN 1 ELSE 0
<1>1. /\ thread[k] = "finishing" /\ thread' = [thread EXCEPT ![k] = "done"]
      /\ stageLink' = [stageLink EXCEPT ![k] = l]
      /\ stageCloses' = [stageCloses EXCEPT ![k] = IF gone[k] THEN @ + 1 ELSE @]
      /\ UNCHANGED <<stageNow, stageN, tries, runs, stageBegan, stagePc, saw, gone, status, stageUntil, spent>>
  BY DEF Stage!Finishes, Stage!Close
<1>2. /\ StageTypes /\ UnderWay /\ stageLink \in [StageLinks -> StageRecord]
      /\ stageCloses \in [StageLinks -> {0, 1}]
      /\ saw \in [StageLinks -> {"none", "ok", "drop", "error"}]
      /\ thread \in [StageLinks -> {"none", "at work", "finishing", "done"}] /\ gone[k] \in BOOLEAN
  BY DEF StageInv, Settled, StageTypes
<1>3. /\ k <= stageN /\ own \in StageRecord /\ (Past(k) => Behind(own, thread[k], gone[k]))
      /\ Tidy(own, stageCloses[k], thread[k], gone[k]) /\ stageCloses[k] \in {0, 1}
  BY <1>1, HasBegun
<1>4. own.net = "open" /\ stageCloses[k] = 0 /\ own.call \notin {"running", "broken"} BY <1>1, <1>3 DEF Tidy
<1>5. /\ l \in StageRecord /\ l.cancel = own.cancel /\ l.call = own.call /\ l.since = own.since
      /\ l.net = (IF gone[k] THEN "closed" ELSE "open")
  <2>1. CASE gone[k] BY <1>3, <2>1 DEF StageRecord, StageNet
  <2>2. CASE ~gone[k] BY <1>3, <1>4, <2>2
  <2>3. QED BY <2>1, <2>2
<1>6. stageCloses' = [stageCloses EXCEPT ![k] = c]
  <2>1. stageCloses[k] + 1 = 1 BY <1>4
  <2>2. CASE gone[k] BY <1>1, <2>1, <2>2
  <2>3. CASE ~gone[k] BY <1>1, <1>4, <2>3
  <2>4. QED BY <2>2, <2>3
<1>7. c \in {0, 1} /\ (c = 1 <=> gone[k])
  <2>1. CASE gone[k] BY <2>1
  <2>2. CASE ~gone[k] BY <2>2
  <2>3. QED BY <2>1, <2>2
<1> HIDE DEF l, c
<1>8. /\ thread' \in [StageLinks -> {"none", "at work", "finishing", "done"}] /\ thread'[k] = "done"
      /\ stageCloses' \in [StageLinks -> {0, 1}] /\ stageCloses'[k] = c
      /\ \A x \in StageLinks : x # k => thread'[x] = thread[x] /\ stageCloses'[x] = stageCloses[x]
  BY <1>1, <1>2, <1>6, <1>7, ZenonT(40)
<1>9. Tidy(l, stageCloses'[k], thread'[k], gone[k]) BY <1>2, <1>4, <1>5, <1>7, <1>8 DEF Tidy
<1>10. Past(k) => Behind(l, thread'[k], gone[k]) BY <1>3, <1>4, <1>5 DEF Behind
<1>11. k = stageN => UnderWay'
  <2>1. SUFFICES ASSUME k = stageN PROVE UnderWay' OBVIOUS
  <2>2. stageLink'[stageN] = l /\ thread'[stageN] = "done" BY <1>1, <1>2, <1>8, <2>1
  <2>3. stagePc # "connect" BY <1>1, <1>2, <2>1 DEF UnderWay
  <2>4. stagePc \in {"wait", "cancel", "grace", "judge"} => ~gone[stageN] BY <1>2, <2>1 DEF UnderWay
  <2>5. stagePc = "close" => gone[stageN] BY <1>1, <1>2, <2>1 DEF UnderWay
  <2>6. own.cancel = "going" <=> stagePc = "cancel" BY <1>2, <2>1 DEF UnderWay
  <2>7. QED BY <1>1, <1>5, <2>1, <2>2, <2>3, <2>4, <2>5, <2>6 DEF UnderWay
<1>12. QED BY <1>1, <1>2, <1>3, <1>5, <1>8, <1>9, <1>10, <1>11, ThreadMoves

LEMMA StageNumbers ==
  ASSUME StageTypes
  PROVE  /\ stageN \in StageLinks /\ stageN <= stageN /\ ~(stageN < stageN) /\ stageUntil \in Nat
         /\ stageNow \in Nat /\ stageBegan \in Nat
         /\ stageBegan + Timeout \in Nat /\ stageNow + StageGrace \in Nat
<1>1. /\ stageN \in StageLinks /\ stageNow \in 0..StageEnd /\ stageBegan \in 0..StageEnd /\ stageUntil \in Nat
  BY DEF StageTypes
<1>2. stageN \in Nat BY <1>1, StageOrder
<1>3. QED BY <1>1, <1>2, StageConstants

\* A step of the caller within an attempt.
LEMMA CallerMoves ==
  ASSUME StageInv, NEW l \in StageRecord, stageLink' = [stageLink EXCEPT ![stageN] = l],
         UNCHANGED <<stageNow, stageN, tries, runs, stageBegan, stageCloses, saw, gone, spent>>,
         stagePc' \in {"wait", "cancel", "grace", "judge", "close"},
         status' \in {"none", "ok", "drop", "error", "timeout", "interrupted"},
         stageUntil' = stageUntil \/ stageUntil' = stageBegan + Timeout \/ stageUntil' = stageNow + StageGrace,
         thread' \in [StageLinks -> {"none", "at work", "finishing", "done"}],
         \A x \in StageLinks : x # stageN => thread'[x] = thread[x],
         Tidy(l, stageCloses[stageN], thread'[stageN], gone[stageN]), UnderWay'
  PROVE  Settled' /\ StageTypes'
<1>1. StageTypes BY DEF StageInv
<1>2. /\ stageN \in StageLinks /\ stageN <= stageN /\ ~(stageN < stageN) /\ stageUntil \in Nat
      /\ stageBegan + Timeout \in Nat /\ stageNow + StageGrace \in Nat
  BY <1>1, StageNumbers
<1>5. ~Past(stageN)' BY <1>2 DEF Past
<1>6. Settled' /\ stageLink' \in [StageLinks -> StageRecord] BY <1>2, <1>5, LinkMoves
<1>7. stageUntil' \in Nat BY <1>2
<1>8. StageTypes' BY <1>1, <1>6, <1>7 DEF StageTypes
<1>9. QED BY <1>6, <1>8

\* The caller: it connects, or fails, or gives up; and it wakes for another attempt.
LEMMA StageConnects ==
  ASSUME StageInv, Spared,
         Stage!Connected \/ Stage!ConnectFailed \/ Stage!ConnectTimesOut
  PROVE  StageInv'
<1> DEFINE own == stageLink[stageN]
<1>1. /\ StageTypes /\ UnderWay /\ Counted /\ stageLink \in [StageLinks -> StageRecord]
      /\ stageCloses \in [StageLinks -> {0, 1}] /\ stageN \in StageLinks
      /\ thread \in [StageLinks -> {"none", "at work", "finishing", "done"}]
      /\ own \in StageRecord /\ Tidy(own, stageCloses[stageN], thread[stageN], gone[stageN])
  <2>1. /\ StageTypes /\ UnderWay /\ Counted /\ stageLink \in [StageLinks -> StageRecord]
        /\ stageCloses \in [StageLinks -> {0, 1}] /\ stageN \in StageLinks
        /\ thread \in [StageLinks -> {"none", "at work", "finishing", "done"}] /\ AllTidy
    BY DEF StageInv, Settled, StageTypes
  <2>2. QED BY <2>1 DEF AllTidy
<1>2. stageN <= stageN /\ ~(stageN < stageN) /\ stageNow \in Nat /\ stageBegan \in Nat
  <2>1. stageN \in StageLinks /\ stageNow \in 0..StageEnd /\ stageBegan \in 0..StageEnd BY DEF StageInv, StageTypes
  <2>2. stageN \in Nat BY <2>1, StageOrder
  <2>3. QED BY <2>1, <2>2, StageConstants
<1>3. stagePc = "connect" /\ UNCHANGED <<stageNow, stageCloses, saw, gone>>
  BY DEF Stage!Connected, Stage!ConnectFailed, Stage!ConnectTimesOut
<1>4. /\ own.net \in {"connecting", "open", "drop", "error"} /\ ~own.left /\ own.cancel # "going"
      /\ thread[stageN] = "none" /\ ~gone[stageN] /\ own.call \notin {"running", "broken"}
      /\ stageCloses[stageN] = 0
  BY <1>1, <1>3 DEF UnderWay, Tidy
<1>5. stageNow <= stageBegan + Timeout /\ stageNow <= stageBegan + Timeout + StageCancel + StageGrace
  <2>1. stageNow <= stageBegan + Timeout BY <1>1, <1>3 DEF Counted
  <2>2. QED BY <1>2, <2>1, StageConstants
<1>6. CASE Stage!Connected
  <2> DEFINE l == [own EXCEPT !.call = "running"]
  <2>1. /\ own.net = "open" /\ stageLink' = [stageLink EXCEPT ![stageN].call = "running"]
        /\ thread' = [thread EXCEPT ![stageN] = "at work"] /\ stagePc' = "wait"
        /\ stageUntil' = stageBegan + Timeout
        /\ UNCHANGED <<stageN, tries, runs, stageBegan, status, spent>>
    BY <1>6 DEF Stage!Connected
  <2>2. l \in StageRecord /\ l.net = "open" /\ l.call = "running" /\ l.cancel = own.cancel /\ ~l.left
    BY <1>1, <1>4, <2>1 DEF StageRecord
  <2>3. stageLink' = [stageLink EXCEPT ![stageN] = l] BY <1>1, <2>1
  <2> HIDE DEF l
  <2>4. /\ thread' \in [StageLinks -> {"none", "at work", "finishing", "done"}] /\ thread'[stageN] = "at work"
        /\ \A x \in StageLinks : x # stageN => thread'[x] = thread[x]
        /\ stageLink'[stageN] = l
    BY <1>1, <2>1, <2>3
  <2>5. Tidy(l, stageCloses'[stageN], thread'[stageN], gone[stageN])
    <3>1. stageCloses'[stageN] = 0 BY <1>3, <1>4
    <3>2. Tidy(l, 0, "at work", gone[stageN]) BY <1>4, <2>2 DEF Tidy
    <3>3. QED BY <2>4, <3>1, <3>2
  <2>6. UnderWay' BY <1>3, <1>4, <2>1, <2>2, <2>4 DEF UnderWay
  <2>7. Settled' /\ StageTypes'
    <3>1. stagePc' \in {"wait", "cancel", "grace", "judge", "close"} BY <2>1
    <3>2. status' \in {"none", "ok", "drop", "error", "timeout", "interrupted"} BY <1>1, <2>1 DEF StageTypes
    <3>3. UNCHANGED <<stageNow, stageN, tries, runs, stageBegan, stageCloses, saw, gone, spent>> BY <1>3, <2>1
    <3>4. stageUntil' = stageUntil \/ stageUntil' = stageBegan + Timeout \/ stageUntil' = stageNow + StageGrace
      BY <2>1
    <3>5. QED BY <2>2, <2>3, <2>4, <2>5, <2>6, <3>1, <3>2, <3>3, <3>4, CallerMoves
  <2>8. Counted'
    <3>1. stageN <= (runs - 1) * Attempts + tries
          /\ stageBegan <= (runs - 1) * RunTime + (tries - 1) * Timeout + Pause(tries)
      BY <1>1 DEF Counted
    <3>2. QED BY <1>3, <1>5, <2>1, <3>1 DEF Counted, RunTime, Pause
  <2>9. QED BY <2>7, <2>8 DEF StageInv
<1>7. CASE Stage!ConnectFailed
  <2>1. own.net \in {"drop", "error"} /\ Stage!Decide(own.net, stageLink) /\ UNCHANGED thread
    BY <1>7 DEF Stage!ConnectFailed
  <2>2. stageLink = [stageLink EXCEPT ![stageN] = own] BY <1>1
  <2>3. Stage!Decide(own.net, [stageLink EXCEPT ![stageN] = own]) BY <2>1, <2>2
  <2>4. Behind(own, thread[stageN], gone[stageN]) BY <1>4, <2>1 DEF Behind
  <2>5. own.net \in {"none", "ok", "drop", "error", "timeout", "interrupted"} BY <2>1
  <2> HIDE DEF own
  <2>6. QED BY <1>1, <1>3, <1>5, <2>1, <2>3, <2>4, <2>5, StageDecides
<1>8. CASE Stage!ConnectTimesOut
  <2> DEFINE l == [own EXCEPT !.left = TRUE]
  <2>1. own.net = "connecting" /\ Stage!Decide("timeout", [stageLink EXCEPT ![stageN].left = TRUE]) /\ UNCHANGED thread
    BY <1>8 DEF Stage!ConnectTimesOut
  <2>2. [stageLink EXCEPT ![stageN].left = TRUE] = [stageLink EXCEPT ![stageN] = l] BY <1>1
  <2>3. l \in StageRecord /\ l.net = "connecting" /\ l.left /\ l.cancel = own.cancel /\ l.call = own.call
    BY <1>1, <2>1 DEF StageRecord
  <2>4. Stage!Decide("timeout", [stageLink EXCEPT ![stageN] = l]) BY <2>1, <2>2
  <2> HIDE DEF l
  <2>5. Behind(l, thread[stageN], gone[stageN]) BY <1>4, <2>3 DEF Behind
  <2>6. Tidy(l, stageCloses'[stageN], thread[stageN], gone[stageN]) BY <1>3, <1>4, <2>3 DEF Tidy
  <2> HIDE DEF own
  <2>7. QED BY <1>1, <1>3, <1>5, <2>1, <2>3, <2>4, <2>5, <2>6, StageDecides
<1>9. QED BY <1>6, <1>7, <1>8

LEMMA AwakeSafe ==
  ASSUME StageInv, Spared, Stage!Awake
  PROVE  StageInv'
<1>1. /\ stagePc = "sleep" /\ stageNow >= stageUntil /\ Stage!Another(stageLink) /\ tries' = tries + 1
      /\ UNCHANGED <<stageNow, stageCloses, runs, thread, saw, gone, status, stageUntil, spent>>
      /\ stageN' = stageN + 1 /\ stagePc' = "connect" /\ stageBegan' = stageNow
  BY DEF Stage!Awake, Stage!Another
<1>2. /\ StageTypes /\ Settled /\ Counted /\ stageLink \in [StageLinks -> StageRecord]
      /\ stageCloses \in [StageLinks -> {0, 1}] /\ stageN \in StageLinks /\ stageNow \in 0..StageEnd
      /\ tries \in 1..Attempts /\ stageUntil \in Nat /\ stageBegan \in 0..StageEnd
  BY DEF StageInv, StageTypes
<1>3. /\ tries < Attempts /\ stageNow <= stageUntil
      /\ stageUntil <= stageBegan + Timeout + Backoff * tries
  BY <1>1, <1>2 DEF Counted
<1>4. stageN + 1 \in StageLinks /\ stageN + 1 <= (runs - 1) * Attempts + (tries + 1) BY <1>2, <1>3, InTurn
<1>5. Settled' /\ stageLink' \in [StageLinks -> StageRecord]
  <2>1. \A k \in StageLinks : k \in Nat BY DEF StageLinks
  <2>2. \A k \in StageLinks : k <= stageN => Past(k) BY <1>1, <1>2, <2>1 DEF Past
  <2>3. \A k \in StageLinks : k <= stageN => Behind(stageLink[k], thread[k], gone[k])
    BY <1>2, <2>2 DEF Settled, PastBehind
  <2>4. QED BY <1>1, <1>2, <1>4, <2>3, Begins DEF Settled, AllTidy, NotYet
<1>6. tries + 1 \in 1..Attempts BY <1>2, <1>3, StageConstants
<1>7. StageTypes' BY <1>1, <1>2, <1>4, <1>5, <1>6 DEF StageTypes
<1>8. stageNow <= (runs - 1) * RunTime + ((tries + 1) - 1) * Timeout + Pause(tries + 1)
  <2>1. stageNow \in Nat BY <1>2
  <2>2. Backoff * tries \in Nat BY <1>2, StageConstants, Times
  <2>3. stageNow <= stageBegan + Timeout + Backoff * tries
    <3> DEFINE b == Backoff * tries
    <3>1. b \in Nat /\ stageUntil <= stageBegan + Timeout + b BY <1>3, <2>2
    <3> HIDE DEF b
    <3>2. stageNow <= stageBegan + Timeout + b BY <1>2, <1>3, <2>1, <3>1, StageConstants
    <3>3. QED BY <3>2 DEF b
  <2>4. QED BY <1>2, <1>3, <2>1, <2>3, InBudget
<1>9. stageNow <= stageNow + Timeout BY <1>2, StageConstants
<1>10. Counted' BY <1>1, <1>4, <1>8, <1>9 DEF Counted, RunTime, Pause
<1>11. QED BY <1>5, <1>7, <1>10 DEF StageInv

\* The attempt under way, when its caller waits, cancels or closes.
LEMMA StageAttempt ==
  ASSUME StageInv
  PROVE  /\ StageTypes /\ UnderWay /\ Counted /\ stageLink \in [StageLinks -> StageRecord]
         /\ thread \in [StageLinks -> {"none", "at work", "finishing", "done"}]
         /\ saw \in [StageLinks -> {"none", "ok", "drop", "error"}] /\ gone \in [StageLinks -> BOOLEAN]
         /\ stageCloses \in [StageLinks -> {0, 1}]
         /\ status \in {"none", "ok", "drop", "error", "timeout", "interrupted"}
         /\ stageN \in StageLinks /\ stageLink[stageN] \in StageRecord /\ stageLink[stageN].since \in Nat
         /\ Tidy(stageLink[stageN], stageCloses[stageN], thread[stageN], gone[stageN])
         /\ stageN <= (runs - 1) * Attempts + tries
         /\ stageBegan <= (runs - 1) * RunTime + (tries - 1) * Timeout + Pause(tries)
<1>1. /\ StageTypes /\ UnderWay /\ Counted /\ AllTidy BY DEF StageInv, Settled
<1>2. /\ stageLink \in [StageLinks -> StageRecord]
      /\ thread \in [StageLinks -> {"none", "at work", "finishing", "done"}]
      /\ saw \in [StageLinks -> {"none", "ok", "drop", "error"}] /\ gone \in [StageLinks -> BOOLEAN]
      /\ stageCloses \in [StageLinks -> {0, 1}]
      /\ status \in {"none", "ok", "drop", "error", "timeout", "interrupted"} /\ stageN \in StageLinks
  BY <1>1 DEF StageTypes
<1>3. stageLink[stageN] \in StageRecord BY <1>2
<1>4. stageLink[stageN].since \in Nat BY <1>3 DEF StageRecord
<1>5. Tidy(stageLink[stageN], stageCloses[stageN], thread[stageN], gone[stageN]) BY <1>1, <1>2 DEF AllTidy
<1>6. stageN <= (runs - 1) * Attempts + tries
      /\ stageBegan <= (runs - 1) * RunTime + (tries - 1) * Timeout + Pause(tries)
  BY <1>1 DEF Counted
<1>7. QED BY <1>1, <1>2, <1>3, <1>4, <1>5, <1>6

\* ... and the time it has.
LEMMA StageTime ==
  ASSUME StageInv, NEW t \in Nat
  PROVE  /\ t <= stageBegan + Timeout => t <= stageBegan + Timeout + StageCancel + StageGrace
         /\ t <= stageBegan + Timeout + StageCancel =>
              t + StageGrace <= stageBegan + Timeout + StageCancel + StageGrace /\ t <= t + StageGrace
         /\ t <= t + StageCancel
         /\ \A u \in Nat : u <= stageBegan + Timeout /\ t <= u + StageCancel => t <= stageBegan + Timeout + StageCancel
<1>1. stageBegan \in Nat /\ {Timeout, StageCancel, StageGrace} \subseteq Nat
  BY StageNumbers, StageConstants DEF StageInv
<1>2. QED BY <1>1

LEMMA InTimeSafe ==
  ASSUME StageInv, Stage!InTime
  PROVE  StageInv'
<1> DEFINE l == stageLink[stageN]
<1>1. /\ stagePc = "wait" /\ thread[stageN] = "done" /\ status' = saw[stageN] /\ stagePc' = "close"
      /\ UNCHANGED <<stageNow, stageLink, stageCloses, stageN, tries, runs, stageBegan, thread, saw, gone,
                     stageUntil, spent>>
  BY DEF Stage!InTime
<1>2. stageLink' = [stageLink EXCEPT ![stageN] = l] /\ l \in StageRecord BY <1>1, StageAttempt
<1>3. UnderWay' BY <1>1, StageAttempt DEF UnderWay
<1>4. status' \in {"none", "ok", "drop", "error", "timeout", "interrupted"} BY <1>1, StageAttempt
<1>5. Tidy(l, stageCloses[stageN], thread'[stageN], gone[stageN]) BY <1>1, StageAttempt
<1>6. thread' \in [StageLinks -> {"none", "at work", "finishing", "done"}] BY <1>1, StageAttempt
<1> HIDE DEF l
<1>7. Settled' /\ StageTypes' BY <1>1, <1>2, <1>3, <1>4, <1>5, <1>6, CallerMoves
<1>8. Counted'
  <2>1. stageNow <= stageBegan + Timeout BY <1>1, StageAttempt DEF Counted
  <2>2. stageNow \in Nat BY StageNumbers DEF StageInv
  <2>3. stageNow <= stageBegan + Timeout + StageCancel + StageGrace BY <2>1, <2>2, StageTime
  <2>4. QED BY <1>1, <2>1, <2>3, StageAttempt DEF Counted, RunTime, Pause
<1>9. QED BY <1>7, <1>8 DEF StageInv

LEMMA DeadlineSafe ==
  ASSUME StageInv, Stage!Deadline
  PROVE  StageInv'
<1> DEFINE own == stageLink[stageN]
           l == [own EXCEPT !.cancel = "going", !.since = stageNow]
<1>1. /\ stagePc = "wait" /\ thread[stageN] # "done" /\ status' = "timeout" /\ stagePc' = "cancel"
      /\ stageLink' = [stageLink EXCEPT ![stageN].cancel = "going", ![stageN].since = stageNow]
      /\ UNCHANGED <<stageNow, stageCloses, stageN, tries, runs, stageBegan, thread, saw, gone, stageUntil, spent>>
  BY DEF Stage!Deadline
<1>2. stageLink' = [stageLink EXCEPT ![stageN] = l] BY <1>1, StageAttempt
<1>3. stageNow \in 0..StageEnd BY DEF StageInv, StageTypes
<1>4. own \in StageRecord /\ own.net = "open" /\ thread[stageN] # "none" /\ ~gone[stageN]
  BY <1>1, StageAttempt DEF UnderWay
<1>5. /\ l \in StageRecord /\ l.net = own.net /\ l.left = own.left /\ l.call = own.call
      /\ l.cancel = "going" /\ l.since = stageNow
  BY <1>3, <1>4 DEF StageRecord
<1> HIDE DEF l
<1>6. stageLink'[stageN] = l BY <1>2, StageAttempt
<1>7. UnderWay' BY <1>1, <1>4, <1>5, <1>6 DEF UnderWay
<1>8. Tidy(l, stageCloses[stageN], thread'[stageN], gone[stageN])
  <2>1. Tidy(own, stageCloses[stageN], thread[stageN], gone[stageN]) BY StageAttempt
  <2>2. QED BY <1>1, <1>5, <2>1 DEF Tidy
<1>9. thread' \in [StageLinks -> {"none", "at work", "finishing", "done"}] BY <1>1, StageAttempt
<1> HIDE DEF own
<1>10. Settled' /\ StageTypes' BY <1>1, <1>2, <1>5, <1>7, <1>8, <1>9, CallerMoves
<1>11. Counted'
  <2>1. stageNow <= stageBegan + Timeout BY <1>1, StageAttempt DEF Counted
  <2>2. stageNow \in Nat BY StageNumbers DEF StageInv
  <2>3. stageNow <= stageNow + StageCancel BY <2>2, StageTime
  <2>4. QED BY <1>1, <1>5, <1>6, <2>1, <2>3, StageAttempt DEF Counted, RunTime, Pause
<1>12. QED BY <1>10, <1>11 DEF StageInv

LEMMA CancelledSafe ==
  ASSUME StageInv, Stage!Cancelled
  PROVE  StageInv'
<1> DEFINE own == stageLink[stageN]
<1>1. /\ stagePc = "cancel" /\ stagePc' = "grace" /\ stageUntil' = stageNow + StageGrace
      /\ UNCHANGED <<stageNow, stageCloses, stageN, tries, runs, stageBegan, thread, saw, gone, status, spent>>
  BY DEF Stage!Cancelled
<1>2. PICK l \in Stage!Reached(own) : stageLink' = [stageLink EXCEPT ![stageN] = l] BY DEF Stage!Cancelled
<1>3. own \in StageRecord /\ own.net = "open" /\ thread[stageN] # "none" /\ ~gone[stageN] /\ status = "timeout"
  BY <1>1, StageAttempt DEF UnderWay, Counted
<1> DEFINE c == IF own.call = "running" THEN "broken" ELSE own.call
<1>4. l = [own EXCEPT !.cancel = "done", !.call = c, !.pending = own.call # "running"]
      \/ l = [own EXCEPT !.cancel = "done"]
  BY <1>2 DEF Stage!Reached
<1>5. c \in {"idle", "running", "broken", "over"} /\ (c \in {"running", "broken"} <=> own.call \in {"running", "broken"})
  BY <1>3 DEF StageRecord
<1> HIDE DEF c
<1>6. /\ l \in StageRecord /\ l.net = own.net /\ l.left = own.left /\ l.cancel = "done" /\ l.since = own.since
      /\ l.call \in {"running", "broken"} <=> own.call \in {"running", "broken"}
  <2>1. CASE l = [own EXCEPT !.cancel = "done", !.call = c, !.pending = own.call # "running"]
    BY <1>3, <1>5, <2>1 DEF StageRecord
  <2>2. CASE l = [own EXCEPT !.cancel = "done"] BY <1>3, <2>2 DEF StageRecord
  <2>3. QED BY <1>4, <2>1, <2>2
<1>7. stageLink'[stageN] = l BY <1>2, StageAttempt
<1>8. UnderWay' BY <1>1, <1>3, <1>6, <1>7 DEF UnderWay
<1>9. Tidy(l, stageCloses[stageN], thread'[stageN], gone[stageN])
  <2>1. Tidy(own, stageCloses[stageN], thread[stageN], gone[stageN]) BY StageAttempt
  <2>2. QED BY <1>1, <1>6, <2>1 DEF Tidy
<1>10. thread' \in [StageLinks -> {"none", "at work", "finishing", "done"}]
       /\ status' \in {"none", "ok", "drop", "error", "timeout", "interrupted"}
  BY <1>1, StageAttempt
<1> HIDE DEF own
<1>11. Settled' /\ StageTypes' BY <1>1, <1>2, <1>6, <1>8, <1>9, <1>10, CallerMoves
<1>12. Counted'
  <2>1. /\ stageLink[stageN].since <= stageBegan + Timeout
        /\ stageNow <= stageLink[stageN].since + StageCancel /\ stageLink[stageN].since \in Nat
    BY <1>1, StageAttempt DEF Counted
  <2>2. stageNow \in Nat BY StageNumbers DEF StageInv
  <2>3. stageNow <= stageBegan + Timeout + StageCancel BY <2>1, <2>2, StageTime
  <2>4. /\ stageNow + StageGrace <= stageBegan + Timeout + StageCancel + StageGrace
        /\ stageNow <= stageNow + StageGrace
    BY <2>2, <2>3, StageTime
  <2>5. QED BY <1>1, <1>3, <2>4, StageAttempt DEF Counted, RunTime, Pause
<1>13. QED BY <1>11, <1>12 DEF StageInv

LEMMA GraceOverSafe ==
  ASSUME StageInv, Stage!GraceOver
  PROVE  StageInv'
<1> DEFINE l == stageLink[stageN]
<1>1. /\ stagePc = "grace" /\ stagePc' = "judge"
      /\ UNCHANGED <<stageNow, stageLink, stageCloses, stageN, tries, runs, stageBegan, thread, saw, gone, status,
                     stageUntil, spent>>
  BY DEF Stage!GraceOver
<1>2. stageLink' = [stageLink EXCEPT ![stageN] = l] /\ l \in StageRecord BY <1>1, StageAttempt
<1>3. UnderWay' BY <1>1, StageAttempt DEF UnderWay
<1>4. Tidy(l, stageCloses[stageN], thread'[stageN], gone[stageN]) BY <1>1, StageAttempt
<1>5. thread' \in [StageLinks -> {"none", "at work", "finishing", "done"}]
      /\ status' \in {"none", "ok", "drop", "error", "timeout", "interrupted"}
  BY <1>1, StageAttempt
<1> HIDE DEF l
<1>6. Settled' /\ StageTypes' BY <1>1, <1>2, <1>3, <1>4, <1>5, CallerMoves
<1>7. Counted'
  <2>1. /\ stageUntil <= stageBegan + Timeout + StageCancel + StageGrace /\ stageNow <= stageUntil
        /\ status = "timeout"
    BY <1>1, StageAttempt DEF Counted
  <2>2. stageNow <= stageBegan + Timeout + StageCancel + StageGrace
    <3>1. stageNow \in Nat /\ stageUntil \in Nat /\ stageBegan + Timeout \in Nat BY StageNumbers DEF StageInv
    <3>2. QED BY <2>1, <3>1, StageConstants
  <2>3. QED BY <1>1, <2>1, <2>2, StageAttempt DEF Counted, RunTime, Pause
<1>8. QED BY <1>6, <1>7 DEF StageInv

LEMMA JudgeSafe ==
  ASSUME StageInv, Stage!Judge
  PROVE  StageInv'
<1> DEFINE l == stageLink[stageN]
           g == thread[stageN] # "done"
<1>1. /\ stagePc = "judge" /\ stagePc' = "close" /\ gone' = [gone EXCEPT ![stageN] = g]
      /\ UNCHANGED <<stageNow, stageLink, stageCloses, stageN, tries, runs, stageBegan, thread, saw, status,
                     stageUntil, spent>>
  BY DEF Stage!Judge
<1>2. stageLink' = [stageLink EXCEPT ![stageN] = l] /\ l \in StageRecord BY <1>1, StageAttempt
<1>3. /\ gone' \in [StageLinks -> BOOLEAN] /\ (gone'[stageN] <=> g)
      /\ \A x \in StageLinks : x # stageN => gone'[x] = gone[x]
  <2>1. g \in BOOLEAN OBVIOUS
  <2> HIDE DEF g
  <2>2. QED BY <1>1, <2>1, StageAttempt
<1>4. l.net = "open" /\ thread[stageN] # "none" /\ l.cancel # "going" BY <1>1, StageAttempt DEF UnderWay
<1>5. UnderWay' BY <1>1, <1>3, <1>4 DEF UnderWay
<1>6. Tidy(l, stageCloses'[stageN], thread'[stageN], gone'[stageN])
  <2>1. Tidy(l, stageCloses[stageN], thread[stageN], gone[stageN]) BY StageAttempt
  <2>2. QED BY <1>1, <1>3, <1>4, <2>1 DEF Tidy
<1> HIDE DEF l
<1>7. ~Past(stageN)'
  <2>1. ~(stageN < stageN) BY StageNumbers DEF StageInv
  <2>2. QED BY <1>1, <2>1 DEF Past
<1>8. stageN <= stageN /\ stageN \in StageLinks BY StageNumbers DEF StageInv
<1>9. Settled' /\ stageLink' \in [StageLinks -> StageRecord]
  <2>1. \A k \in StageLinks : k # stageN =>
          stageCloses'[k] = stageCloses[k] /\ thread'[k] = thread[k] /\ gone'[k] = gone[k]
    BY <1>1, <1>3
  <2>2. stageN' = stageN BY <1>1
  <2>3. QED BY <1>2, <1>5, <1>6, <1>7, <1>8, <2>1, <2>2, LinkMoves
<1>10. StageTypes' BY <1>1, <1>3, <1>9, StageAttempt DEF StageTypes
<1>11. Counted' BY <1>1, StageAttempt DEF Counted, RunTime, Pause
<1>12. QED BY <1>9, <1>10, <1>11 DEF StageInv

\* The finally: what the caller has it closes, and what it has given up it leaves.
LEMMA ClosesIt ==
  ASSUME StageInv, Spared, stagePc = "close", UNCHANGED <<stageNow, thread, saw, gone>>,
         NEW l \in StageRecord, Stage!Decide(status, [stageLink EXCEPT ![stageN] = l]), NEW c,
         stageCloses' \in [StageLinks -> {0, 1}], stageCloses'[stageN] = c,
         \A k \in StageLinks : k # stageN => stageCloses'[k] = stageCloses[k],
         Behind(l, thread[stageN], gone[stageN]), Tidy(l, c, thread[stageN], gone[stageN])
  PROVE  StageInv'
<1>1. /\ stageNow <= stageBegan + Timeout + StageCancel + StageGrace
      /\ status = "drop" => stageNow <= stageBegan + Timeout
  BY StageAttempt DEF Counted
<1>2. status \in {"none", "ok", "drop", "error", "timeout", "interrupted"} BY StageAttempt
<1>3. Tidy(l, stageCloses'[stageN], thread[stageN], gone[stageN]) OBVIOUS
<1>4. stagePc \in {"connect", "close"} OBVIOUS
<1>5. QED BY <1>1, <1>2, <1>3, <1>4, StageDecides

LEMMA CloseItSafe ==
  ASSUME StageInv, Spared, Stage!CloseIt
  PROVE  StageInv'
<1> DEFINE own == stageLink[stageN]
           l == IF gone[stageN] THEN own ELSE [own EXCEPT !.net = "closed"]
           c == IF gone[stageN] THEN stageCloses[stageN] ELSE 1
<1>1. /\ stagePc = "close" /\ UNCHANGED <<stageNow, thread, saw, gone>>
      /\ Stage!Decide(status, [stageLink EXCEPT ![stageN] = l])
      /\ stageCloses' = [stageCloses EXCEPT ![stageN] = IF gone[stageN] THEN @ ELSE @ + 1]
  BY StageAttempt DEF Stage!CloseIt, Stage!Close
<1>2. /\ own \in StageRecord /\ stageCloses[stageN] \in {0, 1} /\ gone[stageN] \in BOOLEAN
      /\ thread[stageN] \in {"none", "at work", "finishing", "done"}
      /\ Tidy(own, stageCloses[stageN], thread[stageN], gone[stageN]) /\ own.cancel # "going"
  BY <1>1, StageAttempt DEF UnderWay
<1>3. CASE gone[stageN]
  <2>1. own.net \in {"open", "closed"} /\ l = own /\ c = stageCloses[stageN] BY <1>1, <1>3, StageAttempt DEF UnderWay
  <2>2. Behind(l, thread[stageN], gone[stageN]) BY <1>2, <1>3, <2>1 DEF Behind, Tidy
  <2>3. stageCloses' = stageCloses BY <1>1, <1>3, StageAttempt
  <2>4. stageCloses' \in [StageLinks -> {0, 1}] /\ stageCloses'[stageN] = c
        /\ \A k \in StageLinks : k # stageN => stageCloses'[k] = stageCloses[k]
    BY <2>1, <2>3, StageAttempt
  <2>5. l \in StageRecord /\ Tidy(l, c, thread[stageN], gone[stageN]) BY <1>2, <2>1
  <2>6. QED BY <1>1, <2>2, <2>4, <2>5, ClosesIt
<1>4. CASE ~gone[stageN]
  <2>1. own.net = "open" /\ thread[stageN] = "done" BY <1>1, <1>4, StageAttempt DEF UnderWay
  <2>2. /\ l \in StageRecord /\ l.net = "closed" /\ l.left = own.left /\ l.call = own.call
        /\ l.cancel = own.cancel /\ c = 1
    BY <1>2, <1>4 DEF StageRecord, StageNet
  <2>3. stageCloses[stageN] = 0 BY <1>2, <2>1 DEF Tidy
  <2>4. stageCloses[stageN] + 1 = 1 BY <2>3
  <2>5. stageCloses' = [stageCloses EXCEPT ![stageN] = 1] BY <1>1, <1>4, <2>4
  <2>6. stageCloses' \in [StageLinks -> {0, 1}] /\ stageCloses'[stageN] = c
        /\ \A k \in StageLinks : k # stageN => stageCloses'[k] = stageCloses[k]
    BY <2>2, <2>5, StageAttempt
  <2>7. Behind(l, thread[stageN], gone[stageN]) BY <1>2, <2>2 DEF Behind
  <2>8. Tidy(l, c, thread[stageN], gone[stageN]) BY <1>2, <1>4, <2>1, <2>2 DEF Tidy
  <2>9. QED BY <1>1, <2>2, <2>6, <2>7, <2>8, ClosesIt
<1>5. QED BY <1>3, <1>4

\* The clock stops where something is due.
LEMMA StageTicks ==
  ASSUME StageInv, Stage!Tick
  PROVE  StageInv'
<1>1. /\ stageNow < StageEnd /\ ~Stage!Due /\ stageNow' = stageNow + 1
      /\ UNCHANGED <<stageLink, stageCloses, stageN, tries, runs, stageBegan, stagePc, thread, saw, gone, status,
                     stageUntil, spent>>
  BY DEF Stage!Tick, Stage!own
<1>2. /\ stageNow \in Nat /\ stageBegan + Timeout \in Nat /\ stageUntil \in Nat BY StageNumbers DEF StageInv
<1>3. stageNow' \in 0..StageEnd BY <1>1, <1>2, StageConstants
<1>4. StageTypes'
  <2>1. StageTypes BY DEF StageInv
  <2>2. QED BY <1>1, <1>3, <2>1 DEF StageTypes
<1>5. Settled' BY <1>1 DEF StageInv, Settled, AllTidy, NotYet, PastBehind, Past, UnderWay
<1>6. \A u \in Nat : ~(stageNow >= u) => stageNow + 1 <= u BY <1>2
<1>7. Counted'
  <2>1. stagePc = "connect" => stageNow' <= stageBegan + Timeout
    <3>1. stagePc = "connect" => ~(stageNow >= stageBegan + Timeout) BY <1>1 DEF Stage!Due
    <3>2. QED BY <1>1, <1>2, <1>6, <3>1
  <2>2. stagePc \in {"wait", "grace", "sleep"} => stageNow' <= stageUntil
    <3>1. stagePc \in {"wait", "grace", "sleep"} => ~(stageNow >= stageUntil) BY <1>1 DEF Stage!Due
    <3>2. QED BY <1>1, <1>2, <1>6, <3>1
  <2>3. stagePc = "cancel" => stageNow' <= stageLink[stageN].since + StageCancel
    <3>1. SUFFICES ASSUME stagePc = "cancel" PROVE stageNow' <= stageLink[stageN].since + StageCancel
      OBVIOUS
    <3>2. stageLink[stageN].cancel = "going" /\ stageN \in StageLinks BY <3>1, StageAttempt DEF UnderWay
    <3>3. ~(stageNow >= stageLink[stageN].since + StageCancel)
      BY <1>1, <3>2 DEF Stage!Due, Stage!Held, StageLinks
    <3>4. stageLink[stageN].since + StageCancel \in Nat
      <4>1. stageLink[stageN].since \in Nat BY StageAttempt
      <4>2. QED BY <4>1, StageConstants
    <3>5. QED BY <1>1, <1>6, <3>3, <3>4
  <2>4. stagePc \notin {"judge", "close"} BY <1>1 DEF Stage!Due
  <2>5. Counted BY DEF StageInv
  <2>6. QED BY <1>1, <2>1, <2>2, <2>3, <2>4, <2>5 DEF Counted, RunTime, Pause
<1>8. QED BY <1>4, <1>5, <1>7 DEF StageInv

LEMMA StageStep == StageInv /\ Spared /\ [Stage!Next]_(Stage!vars) => StageInv'
<1> SUFFICES ASSUME StageInv, Spared, [Stage!Next]_(Stage!vars) PROVE StageInv'
  OBVIOUS
<1>1. CASE Stage!Caller
  <2>1. CASE Stage!Connected \/ Stage!ConnectFailed \/ Stage!ConnectTimesOut BY <2>1, StageConnects
  <2>2. CASE Stage!Awake BY <2>2, AwakeSafe
  <2>3. CASE Stage!InTime BY <2>3, InTimeSafe
  <2>4. CASE Stage!Deadline BY <2>4, DeadlineSafe
  <2>5. CASE Stage!Cancelled BY <2>5, CancelledSafe
  <2>6. CASE Stage!GraceOver BY <2>6, GraceOverSafe
  <2>7. CASE Stage!Judge BY <2>7, JudgeSafe
  <2>8. CASE Stage!CloseIt BY <2>8, CloseItSafe
  <2>9. QED BY <1>1, <2>1, <2>2, <2>3, <2>4, <2>5, <2>6, <2>7, <2>8 DEF Stage!Caller
<1>2. ASSUME NEW k \in StageLinks, Stage!CallEnds(k) PROVE StageInv' BY <1>2, CallEndsSafe
<1>3. ASSUME NEW k \in StageLinks, Stage!Finishes(k) PROVE StageInv' BY <1>3, FinishesSafe
<1>4. ASSUME NEW k \in StageLinks, Stage!Connector(k), UNCHANGED Stage!own PROVE StageInv'
  BY <1>4, ConnectorMoves
<1>5. CASE Stage!Tick BY <1>5, StageTicks
<1>6. CASE UNCHANGED Stage!vars
  <2>1. UNCHANGED <<stageNow, stageLink, stageCloses, stageN, tries, runs, stageBegan, stagePc, thread, saw, gone,
                    status, stageUntil, spent>>
    BY <1>6 DEF Stage!vars, Stage!own
  <2>2. StageTypes' BY <2>1 DEF StageInv, StageTypes
  <2>3. Settled' BY <2>1 DEF StageInv, Settled, AllTidy, NotYet, PastBehind, Past, UnderWay
  <2>4. Counted' BY <2>1 DEF StageInv, Counted, RunTime, Pause
  <2>5. QED BY <2>2, <2>3, <2>4 DEF StageInv
<1>7. ~Stage!Interrupt BY DEF Stage!Interrupt
<1>8. QED BY <1>1, <1>2, <1>3, <1>4, <1>5, <1>6, <1>7 DEF Stage!Next, StageLinks

LEMMA Bits == \A c \in {0, 1} : c <= 1 /\ c \in Nat
  OBVIOUS

\* Tools/oracle/validar_sql_oracle.py, Tools/oracle/medir_sql_oracle.py: every connection
\* of a statement is closed by one thread, once and not under its call, one that is given
\* up too, and the statement takes no longer than its attempts, graces and waits, if the
\* cancel() of one attempt takes no longer than the grace the other attempts spare.
THEOREM StatementEnds ==
  ASSUME Spared
  PROVE  Stage!Spec => [](/\ Stage!TypeOK /\ Stage!ClosedOnce /\ Stage!NeverUnderCall
                          /\ Stage!NothingLeaks /\ Stage!WorstCase)
<1>1. ASSUME StageInv
      PROVE  Stage!TypeOK /\ Stage!ClosedOnce /\ Stage!NeverUnderCall /\ Stage!NothingLeaks /\ Stage!WorstCase
  <2>1. StageTypes /\ Settled /\ Counted /\ AllTidy /\ NotYet /\ PastBehind BY <1>1 DEF StageInv, Settled
  <2>2. ASSUME NEW k \in StageLinks
        PROVE  /\ stageLink[k] \in StageRecord /\ stageCloses[k] \in {0, 1}
               /\ thread[k] \in {"none", "at work", "finishing", "done"} /\ gone[k] \in BOOLEAN
               /\ Tidy(stageLink[k], stageCloses[k], thread[k], gone[k])
    BY <2>1, <2>2 DEF StageTypes, AllTidy
  <2>3. Stage!SessionTypeOK
    <3>1. ASSUME NEW k \in StageLinks
          PROVE  /\ stageLink[k].net \in {"none", "connecting", "open", "late", "closed", "drop", "error"}
                 /\ stageLink[k].call \in {"idle", "running", "broken", "over"}
                 /\ stageLink[k].cancel \in {"none", "going", "done"}
                 /\ stageLink[k].since \in 0..StageEnd
                 /\ stageCloses[k] \in Nat
      <4>1. stageLink[k] \in StageRecord BY <2>2
      <4>2. stageCloses[k] \in Nat BY <2>2, Bits
      <4>3. QED BY <4>1, <4>2 DEF StageRecord, StageNet
    <3>2. stageNow \in 0..StageEnd BY <2>1 DEF StageTypes
    <3>3. QED BY <3>1, <3>2 DEF Stage!SessionTypeOK, StageLinks
  <2>4. Stage!TypeOK BY <2>1, <2>3 DEF StageTypes, Stage!TypeOK, StageLinks
  <2>5. ASSUME NEW k \in StageLinks
        PROVE  /\ stageCloses[k] <= 1 /\ (stageCloses[k] = 1 <=> stageLink[k].net = "closed")
               /\ stageLink[k].net = "closed" => stageLink[k].call \notin {"running", "broken"}
    <3>1. stageCloses[k] <= 1 BY <2>2, Bits
    <3>2. QED BY <2>2, <3>1 DEF Tidy
  <2>6. Stage!ClosedOnce /\ Stage!NeverUnderCall BY <2>5 DEF Stage!ClosedOnce, Stage!NeverUnderCall, StageLinks
  <2>7. Stage!NothingLeaks
    <3>1. SUFFICES ASSUME stagePc = "done", NEW k \in StageLinks
                   PROVE  /\ stageLink[k].net = "open" => thread[k] \in {"at work", "finishing"} /\ gone[k]
                          /\ stageLink[k].net = "connecting" => stageLink[k].left
      BY DEF Stage!NothingLeaks, StageLinks
    <3>2. CASE k > stageN
      <4>1. stageLink[k].net = "none" BY <2>1, <3>2 DEF NotYet, Stage!Fresh
      <4>2. QED BY <4>1
    <3>3. CASE ~(k > stageN)
      <4>1. k < stageN \/ k = stageN
        <5>1. k \in Nat /\ stageN \in Nat BY <2>1, StageOrder DEF StageTypes
        <5>2. QED BY <3>3, <5>1
      <4>2. Past(k) BY <3>1, <4>1 DEF Past
      <4>3. QED BY <2>1, <4>2 DEF PastBehind, Behind
    <3>4. QED BY <3>2, <3>3
  <2>8. Stage!WorstCase BY <2>1 DEF Counted, RunTime, Pause, Stage!WorstCase
  <2>9. QED BY <2>4, <2>6, <2>7, <2>8
<1>2. StageInv /\ [Stage!Next]_(Stage!vars) => StageInv' BY StageStep
<1>3. QED BY StageInit, <1>1, <1>2, PTL DEF Stage!Spec
-----------------------------------------------------------------------------
(* McpServer: sessions between the requests, and the windows.              *)

\* Where a request has no session yet, and where it has one.
Asking == {"guard", "acquire", "session", "spare", "dedicated"}
Using == {"cursor", "verify", "execute", "broken", "leave", "rollback", "release"}

Session == [kind : {"none", "pool", "own"}, alive : BOOLEAN, busy : BOOLEAN, cancel : BOOLEAN,
            pending : BOOLEAN, plan : BOOLEAN]
Request == [pc : {"read", "respond"} \cup Asking \cup Using, tool : Mcp!Tool, text : Mcp!Statement,
            s : 0..Sessions, fail : {"none", "refused", "error", "drop"}, fired : BOOLEAN,
            ran : BOOLEAN, waited : 0..4, early : SUBSET {"pool", "conn"}]

McpTypes ==
  /\ up \in BOOLEAN /\ faults \in 0..ServerFaults /\ pool \in BOOLEAN
  /\ sess \in [Mcp!Sid -> Session] /\ req \in Request /\ conn \in 0..Sessions
  /\ poolWait \in 0..PoolWindow /\ connWait \in 0..ConnWindow

\* Only the session of the request is in use, is being cancelled, has a break to come or
\* rows of a plan; and a break that stays is in one that will be discarded.
OfRequest(s) ==
  /\ sess[s].kind = "own" <=> s = conn
  /\ sess[s].busy => req.s = s /\ req.pc \in Using
  /\ sess[s].cancel => req.s = s /\ req.pc \in {"verify", "execute", "leave"} /\ req.fired
  /\ sess[s].pending =>
       req.s = s /\ ((req.pc = "leave" /\ req.fired) \/ (req.pc \in {"rollback", "release"} /\ Mcp!Spoilt))
  /\ sess[s].plan => req.s = s /\ req.pc \in {"leave", "rollback"} /\ req.tool = "get_query_plan"

SessionsOwned ==
  /\ req.pc \in Using => req.s # 0
  /\ req.pc = "dedicated" => conn = 0
  /\ Cardinality(Mcp!Pooled) <= PoolMax
  /\ \A s \in Mcp!Sid : OfRequest(s)

\* Within a window there is nothing that could be waited for.
Windows ==
  /\ poolWait > 0 => ~pool
  /\ connWait > 0 => conn = 0
  /\ req.early = {"pool", "conn"} => req.waited = 0 /\ (req.pc \in Asking => poolWait > 0 /\ connWait > 0)
  /\ req.pc \in {"guard", "acquire"} => req.waited = 0
  /\ req.pc = "session" => req.waited <= 1
  /\ req.pc = "spare" => req.waited <= 2
  /\ req.pc = "dedicated" => req.waited <= 3

\* What has passed the guard, and what has passed the check of its names.
Guarded ==
  /\ req.pc \in Using \cup (Asking \ {"guard"}) => ~Mcp!Blocked
  /\ req.ran \/ (req.pc = "execute" /\ req.tool = "execute_sql") => req.text \in {"read", "names"}

McpInv == McpTypes /\ SessionsOwned /\ Windows /\ Guarded

LEMMA McpConstants ==
  /\ Sessions \in Nat /\ PoolMax \in 1..(Sessions - 1) /\ PoolWindow \in Nat \ {0} /\ ConnWindow \in Nat \ {0}
  /\ ServerFaults \in Nat
  BY PartsAssumption DEF Mcp!McpAssumption

LEMMA McpCardinality == \A S : Mcp!Cardinality(S) = Cardinality(S)
  BY Zenon DEF Mcp!Cardinality, Cardinality

\* Where no session joins the pool it stays within its limit.
LEMMA PoolKept ==
  ASSUME Cardinality(Mcp!Pooled) <= PoolMax,
         \A s \in Mcp!Sid : sess'[s].kind = "pool" => sess[s].kind = "pool"
  PROVE  Cardinality(Mcp!Pooled') <= PoolMax
<1>1. IsFiniteSet(Mcp!Sid) BY McpConstants, FS_Interval DEF Mcp!Sid
<1>2. IsFiniteSet(Mcp!Pooled) BY <1>1, FS_Subset DEF Mcp!Pooled
<1>3. Mcp!Pooled' \subseteq Mcp!Pooled BY DEF Mcp!Pooled
<1>4. Cardinality(Mcp!Pooled') <= Cardinality(Mcp!Pooled) BY <1>2, <1>3, FS_Subset
<1>5. Cardinality(Mcp!Pooled') \in Nat /\ Cardinality(Mcp!Pooled) \in Nat
  BY <1>2, <1>3, FS_Subset, FS_CardinalityType
<1>6. QED BY <1>4, <1>5, McpConstants

LEMMA McpInit == Mcp!Init => McpInv
<1> SUFFICES ASSUME Mcp!Init PROVE McpInv OBVIOUS
<1>1. /\ sess = [s \in Mcp!Sid |-> Mcp!Closed] /\ req = Mcp!NoRequest /\ conn = 0
      /\ up = TRUE /\ faults = 0 /\ pool = FALSE /\ poolWait = 0 /\ connWait = 0
  BY DEF Mcp!Init
<1>2. Mcp!Closed \in Session /\ Mcp!Closed.kind = "none" /\ ~Mcp!Closed.busy /\ ~Mcp!Closed.cancel
      /\ ~Mcp!Closed.pending /\ ~Mcp!Closed.plan
  BY DEF Mcp!Closed, Session
<1>3. /\ Mcp!NoRequest \in Request /\ Mcp!NoRequest.pc = "read" /\ Mcp!NoRequest.early = {}
      /\ Mcp!NoRequest.ran = FALSE
  BY McpConstants DEF Mcp!NoRequest, Request, Mcp!Tool, Mcp!Statement
<1>4. McpTypes
  <2>1. sess \in [Mcp!Sid -> Session] BY <1>1, <1>2
  <2>2. 0 \in 0..ServerFaults /\ 0 \in 0..PoolWindow /\ 0 \in 0..ConnWindow /\ 0 \in 0..Sessions
    BY McpConstants
  <2>3. QED BY <1>1, <1>3, <2>1, <2>2 DEF McpTypes
<1>5. \A s \in Mcp!Sid : sess[s] = Mcp!Closed /\ s # conn BY <1>1 DEF Mcp!Sid
<1>6. Cardinality(Mcp!Pooled) <= PoolMax
  <2>1. Mcp!Pooled = {} BY <1>2, <1>5 DEF Mcp!Pooled
  <2>2. QED BY <2>1, FS_EmptySet, McpConstants
<1>7. SessionsOwned BY <1>1, <1>2, <1>3, <1>5, <1>6 DEF SessionsOwned, OfRequest, Using
<1>8. Windows BY <1>1, <1>3 DEF Windows, Asking
<1>9. Guarded BY <1>1, <1>3 DEF Guarded, Using, Asking
<1>10. QED BY <1>4, <1>7, <1>8, <1>9 DEF McpInv

\* Without a session of its own a request leaves them all alone.
LEMMA Quiet ==
  ASSUME McpInv, req.pc \notin Using, NEW s \in Mcp!Sid
  PROVE  ~sess[s].busy /\ ~sess[s].cancel /\ ~sess[s].pending /\ ~sess[s].plan
  BY DEF McpInv, McpTypes, SessionsOwned, OfRequest, Using, Session

\* A line comes, an answer goes, and the guard.
LEMMA ReadSafe ==
  ASSUME McpInv, Mcp!Read \/ Mcp!Respond \/ Mcp!Guard
  PROVE  McpInv'
<1>1. McpTypes /\ SessionsOwned /\ Windows /\ Guarded BY DEF McpInv
<1>2. UNCHANGED <<up, faults, sess, pool, poolWait, conn, connWait>>
  BY DEF Mcp!Read, Mcp!Respond, Mcp!Guard, Mcp!net, Mcp!links
<1>3. /\ Mcp!NoRequest \in Request /\ Mcp!NoRequest.pc = "read" /\ Mcp!NoRequest.early = {}
      /\ Mcp!NoRequest.ran = FALSE /\ Mcp!NoRequest.waited = 0
  BY McpConstants DEF Mcp!NoRequest, Request, Mcp!Tool, Mcp!Statement
<1>4. Mcp!Closing \in SUBSET {"pool", "conn"}
      /\ (Mcp!Closing = {"pool", "conn"} => poolWait > 0 /\ connWait > 0)
  BY DEF Mcp!Closing
<1>5. req \in Request BY <1>1 DEF McpTypes
<1>6. /\ req.pc \in {"read", "respond", "guard"} /\ req' \in Request
      /\ req'.pc \in {"read", "respond", "guard", "acquire"}
      /\ req'.early = {"pool", "conn"} =>
           req'.waited = 0 /\ (req'.pc \in {"guard", "acquire"} => poolWait > 0 /\ connWait > 0)
      /\ req'.pc \in {"guard", "acquire"} => req'.waited = 0
      /\ req'.pc = "acquire" => ~Mcp!Blocked'
      /\ req'.ran => req'.text \in {"read", "names"}
  <2>1. CASE Mcp!Read
    <3>1. CASE UNCHANGED req BY <1>1, <1>5, <2>1, <3>1 DEF Mcp!Read, Windows, Guarded, Asking
    <3>2. ASSUME NEW f \in {"none", "error"}, req' = [Mcp!NoRequest EXCEPT !.pc = "respond", !.fail = f]
          PROVE  req' \in Request /\ req'.pc = "respond" /\ req'.early = {} /\ req'.ran = FALSE
      BY <1>3, <3>2 DEF Request
    <3>3. ASSUME NEW tool \in Mcp!Tool, NEW text \in Mcp!Statement,
                 req' = [Mcp!NoRequest EXCEPT !.pc = "guard", !.tool = tool, !.text = text, !.early = Mcp!Closing]
          PROVE  req' \in Request /\ req'.pc = "guard" /\ req'.early = Mcp!Closing /\ req'.ran = FALSE
                 /\ req'.waited = 0
      BY <1>3, <1>4, <3>3 DEF Request, Asking
    <3>4. req.pc = "read" BY <2>1 DEF Mcp!Read
    <3>5. CASE \E f \in {"none", "error"} : req' = [Mcp!NoRequest EXCEPT !.pc = "respond", !.fail = f]
      BY <3>2, <3>4, <3>5
    <3>6. CASE \E tool \in Mcp!Tool, text \in Mcp!Statement :
                 req' = [Mcp!NoRequest EXCEPT !.pc = "guard", !.tool = tool, !.text = text, !.early = Mcp!Closing]
      BY <1>4, <3>3, <3>4, <3>6
    <3>7. QED BY <2>1, <3>1, <3>5, <3>6 DEF Mcp!Read
  <2>2. CASE Mcp!Respond BY <1>3, <2>2 DEF Mcp!Respond
  <2>3. CASE Mcp!Guard
    <3>1. req.pc = "guard" /\ req' = IF Mcp!Blocked THEN [req EXCEPT !.pc = "respond", !.fail = "refused"]
                                     ELSE [req EXCEPT !.pc = "acquire"]
      BY <2>3 DEF Mcp!Guard
    <3>2. CASE Mcp!Blocked BY <1>1, <1>5, <3>1, <3>2 DEF Request, Windows, Guarded
    <3>3. CASE ~Mcp!Blocked
      <4>1. req' = [req EXCEPT !.pc = "acquire"] BY <3>1, <3>3
      <4>2. req' \in Request /\ req'.pc = "acquire" /\ req'.text = req.text /\ req'.tool = req.tool
            /\ req'.early = req.early /\ req'.waited = req.waited /\ req'.ran = req.ran
        BY <1>5, <4>1 DEF Request, Asking
      <4>3. ~Mcp!Blocked' BY <3>3, <4>2 DEF Mcp!Blocked
      <4>4. QED BY <1>1, <3>1, <4>2, <4>3 DEF Windows, Guarded, Asking
    <3>4. QED BY <3>2, <3>3
  <2>4. QED BY <2>1, <2>2, <2>3
<1>7. McpTypes' BY <1>1, <1>2, <1>6 DEF McpTypes
<1>8. SessionsOwned'
  <2>1. \A s \in Mcp!Sid : OfRequest(s)' BY <1>1, <1>2, <1>6, Quiet DEF Using, OfRequest, SessionsOwned
  <2>2. Mcp!Pooled' = Mcp!Pooled BY <1>2 DEF Mcp!Pooled
  <2>3. QED BY <1>1, <1>2, <1>6, <2>1, <2>2 DEF SessionsOwned, Using
<1>9. Windows' BY <1>1, <1>2, <1>6 DEF Windows, Asking
<1>10. Guarded' BY <1>6 DEF Guarded, Using, Asking
<1>11. QED BY <1>7, <1>8, <1>9, <1>10 DEF McpInv

LEMMA AsksOn ==
  ASSUME McpInv, req.pc \notin Using, req'.pc \notin Using, UNCHANGED <<sess, conn>>,
         req'.pc = "dedicated" => conn = 0
  PROVE  SessionsOwned'
<1>1. \A s \in Mcp!Sid : OfRequest(s)' BY Quiet DEF McpInv, OfRequest, SessionsOwned
<1>2. Mcp!Pooled' = Mcp!Pooled BY DEF Mcp!Pooled
<1>3. QED BY <1>1, <1>2 DEF McpInv, SessionsOwned

\* The request gets a session: one at hand or a new one.
LEMMA TakesSession ==
  ASSUME McpInv, req.pc \notin Using, NEW s \in Mcp!Sid, req' = Mcp!Ready(s),
         NEW v \in Session, sess' = [sess EXCEPT ![s] = v], v.busy, ~v.cancel, ~v.pending, ~v.plan,
         v.kind = "own" <=> s = conn', \A x \in Mcp!Sid \ {s} : x = conn' <=> x = conn,
         Cardinality(Mcp!Pooled') <= PoolMax
  PROVE  /\ SessionsOwned' /\ sess' \in [Mcp!Sid -> Session] /\ req' \in Request /\ req'.pc = "cursor"
         /\ req'.early = req.early /\ req'.waited = req.waited /\ req'.ran = req.ran
         /\ req'.tool = req.tool /\ req'.text = req.text
<1>1. McpTypes BY DEF McpInv
<1>2. Mcp!Sid \subseteq 1..Sessions BY DEF Mcp!Sid
<1>3. /\ req' \in Request /\ req'.pc = "cursor" /\ req'.s = s
      /\ req'.early = req.early /\ req'.waited = req.waited /\ req'.ran = req.ran
      /\ req'.tool = req.tool /\ req'.text = req.text
  <2>1. s \in 0..Sessions BY <1>2, McpConstants
  <2>2. req \in Request /\ req' = [req EXCEPT !.pc = "cursor", !.s = s] BY <1>1 DEF McpTypes, Mcp!Ready
  <2>3. QED BY <2>1, <2>2 DEF Request, Using
<1>4. sess' \in [Mcp!Sid -> Session] BY <1>1 DEF McpTypes
<1>5. sess'[s] = v /\ \A x \in Mcp!Sid \ {s} : sess'[x] = sess[x] BY <1>1 DEF McpTypes
<1>6. ASSUME NEW x \in Mcp!Sid PROVE OfRequest(x)'
  <2>1. CASE x = s BY <1>3, <1>5, <2>1 DEF OfRequest, Using
  <2>2. CASE x # s
    <3>1. sess[x].kind = "own" <=> x = conn BY DEF McpInv, SessionsOwned, OfRequest
    <3>2. QED BY <1>5, <2>2, <3>1, Quiet DEF OfRequest
  <2>3. QED BY <2>1, <2>2
<1>7. s # 0 BY <1>2, McpConstants
<1>8. QED BY <1>3, <1>4, <1>6, <1>7 DEF SessionsOwned

\* The pool is made or not; none of these steps has a session.
LEMMA PoolSafe ==
  ASSUME McpInv, Mcp!InitPool \/ Mcp!NoInit \/ Mcp!NoPool
  PROVE  McpInv'
<1>1. McpTypes /\ SessionsOwned /\ Windows /\ Guarded BY DEF McpInv
<1>2. /\ UNCHANGED <<up, faults, sess, conn>> /\ req.pc \in {"acquire", "session"} /\ req \in Request
      /\ poolWait \in 0..PoolWindow /\ connWait \in 0..ConnWindow /\ pool \in BOOLEAN
  BY <1>1 DEF Mcp!InitPool, Mcp!NoInit, Mcp!NoPool, Mcp!net, Mcp!links, McpTypes
<1>3. req.waited \in 0..4 /\ (req.pc = "acquire" => req.waited = 0) /\ (req.pc = "session" => req.waited <= 1)
  BY <1>1, <1>2 DEF Request, Windows
<1>4. /\ {req.waited, req.waited + 1} \subseteq 0..4
      /\ req.pc = "acquire" => req.waited + 1 <= 1
      /\ req.pc = "session" => req.waited + 1 <= 2
  BY <1>2, <1>3
<1>5. /\ req' \in Request /\ req'.pc = IF req.pc = "acquire" THEN "session" ELSE "spare"
      /\ req'.early = req.early /\ req'.ran = req.ran /\ req'.tool = req.tool /\ req'.text = req.text
      /\ req'.waited \in {req.waited, req.waited + 1} /\ (~Mcp!InitPool => req'.waited = req.waited)
  <2>1. CASE Mcp!InitPool /\ ~up
    <3>1. req' = [req EXCEPT !.pc = "session", !.waited = @ + 1] /\ req.pc = "acquire"
      BY <2>1 DEF Mcp!InitPool
    <3>2. QED BY <1>2, <1>4, <2>1, <3>1 DEF Request, Asking
  <2>2. CASE ~(Mcp!InitPool /\ ~up)
    <3>1. req' = [req EXCEPT !.pc = IF req.pc = "acquire" THEN "session" ELSE "spare"]
      BY <2>2 DEF Mcp!InitPool, Mcp!NoInit, Mcp!NoPool
    <3>2. QED BY <1>2, <3>1 DEF Request, Asking
  <2>3. QED BY <2>1, <2>2
<1>6. /\ pool' \in BOOLEAN /\ poolWait' \in 0..PoolWindow /\ connWait' \in 0..ConnWindow
      /\ poolWait' > 0 => ~pool'
      /\ connWait' > 0 => connWait > 0
  <2>1. Mcp!Less(connWait) \in 0..ConnWindow /\ (Mcp!Less(connWait) > 0 => connWait > 0)
    BY <1>2, McpConstants DEF Mcp!Less
  <2>2. 0 \in 0..PoolWindow /\ PoolWindow \in 0..PoolWindow /\ ~(0 > 0) BY McpConstants
  <2>3. CASE Mcp!InitPool /\ up
    <3>1. connWait' = connWait /\ ((pool' = TRUE /\ poolWait' = 0) \/ (pool' = FALSE /\ poolWait' = PoolWindow))
      BY <2>3 DEF Mcp!InitPool
    <3>2. QED BY <1>2, <2>2, <3>1
  <2>4. CASE Mcp!InitPool /\ ~up
    <3>1. connWait' = Mcp!Less(connWait) /\ pool' = FALSE /\ poolWait' = PoolWindow BY <2>4 DEF Mcp!InitPool
    <3>2. QED BY <2>1, <2>2, <3>1
  <2>5. CASE ~Mcp!InitPool
    <3>1. UNCHANGED <<pool, poolWait, connWait>> BY <2>5 DEF Mcp!NoInit, Mcp!NoPool, Mcp!links
    <3>2. QED BY <1>1, <1>2, <3>1 DEF Windows
  <2>6. QED BY <2>3, <2>4, <2>5
<1>7. req.early = {"pool", "conn"} => ~Mcp!InitPool
  BY <1>1, <1>2 DEF Windows, Asking, Mcp!InitPool, Mcp!PoolMayBeTried
<1>8. ~Mcp!InitPool => UNCHANGED <<poolWait, connWait>> BY DEF Mcp!NoInit, Mcp!NoPool, Mcp!links
<1>9. req.early = {"pool", "conn"} => req'.waited = 0 /\ poolWait' > 0 /\ connWait' > 0
  BY <1>1, <1>2, <1>5, <1>7, <1>8 DEF Windows, Asking
<1>10. (req'.pc = "session" => req'.waited <= 1) /\ (req'.pc = "spare" => req'.waited <= 2)
  BY <1>2, <1>3, <1>4, <1>5
<1>11. McpTypes' BY <1>1, <1>2, <1>5, <1>6 DEF McpTypes
<1>12. SessionsOwned' BY <1>2, <1>5, AsksOn DEF Using
<1>13. req'.pc \in {"session", "spare"} BY <1>5
<1>14. Windows' BY <1>1, <1>2, <1>5, <1>6, <1>9, <1>10, <1>13 DEF Windows
<1>15. Guarded' BY <1>1, <1>2, <1>5, <1>13 DEF Guarded, Using, Asking, Mcp!Blocked
<1>16. QED BY <1>11, <1>12, <1>14, <1>15 DEF McpInv

\* A request that has just taken its session, with the windows as they were or open.
LEMMA TakenSafe ==
  ASSUME McpInv, SessionsOwned', McpTypes', req.pc \in {"session", "spare", "dedicated"}, req'.pc = "cursor",
         req'.early = req.early, req'.waited = req.waited, req'.ran = req.ran,
         req'.tool = req.tool, req'.text = req.text,
         poolWait' > 0 => ~pool', connWait' > 0 => conn' = 0
  PROVE  McpInv'
<1>1. Windows /\ Guarded BY DEF McpInv
<1>2. Windows' BY <1>1 DEF Windows, Asking
<1>3. Guarded' BY <1>1 DEF Guarded, Using, Asking, Mcp!Blocked
<1>4. QED BY <1>2, <1>3 DEF McpInv

\* A request that goes on without one, with nothing but the time it waited to tell.
LEMMA WithoutSafe ==
  ASSUME McpInv, SessionsOwned', McpTypes', req.pc \in {"session", "spare", "dedicated"},
         req'.pc \in {"spare", "dedicated", "respond"}, req'.early = req.early,
         req'.ran = req.ran, req'.tool = req.tool, req'.text = req.text,
         poolWait' > 0 => ~pool', connWait' > 0 => conn' = 0,
         req'.pc = "spare" => req'.waited <= 2, req'.pc = "dedicated" => req'.waited <= 3,
         req.early = {"pool", "conn"} => req'.waited = 0 /\ UNCHANGED <<poolWait, connWait>>
  PROVE  McpInv'
<1>1. Windows /\ Guarded BY DEF McpInv
<1>2. Windows' BY <1>1 DEF Windows, Asking
<1>3. Guarded' BY <1>1 DEF Guarded, Using, Asking, Mcp!Blocked
<1>4. QED BY <1>2, <1>3 DEF McpInv

LEMMA FromPoolSafe ==
  ASSUME McpInv, Mcp!FromPool
  PROVE  McpInv'
<1>1. McpTypes /\ SessionsOwned /\ Windows /\ Guarded BY DEF McpInv
<1>2. /\ req.pc = "session" /\ pool /\ UNCHANGED <<up, faults, pool, poolWait, conn, connWait>>
      /\ sess \in [Mcp!Sid -> Session] /\ req \in Request
  BY <1>1 DEF Mcp!FromPool, Mcp!net, Mcp!links, McpTypes
<1>3. poolWait' > 0 => ~pool' BY <1>1, <1>2 DEF Windows
<1>4. connWait' > 0 => conn' = 0 BY <1>1, <1>2 DEF Windows
<1>5. req.pc \notin Using BY <1>2 DEF Using
<1>6. ASSUME NEW s \in Mcp!Sid, NEW v \in Session, req' = Mcp!Ready(s), sess' = [sess EXCEPT ![s] = v],
             v.busy, ~v.cancel, ~v.pending, ~v.plan, v.kind = "own" <=> s = conn,
             Cardinality(Mcp!Pooled') <= PoolMax
      PROVE  McpInv'
  <2>1. /\ SessionsOwned' /\ sess' \in [Mcp!Sid -> Session] /\ req' \in Request /\ req'.pc = "cursor"
        /\ req'.early = req.early /\ req'.waited = req.waited /\ req'.ran = req.ran
        /\ req'.tool = req.tool /\ req'.text = req.text
    BY <1>2, <1>5, <1>6, TakesSession
  <2>2. McpTypes' BY <1>1, <1>2, <2>1 DEF McpTypes
  <2>3. QED BY <1>2, <1>3, <1>4, <2>1, <2>2, TakenSafe
<1>7. ASSUME NEW s \in Mcp!Pooled, sess' = [sess EXCEPT ![s].busy = TRUE], req' = Mcp!Ready(s)
      PROVE  McpInv'
  <2> DEFINE v == [sess[s] EXCEPT !.busy = TRUE]
  <2>1. s \in Mcp!Sid /\ sess[s] \in Session /\ sess[s].kind = "pool" BY <1>2 DEF Mcp!Pooled
  <2>2. v \in Session /\ v.busy /\ v.kind = "pool" /\ v.cancel = sess[s].cancel /\ v.pending = sess[s].pending
        /\ v.plan = sess[s].plan
    BY <2>1 DEF Session
  <2>3. ~v.cancel /\ ~v.pending /\ ~v.plan BY <1>5, <2>1, <2>2, Quiet
  <2>4. sess' = [sess EXCEPT ![s] = v] BY <1>7
  <2>5. v.kind = "own" <=> s = conn BY <1>1, <2>1, <2>2 DEF SessionsOwned, OfRequest
  <2>6. \A x \in Mcp!Sid : sess'[x].kind = "pool" => sess[x].kind = "pool" BY <1>2, <2>1, <2>4
  <2>7. Cardinality(Mcp!Pooled') <= PoolMax BY <1>1, <2>6, PoolKept DEF SessionsOwned
  <2> HIDE DEF v
  <2>8. QED BY <1>6, <1>7, <2>1, <2>2, <2>3, <2>4, <2>5, <2>7
<1>8. ASSUME NEW s \in Mcp!Free, Cardinality(Mcp!Pooled) < PoolMax, Mcp!FreshSession("pool", s), req' = Mcp!Ready(s)
      PROVE  McpInv'
  <2> DEFINE v == [Mcp!Closed EXCEPT !.kind = "pool", !.alive = TRUE, !.busy = TRUE]
  <2>1. s \in Mcp!Sid /\ sess[s].kind = "none" BY DEF Mcp!Free
  <2>2. v \in Session /\ v.busy /\ v.kind = "pool" /\ ~v.cancel /\ ~v.pending /\ ~v.plan
    BY DEF Session, Mcp!Closed
  <2>3. sess' = [sess EXCEPT ![s] = v] BY <1>8 DEF Mcp!FreshSession
  <2>4. v.kind = "own" <=> s = conn BY <1>1, <2>1, <2>2 DEF SessionsOwned, OfRequest
  <2>5. Cardinality(Mcp!Pooled') <= PoolMax
    <3>1. Mcp!Pooled' = Mcp!Pooled \cup {s} BY <1>2, <2>1, <2>2, <2>3 DEF Mcp!Pooled
    <3>2. s \notin Mcp!Pooled BY <2>1 DEF Mcp!Pooled
    <3>3. IsFiniteSet(Mcp!Pooled)
      <4>1. IsFiniteSet(Mcp!Sid) BY McpConstants, FS_Interval DEF Mcp!Sid
      <4>2. QED BY <4>1, FS_Subset DEF Mcp!Pooled
    <3>4. Cardinality(Mcp!Pooled') = Cardinality(Mcp!Pooled) + 1 BY <3>1, <3>2, <3>3, FS_AddElement
    <3>5. Cardinality(Mcp!Pooled) \in Nat BY <3>3, FS_CardinalityType
    <3>6. QED BY <1>8, <3>4, <3>5, McpConstants
  <2> HIDE DEF v
  <2>6. QED BY <1>6, <1>8, <2>1, <2>2, <2>3, <2>4, <2>5
<1>9. ASSUME req' = [req EXCEPT !.pc = "spare", !.waited = @ + 1], UNCHANGED sess
      PROVE  McpInv'
  <2>1. req.waited \in 0..4 /\ req.waited <= 1 BY <1>1, <1>2 DEF Windows, Request
  <2>2. req.waited + 1 \in 0..4 /\ req.waited + 1 <= 2 BY <2>1
  <2>3. /\ req' \in Request /\ req'.pc = "spare" /\ req'.early = req.early /\ req'.waited = req.waited + 1
        /\ req'.ran = req.ran /\ req'.tool = req.tool /\ req'.text = req.text
    BY <1>2, <1>9, <2>2 DEF Request, Asking
  <2>4. SessionsOwned' BY <1>2, <1>5, <1>9, <2>3, AsksOn DEF Using
  <2>5. McpTypes' BY <1>1, <1>2, <1>9, <2>3 DEF McpTypes
  <2>6. req.early # {"pool", "conn"} BY <1>1, <1>2 DEF Windows, Asking
  <2>7. QED BY <1>2, <1>3, <1>4, <2>2, <2>3, <2>4, <2>5, <2>6, WithoutSafe
<1>10. \/ \E s \in Mcp!Pooled : sess' = [sess EXCEPT ![s].busy = TRUE] /\ req' = Mcp!Ready(s)
       \/ Mcp!Cardinality(Mcp!Pooled) < PoolMax
          /\ \E s \in Mcp!Free : Mcp!FreshSession("pool", s) /\ req' = Mcp!Ready(s)
       \/ req' = [req EXCEPT !.pc = "spare", !.waited = @ + 1] /\ UNCHANGED sess
  BY DEF Mcp!FromPool
<1>11. QED BY <1>7, <1>8, <1>9, <1>10, McpCardinality

LEMMA SpareSafe ==
  ASSUME McpInv, Mcp!Spare
  PROVE  McpInv'
<1>1. McpTypes /\ SessionsOwned /\ Windows /\ Guarded BY DEF McpInv
<1>2. /\ req.pc = "spare" /\ UNCHANGED <<up, faults, pool, poolWait, connWait>>
      /\ sess \in [Mcp!Sid -> Session] /\ req \in Request /\ conn \in 0..Sessions /\ Sessions \in Nat
  BY <1>1, McpConstants DEF Mcp!Spare, Mcp!net, McpTypes
<1>3. (poolWait' > 0 => ~pool') /\ (connWait > 0 => conn = 0) BY <1>1, <1>2 DEF Windows
<1>4. req.pc \notin Using BY <1>2 DEF Using
<1>5. CASE conn # 0 /\ sess[conn].alive /\ up
  <2> DEFINE v == [sess[conn] EXCEPT !.busy = TRUE, !.pending = FALSE]
  <2>1. conn' = conn /\ sess' = [sess EXCEPT ![conn].busy = TRUE, ![conn].pending = FALSE] /\ req' = Mcp!Ready(conn)
    BY <1>5 DEF Mcp!Spare
  <2>2. conn \in Mcp!Sid BY <1>2, <1>5 DEF Mcp!Sid
  <2>3. sess[conn] \in Session /\ sess[conn].kind = "own" BY <1>1, <1>2, <2>2 DEF SessionsOwned, OfRequest
  <2>4. v \in Session /\ v.busy /\ ~v.pending /\ v.kind = "own" /\ v.cancel = sess[conn].cancel
        /\ v.plan = sess[conn].plan
    BY <2>3 DEF Session
  <2>5. ~v.cancel /\ ~v.plan BY <1>4, <2>2, <2>4, Quiet
  <2>6. sess' = [sess EXCEPT ![conn] = v] BY <1>2, <2>1, <2>2
  <2>7. \A x \in Mcp!Sid : sess'[x].kind = "pool" => sess[x].kind = "pool" BY <1>2, <2>2, <2>4, <2>6
  <2>8. Cardinality(Mcp!Pooled') <= PoolMax BY <1>1, <2>7, PoolKept DEF SessionsOwned
  <2> HIDE DEF v
  <2>9. /\ SessionsOwned' /\ sess' \in [Mcp!Sid -> Session] /\ req' \in Request /\ req'.pc = "cursor"
        /\ req'.early = req.early /\ req'.waited = req.waited /\ req'.ran = req.ran
        /\ req'.tool = req.tool /\ req'.text = req.text
    BY <1>4, <2>1, <2>2, <2>4, <2>5, <2>6, <2>8, TakesSession
  <2>10. McpTypes' BY <1>1, <1>2, <2>1, <2>9 DEF McpTypes
  <2>11. QED BY <1>2, <1>3, <2>1, <2>9, <2>10, TakenSafe
<1>6. CASE ~(conn # 0 /\ sess[conn].alive /\ up)
  <2> DEFINE w == IF conn # 0 /\ ~up THEN 1 ELSE 0
  <2>1. /\ sess' = IF conn = 0 THEN sess ELSE [sess EXCEPT ![conn] = Mcp!Closed]
        /\ conn' = 0 /\ req' = [req EXCEPT !.pc = "dedicated", !.waited = @ + w]
    BY <1>6 DEF Mcp!Spare
  <2>2. req.waited \in 0..4 /\ req.waited <= 2 BY <1>1, <1>2 DEF Windows, Request
  <2>3. req.waited + w \in 0..4 /\ req.waited + w <= 3 BY <2>2
  <2>4. req.early = {"pool", "conn"} => req.waited = 0 /\ conn = 0 BY <1>1, <1>2 DEF Windows, Asking
  <2>5. req.early = {"pool", "conn"} => req.waited + w = 0 BY <2>4
  <2> HIDE DEF w
  <2>6. /\ req' \in Request /\ req'.pc = "dedicated" /\ req'.early = req.early /\ req'.waited = req.waited + w
        /\ req'.ran = req.ran /\ req'.tool = req.tool /\ req'.text = req.text
    BY <1>2, <2>1, <2>3 DEF Request, Asking
  <2>7. Mcp!Closed \in Session /\ Mcp!Closed.kind = "none" /\ ~Mcp!Closed.busy /\ ~Mcp!Closed.cancel
        /\ ~Mcp!Closed.pending /\ ~Mcp!Closed.plan
    BY DEF Mcp!Closed, Session
  <2>8. sess' \in [Mcp!Sid -> Session] BY <1>2, <2>1, <2>7
  <2>9. ASSUME NEW s \in Mcp!Sid
        PROVE  OfRequest(s)' /\ (sess'[s].kind = "pool" => sess[s].kind = "pool")
    <3>1. s # 0 BY <1>2 DEF Mcp!Sid
    <3>2. sess[s].kind = "own" <=> s = conn BY <1>1 DEF SessionsOwned, OfRequest
    <3>3. sess'[s] = IF s = conn THEN Mcp!Closed ELSE sess[s] BY <1>2, <2>1, <3>1
    <3>4. ~sess[s].busy /\ ~sess[s].cancel /\ ~sess[s].pending /\ ~sess[s].plan BY <1>4, Quiet
    <3>5. QED BY <2>1, <2>7, <3>1, <3>2, <3>3, <3>4 DEF OfRequest
  <2>10. Cardinality(Mcp!Pooled') <= PoolMax BY <1>1, <2>9, PoolKept DEF SessionsOwned
  <2>11. SessionsOwned' BY <2>1, <2>6, <2>9, <2>10 DEF SessionsOwned, Using
  <2>12. 0 \in 0..Sessions BY <1>2
  <2>13. McpTypes' BY <1>1, <1>2, <2>1, <2>6, <2>8, <2>12 DEF McpTypes
  <2>14. QED BY <1>2, <1>3, <2>1, <2>3, <2>5, <2>6, <2>11, <2>13, WithoutSafe
<1>7. QED BY <1>5, <1>6

LEMMA DedicatedSafe ==
  ASSUME McpInv, Mcp!Dedicated
  PROVE  McpInv'
<1>1. McpTypes /\ SessionsOwned /\ Windows /\ Guarded BY DEF McpInv
<1>2. /\ req.pc = "dedicated" /\ conn = 0 /\ UNCHANGED <<up, faults, pool>>
      /\ sess \in [Mcp!Sid -> Session] /\ req \in Request /\ connWait \in 0..ConnWindow
      /\ poolWait \in 0..PoolWindow /\ Sessions \in Nat
  BY <1>1, McpConstants DEF Mcp!Dedicated, Mcp!net, McpTypes, SessionsOwned
<1>3. req.pc \notin Using BY <1>2 DEF Using
<1>4. req.early = {"pool", "conn"} => connWait > 0 BY <1>1, <1>2 DEF Windows, Asking
<1>5. poolWait > 0 => ~pool BY <1>1 DEF Windows
<1>6. ASSUME NEW w \in {0, 1}, req' = [req EXCEPT !.pc = "respond", !.fail = "refused", !.waited = @ + w],
             UNCHANGED <<sess, conn>>, poolWait' \in 0..PoolWindow, connWait' \in 0..ConnWindow,
             poolWait' > 0 => poolWait > 0, w = 0 => UNCHANGED <<poolWait, connWait>>,
             w = 1 => ~(connWait > 0)
      PROVE  McpInv'
  <2>1. req.waited \in 0..4 /\ req.waited <= 3 BY <1>1, <1>2 DEF Windows, Request
  <2>2. req.waited + w \in 0..4 /\ (w = 0 => req.waited + w = req.waited) BY <2>1
  <2>3. /\ req' \in Request /\ req'.pc = "respond" /\ req'.early = req.early /\ req'.waited = req.waited + w
        /\ req'.ran = req.ran /\ req'.tool = req.tool /\ req'.text = req.text
    BY <1>2, <1>6, <2>2 DEF Request
  <2>4. SessionsOwned' BY <1>2, <1>3, <1>6, <2>3, AsksOn DEF Using
  <2>5. McpTypes' BY <1>1, <1>2, <1>6, <2>3 DEF McpTypes
  <2>6. req.early = {"pool", "conn"} => w = 0 /\ req'.waited = 0 BY <1>1, <1>4, <1>6, <2>2, <2>3 DEF Windows
  <2>7. QED BY <1>2, <1>5, <1>6, <2>3, <2>4, <2>5, <2>6, WithoutSafe
<1>7. CASE Mcp!Refused /\ req' = [req EXCEPT !.pc = "respond", !.fail = "refused"]
           /\ UNCHANGED <<sess, conn, connWait, poolWait>>
  <2>1. req.waited + 0 = req.waited BY <1>2 DEF Request
  <2>2. req' = [req EXCEPT !.pc = "respond", !.fail = "refused", !.waited = @ + 0] BY <1>2, <1>7, <2>1 DEF Request
  <2>3. QED BY <1>2, <1>6, <1>7, <2>2
<1>8. ASSUME NEW s \in Mcp!Free, ~Mcp!Refused, Mcp!FreshSession("own", s), conn' = s, req' = Mcp!Ready(s),
             connWait' = 0, UNCHANGED poolWait
      PROVE  McpInv'
  <2> DEFINE v == [Mcp!Closed EXCEPT !.kind = "own", !.alive = TRUE, !.busy = TRUE]
  <2>1. s \in Mcp!Sid /\ sess[s].kind = "none" BY DEF Mcp!Free
  <2>2. v \in Session /\ v.busy /\ v.kind = "own" /\ ~v.cancel /\ ~v.pending /\ ~v.plan
    BY DEF Session, Mcp!Closed
  <2>3. sess' = [sess EXCEPT ![s] = v] BY <1>8 DEF Mcp!FreshSession
  <2>4. s \in 0..Sessions /\ \A x \in Mcp!Sid \ {s} : x # 0 /\ x # s BY <1>2, <2>1 DEF Mcp!Sid
  <2>5. \A x \in Mcp!Sid : sess'[x].kind = "pool" => sess[x].kind = "pool" BY <1>2, <2>1, <2>2, <2>3
  <2>6. Cardinality(Mcp!Pooled') <= PoolMax BY <1>1, <2>5, PoolKept DEF SessionsOwned
  <2> HIDE DEF v
  <2>7. /\ SessionsOwned' /\ sess' \in [Mcp!Sid -> Session] /\ req' \in Request /\ req'.pc = "cursor"
        /\ req'.early = req.early /\ req'.waited = req.waited /\ req'.ran = req.ran
        /\ req'.tool = req.tool /\ req'.text = req.text
    BY <1>2, <1>3, <1>8, <2>1, <2>2, <2>3, <2>4, <2>6, TakesSession
  <2>8. 0 \in 0..ConnWindow BY McpConstants
  <2>9. McpTypes' BY <1>1, <1>2, <1>8, <2>4, <2>7, <2>8 DEF McpTypes
  <2>10. QED BY <1>2, <1>5, <1>8, <2>7, <2>9, TakenSafe
<1>9. CASE /\ ~Mcp!Refused /\ connWait' = ConnWindow /\ poolWait' = Mcp!Less(poolWait)
           /\ req' = [req EXCEPT !.pc = "respond", !.fail = "refused", !.waited = @ + 1]
           /\ UNCHANGED <<sess, conn>>
  <2>1. Mcp!Less(poolWait) \in 0..PoolWindow /\ (Mcp!Less(poolWait) > 0 => poolWait > 0)
    BY <1>2, McpConstants DEF Mcp!Less
  <2>2. ConnWindow \in 0..ConnWindow BY McpConstants
  <2>3. ~(connWait > 0) BY <1>9 DEF Mcp!Refused
  <2>4. QED BY <1>6, <1>9, <2>1, <2>2, <2>3
<1>10. \/ Mcp!Refused /\ req' = [req EXCEPT !.pc = "respond", !.fail = "refused"]
          /\ UNCHANGED <<sess, conn, connWait, poolWait>>
       \/ ~Mcp!Refused /\ connWait' = 0 /\ UNCHANGED poolWait
          /\ \E s \in Mcp!Free : Mcp!FreshSession("own", s) /\ conn' = s /\ req' = Mcp!Ready(s)
       \/ ~Mcp!Refused /\ connWait' = ConnWindow /\ poolWait' = Mcp!Less(poolWait)
          /\ req' = [req EXCEPT !.pc = "respond", !.fail = "refused", !.waited = @ + 1]
          /\ UNCHANGED <<sess, conn>>
  BY DEF Mcp!Dedicated
<1>11. QED BY <1>7, <1>8, <1>9, <1>10

\* A request at work changes its own session only.
LEMMA AtWork ==
  ASSUME McpInv, req.pc \in Using, req'.pc \in Using \cup {"respond"}, req' \in Request,
         req'.s = req.s, req'.early = req.early, req'.waited = req.waited,
         req'.tool = req.tool, req'.text = req.text,
         req'.ran \/ (req'.pc = "execute" /\ req.tool = "execute_sql") => req.text \in {"read", "names"},
         sess' \in [Mcp!Sid -> Session], \A s \in Mcp!Sid : OfRequest(s)',
         \A s \in Mcp!Sid : sess'[s].kind = "pool" => sess[s].kind = "pool",
         conn' \in {0, conn}, UNCHANGED <<up, faults, pool, poolWait, connWait>>
  PROVE  McpInv'
<1>1. McpTypes /\ SessionsOwned /\ Windows /\ Guarded BY DEF McpInv
<1>2. req'.pc \notin Asking /\ req'.pc # "dedicated" BY DEF Using, Asking
<1>3. McpTypes'
  <2>1. conn' \in 0..Sessions BY <1>1, McpConstants DEF McpTypes
  <2>2. QED BY <1>1, <2>1 DEF McpTypes
<1>4. SessionsOwned'
  <2>1. Cardinality(Mcp!Pooled') <= PoolMax BY <1>1, PoolKept DEF SessionsOwned
  <2>2. req'.pc \in Using => req'.s # 0 BY <1>1 DEF SessionsOwned
  <2>3. QED BY <1>2, <2>1, <2>2 DEF SessionsOwned
<1>5. Windows'
  <2>1. connWait' > 0 => conn' = 0 BY <1>1 DEF Windows
  <2>2. req'.pc \notin {"guard", "acquire", "session", "spare", "dedicated"} BY <1>2 DEF Asking
  <2>3. QED BY <1>1, <1>2, <2>1, <2>2 DEF Windows
<1>6. Guarded'
  <2>1. ~Mcp!Blocked BY <1>1 DEF Guarded
  <2>2. ~Mcp!Blocked' BY <2>1 DEF Mcp!Blocked
  <2>3. QED BY <2>2 DEF Guarded
<1>7. QED BY <1>3, <1>4, <1>5, <1>6 DEF McpInv

\* What a discard leaves, of one session or of the dedicated one too.
LEMMA Discards ==
  ASSUME McpInv, req.pc \in {"cursor", "rollback", "release"},
         \/ Mcp!Discard(req.s)
         \/ /\ conn # 0 /\ conn' = 0
            /\ sess' = [Mcp!Discarded(req.s) EXCEPT ![conn] = [Mcp!Closed EXCEPT !.cancel = sess[conn].cancel]]
  PROVE  /\ sess' \in [Mcp!Sid -> Session] /\ conn' \in {0, conn}
         /\ \A s \in Mcp!Sid :
              /\ sess'[s].kind = "own" <=> s = conn'
              /\ sess'[s].kind = "pool" => sess[s].kind = "pool"
              /\ ~sess'[s].busy /\ ~sess'[s].cancel /\ ~sess'[s].pending /\ ~sess'[s].plan
<1>1. /\ sess \in [Mcp!Sid -> Session] /\ req.s \in Mcp!Sid /\ conn \in 0..Sessions /\ 0 \notin Mcp!Sid
      /\ conn # 0 => conn \in Mcp!Sid
  <2>1. req.s \in 0..Sessions /\ req.s # 0 BY DEF McpInv, McpTypes, Request, SessionsOwned, Using
  <2>2. conn \in 0..Sessions /\ sess \in [Mcp!Sid -> Session] BY DEF McpInv, McpTypes
  <2>3. QED BY <2>1, <2>2, McpConstants DEF Mcp!Sid
<1> DEFINE v(s) == [Mcp!Closed EXCEPT !.cancel = sess[s].cancel]
<1>2. ASSUME NEW s \in Mcp!Sid
      PROVE  /\ sess[s].kind = "own" <=> s = conn
             /\ s # req.s => ~sess[s].busy /\ ~sess[s].pending /\ ~sess[s].plan
             /\ ~sess[s].cancel /\ sess[s] \in Session
  BY <1>1 DEF McpInv, SessionsOwned, OfRequest, Session
<1>3. ASSUME NEW s \in Mcp!Sid
      PROVE  v(s) \in Session /\ v(s).kind = "none" /\ ~v(s).busy /\ ~v(s).cancel /\ ~v(s).pending /\ ~v(s).plan
  BY <1>2 DEF Mcp!Closed, Session
<1>4. CASE Mcp!Discard(req.s)
  <2>1. sess' = [sess EXCEPT ![req.s] = v(req.s)] /\ conn' = IF req.s = conn THEN 0 ELSE conn
    BY <1>4 DEF Mcp!Discard, Mcp!Discarded
  <2> HIDE DEF v
  <2>2. sess' \in [Mcp!Sid -> Session] BY <1>1, <1>3, <2>1
  <2>3. ASSUME NEW s \in Mcp!Sid PROVE sess'[s] = IF s = req.s THEN v(s) ELSE sess[s] BY <1>1, <2>1
  <2>4. QED BY <1>1, <1>2, <1>3, <2>1, <2>2, <2>3
<1>5. CASE /\ conn # 0 /\ conn' = 0
           /\ sess' = [Mcp!Discarded(req.s) EXCEPT ![conn] = [Mcp!Closed EXCEPT !.cancel = sess[conn].cancel]]
  <2>1. sess' = [[sess EXCEPT ![req.s] = v(req.s)] EXCEPT ![conn] = v(conn)] BY <1>5 DEF Mcp!Discarded
  <2>2. conn \in Mcp!Sid BY <1>1, <1>5
  <2> HIDE DEF v
  <2>3. sess' \in [Mcp!Sid -> Session] BY <1>1, <1>3, <2>1, <2>2
  <2>4. ASSUME NEW s \in Mcp!Sid PROVE sess'[s] = IF s = req.s \/ s = conn THEN v(s) ELSE sess[s]
    BY <1>1, <2>1, <2>2
  <2>5. conn' = 0 BY <1>5
  <2>6. ASSUME NEW s \in Mcp!Sid
        PROVE  /\ sess'[s].kind = "own" <=> s = conn'
               /\ sess'[s].kind = "pool" => sess[s].kind = "pool"
               /\ ~sess'[s].busy /\ ~sess'[s].cancel /\ ~sess'[s].pending /\ ~sess'[s].plan
    <3>1. CASE s = req.s \/ s = conn
      <4>1. sess'[s] = v(s) BY <2>4, <3>1
      <4>2. s # 0 BY <1>1
      <4>3. QED BY <1>3, <2>5, <4>1, <4>2
    <3>2. CASE ~(s = req.s \/ s = conn)
      <4>1. sess'[s] = sess[s] BY <2>4, <3>2
      <4>2. s # 0 BY <1>1
      <4>3. QED BY <1>2, <2>5, <3>2, <4>1, <4>2
    <3>3. QED BY <3>1, <3>2
  <2>7. conn' \in {0, conn} BY <2>5
  <2>8. QED BY <2>3, <2>6, <2>7
<1>6. QED BY <1>4, <1>5

\* The request goes on with its session, which becomes v.
LEMMA WorksOn ==
  ASSUME McpInv, req.pc \in Using, req'.pc \in Using \cup {"respond"}, req' \in Request,
         req'.s = req.s, req'.early = req.early, req'.waited = req.waited,
         req'.tool = req.tool, req'.text = req.text,
         req'.ran \/ (req'.pc = "execute" /\ req.tool = "execute_sql") => req.text \in {"read", "names"},
         UNCHANGED <<up, faults, pool, poolWait, connWait, conn>>,
         NEW v \in Session, sess' = [sess EXCEPT ![req.s] = v], v.kind = sess[req.s].kind,
         v.busy => req'.pc \in Using,
         v.cancel => req'.pc \in {"verify", "execute", "leave"} /\ req'.fired,
         v.pending => \/ req'.pc = "leave" /\ req'.fired
                      \/ req'.pc \in {"rollback", "release"} /\ Mcp!Spoilt',
         v.plan => req'.pc \in {"leave", "rollback"} /\ req'.tool = "get_query_plan"
  PROVE  McpInv'
<1>1. sess \in [Mcp!Sid -> Session] /\ sess' \in [Mcp!Sid -> Session] BY DEF McpInv, McpTypes
<1>2. req.s \in Mcp!Sid
  <2>1. req.s \in 0..Sessions /\ req.s # 0 BY DEF McpInv, McpTypes, Request, SessionsOwned
  <2>2. QED BY <2>1, McpConstants DEF Mcp!Sid
<1>3. ASSUME NEW s \in Mcp!Sid PROVE OfRequest(s)' /\ sess'[s].kind = sess[s].kind
  <2>1. OfRequest(s) BY DEF McpInv, SessionsOwned
  <2>2. CASE s = req.s
    <3>1. sess'[s] = v BY <1>1, <2>2
    <3>2. QED BY <2>1, <2>2, <3>1 DEF OfRequest
  <2>3. CASE s # req.s
    <3>1. sess'[s] = sess[s] BY <1>1, <2>3
    <3>2. ~sess[s].busy /\ ~sess[s].cancel /\ ~sess[s].pending /\ ~sess[s].plan
      BY <2>1, <2>3 DEF OfRequest
    <3>3. QED BY <2>1, <3>1, <3>2 DEF OfRequest
  <2>4. QED BY <2>2, <2>3
<1>4. conn' \in {0, conn} BY DEF Using
<1>5. QED BY <1>1, <1>3, <1>4, AtWork

\* What is known of the session of the request at work.
LEMMA OwnSession ==
  ASSUME McpInv, req.pc \in Using
  PROVE  /\ req.s \in Mcp!Sid /\ sess \in [Mcp!Sid -> Session] /\ sess[req.s] \in Session /\ req \in Request
         /\ OfRequest(req.s)
         /\ req.ran \/ (req.pc = "execute" /\ req.tool = "execute_sql") => req.text \in {"read", "names"}
         /\ ~Mcp!Blocked
<1>1. req.s \in 0..Sessions /\ req.s # 0 /\ sess \in [Mcp!Sid -> Session] /\ req \in Request
  BY DEF McpInv, McpTypes, Request, SessionsOwned
<1>2. req.s \in Mcp!Sid BY <1>1, McpConstants DEF Mcp!Sid
<1>3. QED BY <1>1, <1>2 DEF McpInv, SessionsOwned, Guarded

\* A request whose session is discarded, or one and the dedicated one, is answered.
LEMMA DiscardSafe ==
  ASSUME McpInv, req.pc \in {"cursor", "rollback", "release"},
         req' = [req EXCEPT !.pc = "respond"] \/ req' = [req EXCEPT !.pc = "respond", !.fail = "drop"],
         UNCHANGED <<up, faults, pool, poolWait, connWait>>,
         \/ Mcp!Discard(req.s)
         \/ /\ conn # 0 /\ conn' = 0
            /\ sess' = [Mcp!Discarded(req.s) EXCEPT ![conn] = [Mcp!Closed EXCEPT !.cancel = sess[conn].cancel]]
  PROVE  McpInv'
<1>1. req.pc \in Using BY DEF Using
<1>2. req \in Request /\ (req.ran => req.text \in {"read", "names"}) BY <1>1, OwnSession
<1>3. /\ req' \in Request /\ req'.pc = "respond" /\ req'.s = req.s /\ req'.early = req.early
      /\ req'.waited = req.waited /\ req'.tool = req.tool /\ req'.text = req.text /\ req'.ran = req.ran
  BY <1>2, ZenonT(40) DEF Request
<1>4. /\ sess' \in [Mcp!Sid -> Session] /\ conn' \in {0, conn}
      /\ \A s \in Mcp!Sid :
           /\ sess'[s].kind = "own" <=> s = conn'
           /\ sess'[s].kind = "pool" => sess[s].kind = "pool"
           /\ ~sess'[s].busy /\ ~sess'[s].cancel /\ ~sess'[s].pending /\ ~sess'[s].plan
  BY Discards
<1>5. \A s \in Mcp!Sid : OfRequest(s)' BY <1>4 DEF OfRequest
<1>6. \A s \in Mcp!Sid : sess'[s].kind = "pool" => sess[s].kind = "pool" BY <1>4
<1>7. sess' \in [Mcp!Sid -> Session] /\ conn' \in {0, conn} BY <1>4
<1>8. QED BY <1>1, <1>2, <1>3, <1>5, <1>6, <1>7, AtWork

\* The calls of a request: the cursor, the check of the names, the statement.
LEMMA CursorSafe ==
  ASSUME McpInv, Mcp!OpenCursor
  PROVE  McpInv'
<1>1. req.pc = "cursor" /\ UNCHANGED <<up, faults, pool, poolWait, connWait>>
  BY DEF Mcp!OpenCursor, Mcp!net
<1>2. req.pc \in Using BY <1>1 DEF Using
<1>3. /\ req.s \in Mcp!Sid /\ sess \in [Mcp!Sid -> Session] /\ sess[req.s] \in Session /\ req \in Request
      /\ OfRequest(req.s) /\ (req.ran => req.text \in {"read", "names"})
  BY <1>2, OwnSession
<1>4. CASE req' = [req EXCEPT !.pc = Mcp!FirstStep] /\ UNCHANGED <<sess, conn>>
  <2>1. /\ req' \in Request /\ req'.pc \in {"verify", "execute"} /\ req'.s = req.s /\ req'.early = req.early
        /\ req'.waited = req.waited /\ req'.tool = req.tool /\ req'.text = req.text /\ req'.ran = req.ran
        /\ (req'.pc = "execute" => req.tool # "execute_sql")
    BY <1>3, <1>4 DEF Request, Mcp!FirstStep, Using
  <2>2. sess' = [sess EXCEPT ![req.s] = sess[req.s]] BY <1>3, <1>4
  <2>3. ~sess[req.s].cancel /\ ~sess[req.s].pending /\ ~sess[req.s].plan
    BY <1>1, <1>3 DEF OfRequest, Session
  <2>4. req'.pc \in Using BY <2>1 DEF Using
  <2>5. QED BY <1>1, <1>2, <1>3, <1>4, <2>1, <2>2, <2>3, <2>4, WorksOn
<1>5. CASE Mcp!Discard(req.s) /\ req' = [req EXCEPT !.pc = "respond", !.fail = "drop"]
  BY <1>1, <1>5, DiscardSafe
<1>6. QED BY <1>4, <1>5 DEF Mcp!OpenCursor

\* A call that fails leaves a session that is at most dead.
LEMMA CallFailsSafe ==
  ASSUME McpInv, req.pc \in {"verify", "execute"}, Mcp!CallFails,
         UNCHANGED <<up, faults, pool, poolWait, connWait, conn>>
  PROVE  McpInv'
<1>1. req.pc \in Using BY DEF Using
<1>2. /\ req.s \in Mcp!Sid /\ sess \in [Mcp!Sid -> Session] /\ sess[req.s] \in Session /\ req \in Request
      /\ OfRequest(req.s) /\ (req.ran => req.text \in {"read", "names"})
  BY <1>1, OwnSession
<1>3. ~sess[req.s].pending /\ ~sess[req.s].plan BY <1>2 DEF OfRequest, Session
<1>4. \E f \in {"error", "drop"} : req' = [req EXCEPT !.pc = "leave", !.fail = f]
  BY DEF Mcp!CallFails, Mcp!Failed
<1>5. /\ req' \in Request /\ req'.pc = "leave" /\ req'.s = req.s /\ req'.early = req.early
      /\ req'.waited = req.waited /\ req'.tool = req.tool /\ req'.text = req.text /\ req'.ran = req.ran
      /\ req'.fired = req.fired /\ req'.pc \in Using
  BY <1>2, <1>4, ZenonT(40) DEF Request, Using
<1>6. PICK v \in Session : /\ sess' = [sess EXCEPT ![req.s] = v] /\ v.kind = sess[req.s].kind
                           /\ v.cancel = sess[req.s].cancel /\ ~v.pending /\ ~v.plan
  <2>1. CASE UNCHANGED sess
    <3>1. sess' = [sess EXCEPT ![req.s] = sess[req.s]] BY <1>2, <2>1
    <3>2. QED BY <1>2, <1>3, <3>1
  <2>2. CASE sess' = [sess EXCEPT ![req.s].alive = FALSE]
    <3> DEFINE v == [sess[req.s] EXCEPT !.alive = FALSE]
    <3>1. v \in Session /\ v.kind = sess[req.s].kind /\ v.cancel = sess[req.s].cancel
          /\ v.pending = sess[req.s].pending /\ v.plan = sess[req.s].plan
      BY <1>2 DEF Session
    <3>2. sess' = [sess EXCEPT ![req.s] = v] BY <2>2
    <3> HIDE DEF v
    <3>3. QED BY <1>3, <3>1, <3>2
  <2>3. QED BY <1>3, <2>1, <2>2 DEF Mcp!CallFails
<1>7. v.cancel => req'.pc \in {"verify", "execute", "leave"} /\ req'.fired BY <1>2, <1>5, <1>6 DEF OfRequest
<1>8. QED BY <1>1, <1>2, <1>5, <1>6, <1>7, WorksOn

LEMMA CallSafe ==
  ASSUME McpInv, Mcp!Verify \/ Mcp!Execute
  PROVE  McpInv'
<1>1. req.pc \in {"verify", "execute"} /\ UNCHANGED <<up, faults, pool, poolWait, connWait, conn>>
  BY DEF Mcp!Verify, Mcp!Execute, Mcp!net, Mcp!links
<1>2. req.pc \in Using BY <1>1 DEF Using
<1>3. /\ req.s \in Mcp!Sid /\ sess \in [Mcp!Sid -> Session] /\ sess[req.s] \in Session /\ req \in Request
      /\ OfRequest(req.s) /\ ~Mcp!Blocked /\ (req.ran => req.text \in {"read", "names"})
      /\ (req.pc = "execute" /\ req.tool = "execute_sql" => req.text \in {"read", "names"})
  BY <1>2, OwnSession
<1>4. ~sess[req.s].pending /\ ~sess[req.s].plan BY <1>1, <1>3 DEF OfRequest, Session
<1>5. CASE Mcp!CallFails BY <1>1, <1>5, CallFailsSafe
<1>6. CASE req.pc = "verify" /\ UNCHANGED sess
           /\ req' = IF req.text = "function" THEN [req EXCEPT !.pc = "leave", !.fail = "refused"]
                     ELSE [req EXCEPT !.pc = "execute"]
  <2>1. /\ req' \in Request /\ req'.pc \in {"leave", "execute"} /\ req'.s = req.s /\ req'.early = req.early
        /\ req'.waited = req.waited /\ req'.tool = req.tool /\ req'.text = req.text /\ req'.ran = req.ran
        /\ req'.fired = req.fired /\ req'.pc \in Using /\ (req'.pc = "execute" => req.text # "function")
    BY <1>3, <1>6 DEF Request, Using
  <2>2. req'.pc = "execute" /\ req.tool = "execute_sql" => req.text \in {"read", "names"}
    BY <1>3, <2>1 DEF Mcp!Blocked, Request, Mcp!Statement
  <2>3. sess' = [sess EXCEPT ![req.s] = sess[req.s]] BY <1>3, <1>6
  <2>4. sess[req.s].cancel => req'.pc \in {"verify", "execute", "leave"} /\ req'.fired
    BY <1>3, <2>1 DEF OfRequest
  <2>5. QED BY <1>1, <1>2, <1>3, <1>4, <2>1, <2>2, <2>3, <2>4, WorksOn
<1>7. CASE /\ req.pc = "execute"
           /\ req' = [req EXCEPT !.pc = "leave", !.ran = (req.tool = "execute_sql")]
           /\ sess' = [sess EXCEPT ![req.s].plan = (req.tool = "get_query_plan")]
  <2> DEFINE v == [sess[req.s] EXCEPT !.plan = (req.tool = "get_query_plan")]
  <2>1. /\ req' \in Request /\ req'.pc = "leave" /\ req'.s = req.s /\ req'.early = req.early
        /\ req'.waited = req.waited /\ req'.tool = req.tool /\ req'.text = req.text
        /\ req'.ran = (req.tool = "execute_sql") /\ req'.fired = req.fired /\ req'.pc \in Using
    BY <1>3, <1>7 DEF Request, Using
  <2>2. req'.ran \/ (req'.pc = "execute" /\ req.tool = "execute_sql") => req.text \in {"read", "names"}
    BY <1>3, <1>7, <2>1
  <2>3. v \in Session /\ v.kind = sess[req.s].kind /\ v.cancel = sess[req.s].cancel
        /\ v.pending = sess[req.s].pending /\ (v.plan => req.tool = "get_query_plan")
    BY <1>3 DEF Session
  <2>4. sess' = [sess EXCEPT ![req.s] = v] BY <1>7
  <2>5. v.cancel => req'.pc \in {"verify", "execute", "leave"} /\ req'.fired
    BY <1>3, <2>1, <2>3 DEF OfRequest
  <2> HIDE DEF v
  <2>6. QED BY <1>1, <1>2, <1>3, <1>4, <2>1, <2>2, <2>3, <2>4, <2>5, WorksOn
<1>8. QED BY <1>5, <1>6, <1>7 DEF Mcp!Verify, Mcp!Execute

\* The watchdog, and what its cancel() meets.
LEMMA FireSafe ==
  ASSUME McpInv, Mcp!Fire
  PROVE  McpInv'
<1>1. /\ req.pc \in {"verify", "execute"} /\ UNCHANGED <<up, faults, pool, poolWait, connWait, conn>>
      /\ req' = [req EXCEPT !.fired = TRUE] /\ sess' = [sess EXCEPT ![req.s].cancel = TRUE]
  BY DEF Mcp!Fire, Mcp!net, Mcp!links
<1>2. req.pc \in Using BY <1>1 DEF Using
<1>3. /\ req.s \in Mcp!Sid /\ sess \in [Mcp!Sid -> Session] /\ sess[req.s] \in Session /\ req \in Request
      /\ OfRequest(req.s) /\ (req.ran => req.text \in {"read", "names"})
      /\ (req.pc = "execute" /\ req.tool = "execute_sql" => req.text \in {"read", "names"})
  BY <1>2, OwnSession
<1> DEFINE v == [sess[req.s] EXCEPT !.cancel = TRUE]
<1>4. /\ req' \in Request /\ req'.pc = req.pc /\ req'.s = req.s /\ req'.early = req.early
      /\ req'.waited = req.waited /\ req'.tool = req.tool /\ req'.text = req.text /\ req'.ran = req.ran
      /\ req'.fired = TRUE
  BY <1>1, <1>3 DEF Request
<1>5. v \in Session /\ v.kind = sess[req.s].kind /\ v.pending = sess[req.s].pending /\ v.plan = sess[req.s].plan
  BY <1>3 DEF Session
<1>6. sess' = [sess EXCEPT ![req.s] = v] BY <1>1
<1>7. ~sess[req.s].pending /\ ~sess[req.s].plan BY <1>1, <1>3 DEF OfRequest, Session
<1> HIDE DEF v
<1>8. QED BY <1>1, <1>2, <1>3, <1>4, <1>5, <1>6, <1>7, WorksOn, ZenonT(40)

LEMMA CancelSafe ==
  ASSUME McpInv, NEW s \in Mcp!Sid, Mcp!CancelReaches(s)
  PROVE  McpInv'
<1> DEFINE met == req.s = s /\ req.pc \in {"verify", "execute"}
<1>1. /\ sess[s].cancel /\ UNCHANGED <<up, faults, pool, poolWait, connWait, conn>>
      /\ req' = IF met THEN [req EXCEPT !.pc = "broken"] ELSE req
      /\ sess' = [sess EXCEPT ![s].cancel = FALSE, ![s].pending = ~met /\ sess[s].kind # "none"]
  BY DEF Mcp!CancelReaches, Mcp!net, Mcp!links
<1>2. req.s = s /\ req.pc \in {"verify", "execute", "leave"} /\ req.fired
  BY <1>1 DEF McpInv, SessionsOwned, OfRequest
<1>3. req.pc \in Using BY <1>2 DEF Using
<1>4. /\ sess \in [Mcp!Sid -> Session] /\ sess[s] \in Session /\ req \in Request
      /\ OfRequest(s) /\ (req.ran => req.text \in {"read", "names"})
      /\ (req.pc = "execute" /\ req.tool = "execute_sql" => req.text \in {"read", "names"})
  BY <1>2, <1>3, OwnSession
<1> DEFINE v == [sess[s] EXCEPT !.cancel = FALSE, !.pending = ~met /\ sess[s].kind # "none"]
<1>5. /\ req' \in Request /\ req'.pc \in {req.pc, "broken"} /\ (met => req'.pc = "broken")
      /\ (~met => req'.pc = req.pc) /\ req'.s = req.s /\ req'.early = req.early
      /\ req'.waited = req.waited /\ req'.tool = req.tool /\ req'.text = req.text /\ req'.ran = req.ran
      /\ req'.fired = req.fired
  BY <1>1, <1>4 DEF Request, Using
<1>6. v \in Session /\ v.kind = sess[s].kind /\ ~v.cancel /\ v.plan = sess[s].plan
      /\ (v.pending => ~met)
  BY <1>4 DEF Session
<1>7. sess' = [sess EXCEPT ![req.s] = v] BY <1>1, <1>2, <1>4
<1>8. met <=> req.pc \in {"verify", "execute"} BY <1>2
<1> HIDE DEF v, met
<1>9. req'.pc \in Using /\ (v.pending => req'.pc = "leave" /\ req'.fired) BY <1>2, <1>5, <1>6, <1>8 DEF Using
<1>10. v.plan => req'.pc \in {"leave", "rollback"} /\ req'.tool = "get_query_plan"
  BY <1>2, <1>4, <1>5, <1>6, <1>8 DEF OfRequest
<1>11. req'.ran \/ (req'.pc = "execute" /\ req.tool = "execute_sql") => req.text \in {"read", "names"}
  BY <1>4, <1>5
<1>12. QED BY <1>1, <1>2, <1>3, <1>5, <1>6, <1>7, <1>9, <1>10, <1>11, WorksOn

\* The call is over: cancel_after ends, the plan is undone, the session goes back.
LEMMA EndSafe ==
  ASSUME McpInv, Mcp!CallCancelled \/ Mcp!Leave \/ Mcp!Rollback
  PROVE  McpInv'
<1>1. req.pc \in {"broken", "leave", "rollback"} /\ UNCHANGED <<up, faults, pool, poolWait, connWait, conn>>
  BY DEF Mcp!CallCancelled, Mcp!Leave, Mcp!Rollback, Mcp!net, Mcp!links
<1>2. req.pc \in Using BY <1>1 DEF Using
<1>3. /\ req.s \in Mcp!Sid /\ sess \in [Mcp!Sid -> Session] /\ sess[req.s] \in Session /\ req \in Request
      /\ OfRequest(req.s) /\ (req.ran => req.text \in {"read", "names"})
  BY <1>2, OwnSession
<1>4. CASE Mcp!CallCancelled
  <2>1. req.pc = "broken" /\ UNCHANGED sess /\ req' = [req EXCEPT !.pc = "leave", !.fail = "error"]
    BY <1>4 DEF Mcp!CallCancelled, Mcp!Failed
  <2>2. /\ req' \in Request /\ req'.pc = "leave" /\ req'.s = req.s /\ req'.early = req.early
        /\ req'.waited = req.waited /\ req'.tool = req.tool /\ req'.text = req.text /\ req'.ran = req.ran
        /\ req'.pc \in Using
    BY <1>3, <2>1 DEF Request, Using
  <2>3. ~sess[req.s].cancel /\ ~sess[req.s].pending /\ ~sess[req.s].plan
    BY <1>3, <2>1 DEF OfRequest, Session
  <2>4. sess' = [sess EXCEPT ![req.s] = sess[req.s]] BY <1>3, <2>1
  <2>5. QED BY <1>1, <1>2, <1>3, <2>2, <2>3, <2>4, WorksOn
<1>5. CASE Mcp!Leave
  <2> DEFINE pings == req.fail \in {"none", "refused"} /\ req.fired
             v == IF pings THEN [sess[req.s] EXCEPT !.pending = FALSE] ELSE sess[req.s]
  <2>1. /\ req.pc = "leave" /\ ~sess[req.s].cancel
        /\ sess' = IF pings THEN [sess EXCEPT ![req.s].pending = FALSE] ELSE sess
        /\ req' = [req EXCEPT !.pc = IF req.tool = "get_query_plan" THEN "rollback" ELSE "release"]
    BY <1>5 DEF Mcp!Leave
  <2>2. /\ req' \in Request /\ req'.pc = (IF req.tool = "get_query_plan" THEN "rollback" ELSE "release")
        /\ req'.s = req.s /\ req'.early = req.early /\ req'.waited = req.waited /\ req'.tool = req.tool
        /\ req'.text = req.text /\ req'.ran = req.ran /\ req'.fired = req.fired /\ req'.fail = req.fail
    BY <1>3, <2>1 DEF Request, Using
  <2>3. sess' = [sess EXCEPT ![req.s] = v]
    <3>1. CASE pings BY <2>1, <3>1
    <3>2. CASE ~pings BY <1>3, <2>1, <3>2
    <3>3. QED BY <3>1, <3>2
  <2>4. v \in Session /\ v.kind = sess[req.s].kind /\ v.cancel = sess[req.s].cancel
        /\ v.plan = sess[req.s].plan /\ (v.pending => sess[req.s].pending /\ ~pings)
    <3>1. CASE pings BY <1>3, <3>1 DEF Session
    <3>2. CASE ~pings BY <1>3, <3>2 DEF Session
    <3>3. QED BY <3>1, <3>2
  <2>5. v.pending => Mcp!Spoilt'
    <3>1. sess[req.s].pending => req.fired BY <1>3, <2>1 DEF OfRequest
    <3>2. req.fail \in {"none", "refused", "error", "drop"} BY <1>3 DEF Request
    <3>3. QED BY <2>2, <2>4, <3>1, <3>2 DEF Mcp!Spoilt
  <2>6. v.plan => req'.pc = "rollback" /\ req'.tool = "get_query_plan" BY <1>3, <2>2, <2>4 DEF OfRequest
  <2>7. ~v.cancel BY <2>1, <2>4
  <2> HIDE DEF v, pings
  <2>8. req'.pc \in {"rollback", "release"} /\ req'.pc \in Using BY <2>2 DEF Using
  <2>9. QED BY <1>1, <1>2, <1>3, <2>2, <2>3, <2>4, <2>5, <2>6, <2>7, <2>8, WorksOn
<1>6. CASE Mcp!Rollback
  <2> DEFINE v == [sess[req.s] EXCEPT !.plan = FALSE, !.pending = FALSE]
  <2>1. /\ req.pc = "rollback" /\ req' = [req EXCEPT !.pc = "release"]
        /\ sess' = [sess EXCEPT ![req.s].plan = FALSE, ![req.s].pending = FALSE]
    BY <1>6 DEF Mcp!Rollback
  <2>2. /\ req' \in Request /\ req'.pc = "release" /\ req'.s = req.s /\ req'.early = req.early
        /\ req'.waited = req.waited /\ req'.tool = req.tool /\ req'.text = req.text /\ req'.ran = req.ran
        /\ req'.pc \in Using
    BY <1>3, <2>1 DEF Request, Using
  <2>3. sess' = [sess EXCEPT ![req.s] = v] BY <1>3, <2>1
  <2>4. v \in Session /\ v.kind = sess[req.s].kind /\ v.cancel = sess[req.s].cancel /\ ~v.plan /\ ~v.pending
    BY <1>3 DEF Session
  <2>5. ~v.cancel BY <1>3, <2>1, <2>4 DEF OfRequest
  <2> HIDE DEF v
  <2>6. QED BY <1>1, <1>2, <1>3, <2>2, <2>3, <2>4, <2>5, WorksOn
<1>7. QED BY <1>4, <1>5, <1>6

LEMMA ReleaseSafe ==
  ASSUME McpInv, Mcp!RollbackFails \/ Mcp!Release
  PROVE  McpInv'
<1>1. /\ req.pc \in {"rollback", "release"} /\ UNCHANGED <<up, faults, pool, poolWait, connWait>>
      /\ req' = [req EXCEPT !.pc = "respond"]
  BY DEF Mcp!RollbackFails, Mcp!Release, Mcp!net
<1>2. CASE \/ Mcp!Discard(req.s)
           \/ /\ conn # 0 /\ conn' = 0
              /\ sess' = [Mcp!Discarded(req.s) EXCEPT ![conn] = [Mcp!Closed EXCEPT !.cancel = sess[conn].cancel]]
  BY <1>1, <1>2, DiscardSafe
<1>3. CASE /\ req.pc = "release" /\ ~Mcp!Spoilt /\ UNCHANGED conn
           /\ \E a \in {sess[req.s].alive, FALSE} :
                sess' = [sess EXCEPT ![req.s].busy = FALSE, ![req.s].alive = a]
  <2>1. req.pc \in Using BY <1>1 DEF Using
  <2>2. /\ req.s \in Mcp!Sid /\ sess \in [Mcp!Sid -> Session] /\ sess[req.s] \in Session /\ req \in Request
        /\ OfRequest(req.s) /\ (req.ran => req.text \in {"read", "names"})
    BY <2>1, OwnSession
  <2>3. PICK a \in {sess[req.s].alive, FALSE} :
          sess' = [sess EXCEPT ![req.s].busy = FALSE, ![req.s].alive = a]
    BY <1>3
  <2> DEFINE v == [sess[req.s] EXCEPT !.busy = FALSE, !.alive = a]
  <2>4. /\ req' \in Request /\ req'.pc = "respond" /\ req'.s = req.s /\ req'.early = req.early
        /\ req'.waited = req.waited /\ req'.tool = req.tool /\ req'.text = req.text /\ req'.ran = req.ran
    BY <1>1, <2>2 DEF Request
  <2>5. sess' = [sess EXCEPT ![req.s] = v] BY <2>2, <2>3
  <2>6. a \in BOOLEAN BY <2>2 DEF Session
  <2>7. /\ v \in Session /\ v.kind = sess[req.s].kind /\ ~v.busy /\ v.cancel = sess[req.s].cancel
        /\ v.pending = sess[req.s].pending /\ v.plan = sess[req.s].plan
    BY <2>2, <2>6 DEF Session
  <2>8. ~v.cancel /\ ~v.pending /\ ~v.plan BY <1>3, <2>2, <2>7 DEF OfRequest
  <2> HIDE DEF v
  <2>9. QED BY <1>1, <1>3, <2>1, <2>2, <2>4, <2>5, <2>7, <2>8, WorksOn
<1>4. \/ Mcp!Discard(req.s)
      \/ /\ conn # 0 /\ conn' = 0
         /\ sess' = [Mcp!Discarded(req.s) EXCEPT ![conn] = [Mcp!Closed EXCEPT !.cancel = sess[conn].cancel]]
      \/ /\ req.pc = "release" /\ ~Mcp!Spoilt /\ UNCHANGED conn
         /\ \E a \in {sess[req.s].alive, FALSE} :
              sess' = [sess EXCEPT ![req.s].busy = FALSE, ![req.s].alive = a]
  <2>1. CASE Mcp!RollbackFails BY <2>1 DEF Mcp!RollbackFails
  <2>2. CASE Mcp!Release /\ Mcp!Spoilt BY <2>2 DEF Mcp!Release
  <2>3. CASE Mcp!Release /\ ~Mcp!Spoilt
    <3>1. /\ req.pc = "release" /\ UNCHANGED conn
          /\ \/ sess' = [sess EXCEPT ![req.s].busy = FALSE]
             \/ sess' = [sess EXCEPT ![req.s].busy = FALSE, ![req.s].alive = FALSE]
      BY <2>3 DEF Mcp!Release
    <3>2. /\ req.s \in Mcp!Sid /\ sess \in [Mcp!Sid -> Session] /\ sess[req.s] \in Session
      <4>1. req.pc \in Using BY <3>1 DEF Using
      <4>2. QED BY <4>1, OwnSession
    <3>3. CASE sess' = [sess EXCEPT ![req.s].busy = FALSE]
      <4>1. [sess[req.s] EXCEPT !.busy = FALSE] = [sess[req.s] EXCEPT !.busy = FALSE, !.alive = sess[req.s].alive]
        BY <3>2 DEF Session
      <4>2. sess' = [sess EXCEPT ![req.s] = [sess[req.s] EXCEPT !.busy = FALSE]] BY <3>3
      <4>3. sess' = [sess EXCEPT ![req.s].busy = FALSE, ![req.s].alive = sess[req.s].alive]
        BY <3>2, <4>1, <4>2
      <4>4. QED BY <2>3, <3>1, <4>3
    <3>4. QED BY <2>3, <3>1, <3>3
  <2>4. QED BY <2>1, <2>2, <2>3
<1>5. QED BY <1>2, <1>3, <1>4

\* The network changes and time passes: a session may die, a window becomes shorter.
LEMMA WorldSafe ==
  ASSUME McpInv, Mcp!NetworkChanges \/ Mcp!Tick
  PROVE  McpInv'
<1>1. McpTypes /\ SessionsOwned /\ Windows /\ Guarded BY DEF McpInv
<1>2. CASE Mcp!NetworkChanges
  <2>1. /\ UNCHANGED <<pool, poolWait, conn, connWait, req, served>> /\ up' \in BOOLEAN
        /\ faults < ServerFaults /\ faults' = faults + 1
    BY <1>2 DEF Mcp!NetworkChanges, Mcp!links
  <2>2. PICK dead \in SUBSET Mcp!Sid :
          sess' = [s \in Mcp!Sid |-> IF s \in dead THEN [sess[s] EXCEPT !.alive = FALSE] ELSE sess[s]]
    BY <1>2 DEF Mcp!NetworkChanges
  <2>3. ASSUME NEW s \in Mcp!Sid
        PROVE  /\ sess'[s] \in Session /\ sess'[s].kind = sess[s].kind /\ sess'[s].busy = sess[s].busy
               /\ sess'[s].cancel = sess[s].cancel /\ sess'[s].pending = sess[s].pending
               /\ sess'[s].plan = sess[s].plan
    <3>1. sess[s] \in Session BY <1>1 DEF McpTypes
    <3>2. sess'[s] = IF s \in dead THEN [sess[s] EXCEPT !.alive = FALSE] ELSE sess[s] BY <2>2
    <3>3. QED BY <3>1, <3>2 DEF Session
  <2>4. sess' \in [Mcp!Sid -> Session] BY <2>2, <2>3
  <2>5. faults' \in 0..ServerFaults BY <1>1, <2>1, McpConstants DEF McpTypes
  <2>6. McpTypes' BY <1>1, <2>1, <2>4, <2>5 DEF McpTypes
  <2>7. Cardinality(Mcp!Pooled') <= PoolMax BY <1>1, <2>3, PoolKept DEF SessionsOwned
  <2>8. ASSUME NEW s \in Mcp!Sid PROVE OfRequest(s)'
    <3>1. OfRequest(s) BY <1>1 DEF SessionsOwned
    <3>2. Mcp!Spoilt' = Mcp!Spoilt BY <2>1 DEF Mcp!Spoilt
    <3>3. QED BY <2>1, <2>3, <3>1, <3>2 DEF OfRequest
  <2>9. SessionsOwned' BY <1>1, <2>1, <2>7, <2>8 DEF SessionsOwned
  <2>10. Windows' BY <1>1, <2>1 DEF Windows
  <2>11. Guarded' BY <1>1, <2>1 DEF Guarded, Mcp!Blocked
  <2>12. QED BY <2>6, <2>9, <2>10, <2>11 DEF McpInv
<1>3. CASE Mcp!Tick
  <2>1. /\ req.pc = "read" /\ UNCHANGED <<up, faults, sess, pool, conn, req>>
        /\ poolWait' = Mcp!Less(poolWait) /\ connWait' = Mcp!Less(connWait)
    BY <1>3 DEF Mcp!Tick, Mcp!net
  <2>2. /\ poolWait' \in 0..PoolWindow /\ (poolWait' > 0 => poolWait > 0)
        /\ connWait' \in 0..ConnWindow /\ (connWait' > 0 => connWait > 0)
    BY <1>1, <2>1, McpConstants DEF Mcp!Less, McpTypes
  <2>3. McpTypes' BY <1>1, <2>1, <2>2 DEF McpTypes
  <2>4. SessionsOwned' BY <1>1, <2>1, AsksOn DEF Using, McpInv
  <2>5. Windows' BY <1>1, <2>1, <2>2 DEF Windows, Asking
  <2>6. Guarded' BY <1>1, <2>1 DEF Guarded, Mcp!Blocked
  <2>7. QED BY <2>3, <2>4, <2>5, <2>6 DEF McpInv
<1>4. QED BY <1>2, <1>3

LEMMA McpStep == McpInv /\ [Mcp!Next]_(Mcp!vars) => McpInv'
<1> SUFFICES ASSUME McpInv, [Mcp!Next]_(Mcp!vars) PROVE McpInv' OBVIOUS
<1>1. CASE Mcp!Read \/ Mcp!Respond \/ Mcp!Guard BY <1>1, ReadSafe
<1>2. CASE Mcp!InitPool \/ Mcp!NoInit \/ Mcp!NoPool BY <1>2, PoolSafe
<1>3. CASE Mcp!FromPool BY <1>3, FromPoolSafe
<1>4. CASE Mcp!Spare BY <1>4, SpareSafe
<1>5. CASE Mcp!Dedicated BY <1>5, DedicatedSafe
<1>6. CASE Mcp!OpenCursor BY <1>6, CursorSafe
<1>7. CASE Mcp!Verify \/ Mcp!Execute BY <1>7, CallSafe
<1>8. CASE Mcp!CallCancelled \/ Mcp!Leave \/ Mcp!Rollback BY <1>8, EndSafe
<1>9. CASE Mcp!RollbackFails \/ Mcp!Release BY <1>9, ReleaseSafe
<1>10. CASE Mcp!Fire BY <1>10, FireSafe
<1>11. CASE \E s \in Mcp!Sid : Mcp!CancelReaches(s) BY <1>11, CancelSafe
<1>12. CASE Mcp!NetworkChanges \/ Mcp!Tick BY <1>12, WorldSafe
<1>13. ~Mcp!ReadForeign BY DEF Mcp!ReadForeign
<1>14. CASE UNCHANGED Mcp!vars
  <2>1. UNCHANGED <<up, faults, sess, pool, poolWait, conn, connWait, req, served>>
    BY <1>14 DEF Mcp!vars, Mcp!net, Mcp!links
  <2>2. McpTypes' BY <2>1 DEF McpInv, McpTypes
  <2>3. Mcp!Pooled' = Mcp!Pooled BY <2>1 DEF Mcp!Pooled
  <2>4. \A s \in Mcp!Sid : OfRequest(s)' BY <2>1 DEF McpInv, SessionsOwned, OfRequest, Mcp!Spoilt
  <2>5. SessionsOwned' BY <2>1, <2>3, <2>4 DEF McpInv, SessionsOwned
  <2>6. Windows' BY <2>1 DEF McpInv, Windows
  <2>7. Guarded' BY <2>1 DEF McpInv, Guarded, Mcp!Blocked
  <2>8. QED BY <2>2, <2>5, <2>6, <2>7 DEF McpInv
<1>15. QED
  BY <1>1, <1>2, <1>3, <1>4, <1>5, <1>6, <1>7, <1>8, <1>9, <1>10, <1>11, <1>12, <1>13, <1>14
  DEF Mcp!Next, Mcp!Step

\* Between two requests the server's sessions are as a request expects them, and what it
\* runs and waits for is what its guard and its windows allow (mcp_server.py).
THEOREM ServerIsSound ==
  Mcp!Spec => [](/\ Mcp!TypeOK /\ Mcp!NoneBusy /\ Mcp!NoStrayBreak /\ Mcp!NoPlanKept
                 /\ Mcp!OnlyReads /\ Mcp!FastRefusal)
<1>1. ASSUME McpInv
      PROVE  /\ Mcp!TypeOK /\ Mcp!NoneBusy /\ Mcp!NoStrayBreak /\ Mcp!NoPlanKept
             /\ Mcp!OnlyReads /\ Mcp!FastRefusal
  <2>1. McpTypes /\ SessionsOwned /\ Windows /\ Guarded BY <1>1 DEF McpInv
  <2>2. Mcp!TypeOK
    <3>1. Cardinality({s \in Mcp!Sid : sess[s].kind = "pool"}) <= PoolMax
      BY <2>1 DEF SessionsOwned, Mcp!Pooled
    <3>2. \A s \in Mcp!Sid : /\ sess[s].kind \in {"none", "pool", "own"} /\ sess[s].alive \in BOOLEAN
                             /\ sess[s].kind = "own" <=> s = conn
      BY <2>1 DEF SessionsOwned, OfRequest, McpTypes, Session
    <3>3. req \in Request BY <2>1 DEF McpTypes
    <3>4. req.pc \in {"read", "guard", "acquire", "session", "spare", "dedicated", "cursor", "verify",
                      "execute", "broken", "leave", "rollback", "release", "respond", "ended"}
          /\ req.fail \in {"none", "refused", "error", "drop"} /\ req.waited \in 0..4
      BY <3>3 DEF Request, Asking, Using
    <3>5. up \in BOOLEAN /\ faults \in 0..ServerFaults /\ pool \in BOOLEAN
          /\ poolWait \in 0..PoolWindow /\ connWait \in 0..ConnWindow /\ conn \in 0..Sessions
      BY <2>1 DEF McpTypes
    <3>6. QED BY <3>1, <3>2, <3>4, <3>5, McpCardinality DEF Mcp!TypeOK
  <2>3. Mcp!NoneBusy /\ Mcp!NoStrayBreak /\ Mcp!NoPlanKept
    <3>1. req.pc = "read" => \A s \in Mcp!Sid : ~sess[s].busy /\ ~sess[s].cancel /\ ~sess[s].pending /\ ~sess[s].plan
      BY <1>1, Quiet DEF Using
    <3>2. QED BY <3>1 DEF Mcp!NoneBusy, Mcp!NoStrayBreak, Mcp!NoPlanKept
  <2>4. Mcp!OnlyReads /\ Mcp!FastRefusal BY <2>1 DEF Guarded, Windows, Mcp!OnlyReads, Mcp!FastRefusal
  <2>5. QED BY <2>2, <2>3, <2>4
<1>2. QED BY <1>1, McpInit, McpStep, PTL DEF Mcp!Spec
-----------------------------------------------------------------------------
(* OracleFetch: whole rows, one probe, and a breaker that one trial decides. *)

Calls == [pc : {"idle", "probe", "connect", "rows", "bridge", "failed", "broken"}, tries : 0..Tries,
          start : Nat, rows : Seq(Nat)]

FetchTypes ==
  /\ breaker \in [state : {"closed", "open", "half"}, fails : 0..FailMax]
  /\ call \in Calls
  /\ result.rows \in Seq(Nat) /\ probed \in BOOLEAN /\ db \in Nat
  /\ left \in [calls : 0..MaxCalls, faults : 0..FetchFaults]

\* The rows that came are of the moment the query of this attempt started; a breaker
\* that is not closed has counted to its limit.
FetchInv ==
  /\ FetchTypes /\ Fetch!WholeResult /\ Fetch!NoIdleSession
  /\ probes = IF probed THEN 1 ELSE 0
  /\ Len(call.rows) <= Batches /\ \A i \in 1..Len(call.rows) : call.rows[i] = call.start
  /\ breaker.state = "closed" <=> breaker.fails < FailMax

LEMMA FetchConstants == {FailMax, Tries, Batches} \subseteq Nat \ {0} /\ {MaxCalls, FetchFaults} \subseteq Nat
  BY PartsAssumption DEF Fetch!FetchAssumption

LEMMA FetchInit == Fetch!Init => FetchInv
<1> SUFFICES ASSUME Fetch!Init PROVE FetchInv OBVIOUS
<1>1. FetchTypes
  <2>1. 0 \in 0..FailMax /\ 0 \in 0..Tries /\ MaxCalls \in 0..MaxCalls /\ FetchFaults \in 0..FetchFaults
    BY FetchConstants
  <2>2. <<>> \in Seq(Nat) OBVIOUS
  <2>3. QED BY <2>1, <2>2 DEF Fetch!Init, Fetch!Idle, FetchTypes, Calls
<1>2. Fetch!WholeResult /\ Fetch!NoIdleSession BY DEF Fetch!Init, Fetch!Idle, Fetch!WholeResult, Fetch!NoIdleSession
<1>3. Len(call.rows) = 0 BY DEF Fetch!Init, Fetch!Idle
<1>4. breaker.state = "closed" /\ breaker.fails = 0 /\ probes = 0 /\ probed = FALSE BY DEF Fetch!Init
<1>5. QED BY <1>1, <1>2, <1>3, <1>4, FetchConstants DEF FetchInv

\* A step within a call, which leaves the breaker, the probes and the result alone.
LEMMA CallMoves ==
  ASSUME FetchInv, call' \in Calls,
         Len(call'.rows) <= Batches, \A i \in 1..Len(call'.rows) : call'.rows[i] = call'.start,
         db' \in Nat, sessions' = IF call'.pc = "rows" THEN 1 ELSE 0,
         left' \in [calls : 0..MaxCalls, faults : 0..FetchFaults],
         UNCHANGED <<breaker, probes, probed, result>>
  PROVE  FetchInv'
<1>1. Fetch!WholeResult' BY DEF FetchInv, Fetch!WholeResult
<1>2. Fetch!NoIdleSession' BY DEF Fetch!NoIdleSession
<1>3. FetchTypes' BY DEF FetchInv, FetchTypes, Calls
<1>4. QED BY <1>1, <1>2, <1>3 DEF FetchInv

\* The end of a call, and what becomes of the breaker.
LEMMA CallReturns ==
  ASSUME FetchInv, call' = Fetch!Idle, sessions' = 0, UNCHANGED <<probes, probed, db>>,
         result'.rows \in Seq(Nat), Fetch!WholeResult',
         left' \in [calls : 0..MaxCalls, faults : 0..FetchFaults],
         breaker' \in [state : {"closed", "open", "half"}, fails : 0..FailMax],
         breaker'.state = "closed" <=> breaker'.fails < FailMax
  PROVE  FetchInv'
<1>1. call' \in Calls /\ call'.pc = "idle" /\ Len(call'.rows) = 0
  BY FetchConstants DEF Fetch!Idle, Calls
<1>2. Fetch!NoIdleSession' BY <1>1 DEF Fetch!NoIdleSession
<1>3. FetchTypes' BY <1>1 DEF FetchInv, FetchTypes, Calls
<1>4. Len(call'.rows) <= Batches /\ \A i \in 1..Len(call'.rows) : call'.rows[i] = call'.start
  BY <1>1, FetchConstants
<1>5. QED BY <1>2, <1>3, <1>4 DEF FetchInv

LEMMA FetchStep == FetchInv /\ [Fetch!Next]_(Fetch!vars) => FetchInv'
<1> SUFFICES ASSUME FetchInv, [Fetch!Next]_(Fetch!vars) PROVE FetchInv' OBVIOUS
<1>1. /\ FetchTypes /\ Fetch!WholeResult /\ Fetch!NoIdleSession
      /\ Len(call.rows) <= Batches /\ \A i \in 1..Len(call.rows) : call.rows[i] = call.start
      /\ breaker.state = "closed" <=> breaker.fails < FailMax
  BY DEF FetchInv
<1>2. /\ call.pc \in {"idle", "probe", "connect", "rows", "bridge", "failed", "broken"}
      /\ call.tries \in 0..Tries /\ call.start \in Nat /\ call.rows \in Seq(Nat) /\ db \in Nat
      /\ left \in [calls : 0..MaxCalls, faults : 0..FetchFaults]
      /\ breaker.fails \in 0..FailMax /\ sessions = IF call.pc = "rows" THEN 1 ELSE 0
  BY <1>1 DEF FetchTypes, Calls, Fetch!NoIdleSession
<1>3. ASSUME NEW f \in {"calls", "faults"}, Fetch!Spend(f)
      PROVE  left' \in [calls : 0..MaxCalls, faults : 0..FetchFaults]
  <2>1. left' = [left EXCEPT ![f] = @ - 1] /\ left[f] > 0 BY <1>3 DEF Fetch!Spend
  <2>2. CASE f = "calls"
    <3>1. left.calls - 1 \in 0..MaxCalls BY <1>2, <2>1, <2>2, FetchConstants
    <3>2. QED BY <1>2, <2>1, <2>2, <3>1
  <2>3. CASE f = "faults"
    <3>1. left.faults - 1 \in 0..FetchFaults BY <1>2, <2>1, <2>3, FetchConstants
    <3>2. QED BY <1>2, <2>1, <2>3, <3>1
  <2>4. QED BY <2>2, <2>3
<1>4. CASE Fetch!Call
  <2>1. left' \in [calls : 0..MaxCalls, faults : 0..FetchFaults] BY <1>3, <1>4 DEF Fetch!Call
  <2>2. CASE breaker.state = "open"
    <3>1. result' = [kind |-> "open", rows |-> <<>>] /\ UNCHANGED <<breaker, probes, probed, call, db, sessions>>
      BY <1>4, <2>2 DEF Fetch!Call
    <3>2. Fetch!WholeResult' BY <3>1 DEF Fetch!WholeResult
    <3>3. FetchTypes' BY <1>1, <2>1, <3>1 DEF FetchTypes, Calls
    <3>4. QED BY <3>1, <3>2, <3>3 DEF FetchInv, Fetch!NoIdleSession
  <2>3. CASE breaker.state # "open"
    <3>1. call' = [Fetch!Idle EXCEPT !.pc = "probe", !.tries = 1] /\ call.pc = "idle"
          /\ UNCHANGED <<breaker, probes, probed, db, sessions, result>>
      BY <1>4, <2>3 DEF Fetch!Call
    <3>2. call' = [pc |-> "probe", tries |-> 1, start |-> 0, rows |-> <<>>] BY <3>1 DEF Fetch!Idle
    <3>3. 1 \in 0..Tries BY FetchConstants
    <3>4. Len(call'.rows) = 0 /\ call'.pc = "probe" BY <3>2
    <3>5. call' \in Calls BY <3>2, <3>3 DEF Calls
    <3>6. Len(call'.rows) <= Batches /\ \A i \in 1..Len(call'.rows) : call'.rows[i] = call'.start
      BY <3>4, FetchConstants
    <3>7. sessions' = 0 /\ db' \in Nat BY <1>2, <3>1
    <3>8. QED BY <2>1, <3>1, <3>4, <3>5, <3>6, <3>7, CallMoves
  <2>4. QED BY <2>2, <2>3
<1>5. CASE Fetch!Reset
  <2>1. breaker.state = "open" /\ breaker' = [breaker EXCEPT !.state = "half"]
        /\ UNCHANGED <<probes, probed, call, db, sessions, result, left>>
    BY <1>5 DEF Fetch!Reset
  <2>2. FetchTypes' BY <1>1, <2>1 DEF FetchTypes, Calls
  <2>3. breaker'.state = "half" /\ breaker'.fails = breaker.fails BY <1>1, <2>1 DEF FetchTypes, Calls
  <2>4. Fetch!WholeResult' /\ Fetch!NoIdleSession' BY <1>1, <2>1 DEF Fetch!WholeResult, Fetch!NoIdleSession
  <2>5. QED BY <2>1, <2>2, <2>3, <2>4 DEF FetchInv
<1>6. CASE Fetch!Probe
  <2>1. /\ call.pc = "probe" /\ probed' = TRUE /\ probes' = probes + (IF probed THEN 0 ELSE 1)
        /\ call' = [call EXCEPT !.pc = IF Bridge THEN "bridge" ELSE "connect"]
        /\ UNCHANGED <<breaker, db, sessions, result, left>>
    BY <1>6 DEF Fetch!Probe, Fetch!Goto
  <2>2. probes' = 1 BY <2>1 DEF FetchInv, FetchTypes, Calls
  <2>3. call'.pc \in {"bridge", "connect"} /\ call'.rows = call.rows /\ call'.start = call.start
    BY <1>1, <2>1 DEF FetchTypes, Calls
  <2>4. FetchTypes' BY <1>1, <2>1 DEF FetchTypes, Calls
  <2>5. Fetch!WholeResult' /\ Fetch!NoIdleSession' BY <1>1, <2>1, <2>3 DEF Fetch!WholeResult, Fetch!NoIdleSession
  <2>6. QED BY <2>1, <2>2, <2>3, <2>4, <2>5 DEF FetchInv
<1>7. CASE Fetch!Connect
  <2>1. /\ call.pc = "connect" /\ call' = [call EXCEPT !.pc = "rows", !.start = db, !.rows = <<>>]
        /\ sessions' = sessions + 1 /\ UNCHANGED <<breaker, probes, probed, db, result, left>>
    BY <1>7 DEF Fetch!Connect
  <2>2. call' = [pc |-> "rows", tries |-> call.tries, start |-> db, rows |-> <<>>] BY <1>1, <2>1 DEF FetchTypes, Calls
  <2>3. Len(call'.rows) = 0 /\ call'.pc = "rows" BY <2>2
  <2>4. sessions' = 1 BY <1>2, <2>1
  <2>5. call' \in Calls BY <1>2, <2>2 DEF Calls
  <2>6. Len(call'.rows) <= Batches /\ \A i \in 1..Len(call'.rows) : call'.rows[i] = call'.start
    BY <2>3, FetchConstants
  <2>7. QED BY <1>2, <2>1, <2>3, <2>4, <2>5, <2>6, CallMoves
<1>8. CASE Fetch!Fetch
  <2>1. call.pc = "rows" /\ sessions = 1 /\ UNCHANGED <<probes, probed, db, left>> BY <1>2, <1>8 DEF Fetch!Fetch
  <2>2. CASE Len(call.rows) < Batches
    <3>1. call' = [call EXCEPT !.rows = Append(@, call.start)] /\ UNCHANGED <<breaker, sessions, result>>
      BY <1>8, <2>2 DEF Fetch!Fetch
    <3>2. call' = [pc |-> "rows", tries |-> call.tries, start |-> call.start, rows |-> Append(call.rows, call.start)]
      BY <1>1, <2>1, <3>1 DEF FetchTypes, Calls
    <3>3. /\ call'.rows \in Seq(Nat) /\ Len(call'.rows) = Len(call.rows) + 1
          /\ \A i \in 1..Len(call'.rows) : call'.rows[i] = call.start
      BY <1>1, <1>2, <3>2
    <3>4. Len(call.rows) \in Nat /\ Batches \in Nat BY <1>2, FetchConstants
    <3>5. call' \in Calls BY <1>2, <3>2, <3>3 DEF Calls
    <3>6. Len(call'.rows) <= Batches /\ call'.start = call.start /\ call'.pc = "rows"
      BY <2>2, <3>2, <3>3, <3>4
    <3>7. QED BY <1>2, <2>1, <3>1, <3>3, <3>5, <3>6, CallMoves
  <2>3. CASE ~(Len(call.rows) < Batches)
    <3>1. /\ result' = [kind |-> "rows", rows |-> call.rows] /\ call' = Fetch!Idle
          /\ breaker' = [state |-> "closed", fails |-> 0] /\ sessions' = 0
      BY <1>8, <2>1, <2>3 DEF Fetch!Fetch, Fetch!Returns
    <3>2. Len(call.rows) = Batches BY <1>1, <1>2, <2>3, FetchConstants
    <3>3. Fetch!WholeResult' BY <1>1, <3>1, <3>2 DEF Fetch!WholeResult
    <3>4. 0 \in 0..FailMax /\ 0 < FailMax BY FetchConstants
    <3>5. QED BY <1>2, <2>1, <3>1, <3>3, <3>4, CallReturns
  <2>4. QED BY <2>2, <2>3
<1>9. CASE Fetch!Lost
  <2>1. left' \in [calls : 0..MaxCalls, faults : 0..FetchFaults] BY <1>3, <1>9 DEF Fetch!Lost
  <2>2. /\ call' = [call EXCEPT !.pc = "failed"] /\ sessions' = IF call.pc = "rows" THEN sessions - 1 ELSE sessions
        /\ UNCHANGED <<breaker, probes, probed, db, result>>
    BY <1>9 DEF Fetch!Lost, Fetch!Goto
  <2>3. call' = [pc |-> "failed", tries |-> call.tries, start |-> call.start, rows |-> call.rows]
    BY <1>1, <2>2 DEF FetchTypes, Calls
  <2>4. sessions' = 0 /\ call'.pc = "failed" BY <1>2, <2>2, <2>3
  <2>5. QED BY <1>1, <1>2, <2>1, <2>2, <2>3, <2>4, CallMoves DEF Calls
<1>10. CASE Fetch!Retry
  <2>1. /\ call.pc = "failed" /\ call.tries < Tries /\ call' = [call EXCEPT !.pc = "probe", !.tries = @ + 1]
        /\ UNCHANGED <<breaker, probes, probed, db, sessions, result, left>>
    BY <1>10 DEF Fetch!Retry, Fetch!Retries
  <2>2. call.tries + 1 \in 0..Tries BY <1>2, <2>1, FetchConstants, SMTT(30)
  <2>3. call' = [pc |-> "probe", tries |-> call.tries + 1, start |-> call.start, rows |-> call.rows]
    BY <1>1, <2>1 DEF FetchTypes, Calls
  <2>4. sessions' = 0 /\ call'.pc = "probe" BY <1>2, <2>1, <2>3
  <2>5. QED BY <1>1, <1>2, <2>1, <2>2, <2>3, <2>4, CallMoves DEF Calls
<1>11. CASE Fetch!GiveUp
  <2>1. /\ call.pc = "failed" /\ call' = [call EXCEPT !.pc = "broken"]
        /\ UNCHANGED <<breaker, probes, probed, db, sessions, result, left>>
    BY <1>11 DEF Fetch!GiveUp, Fetch!Goto
  <2>2. call' = [pc |-> "broken", tries |-> call.tries, start |-> call.start, rows |-> call.rows]
    BY <1>1, <2>1 DEF FetchTypes, Calls
  <2>3. sessions' = 0 /\ call'.pc = "broken" BY <1>2, <2>1, <2>2
  <2>4. QED BY <1>1, <1>2, <2>1, <2>2, <2>3, CallMoves DEF Calls
<1>12. CASE Fetch!BridgeRuns
  <2>1. call.pc = "bridge" /\ sessions = 0 /\ UNCHANGED <<probes, probed, db, sessions>>
    BY <1>2, <1>12 DEF Fetch!BridgeRuns
  <2>2. CASE Fetch!Returns([i \in 1..Batches |-> db]) /\ UNCHANGED left
    <3>1. /\ result' = [kind |-> "rows", rows |-> [i \in 1..Batches |-> db]] /\ call' = Fetch!Idle
          /\ breaker' = [state |-> "closed", fails |-> 0] /\ UNCHANGED left
      BY <2>2 DEF Fetch!Returns
    <3>2. [i \in 1..Batches |-> db] \in Seq(Nat) /\ Len([i \in 1..Batches |-> db]) = Batches
      BY <1>2, FetchConstants
    <3>3. Fetch!WholeResult' BY <3>1, <3>2 DEF Fetch!WholeResult
    <3>4. 0 \in 0..FailMax /\ 0 < FailMax BY FetchConstants
    <3>5. result'.rows \in Seq(Nat) /\ sessions' = 0 BY <2>1, <3>1, <3>2
    <3>6. QED BY <1>2, <2>1, <3>1, <3>3, <3>4, <3>5, CallReturns
  <2>3. CASE Fetch!Spend("faults") /\ Fetch!Goto("broken") /\ UNCHANGED <<breaker, result>>
    <3>1. left' \in [calls : 0..MaxCalls, faults : 0..FetchFaults] BY <1>3, <2>3
    <3>2. call' = [pc |-> "broken", tries |-> call.tries, start |-> call.start, rows |-> call.rows]
      BY <1>1, <2>3 DEF FetchTypes, Calls, Fetch!Goto
    <3>3. call'.pc = "broken" BY <3>2
    <3>4. QED BY <1>1, <1>2, <2>1, <2>3, <3>1, <3>2, <3>3, CallMoves DEF Calls
  <2>4. QED BY <1>12, <2>2, <2>3 DEF Fetch!BridgeRuns
<1>13. CASE Fetch!Broken
  <2> DEFINE m == IF breaker.fails < FailMax THEN breaker.fails + 1 ELSE FailMax
             tripped == breaker.state = "half" \/ m >= FailMax
  <2>1. /\ call.pc = "broken" /\ breaker' = [state |-> IF tripped THEN "open" ELSE "closed", fails |-> m]
        /\ result' = [kind |-> IF tripped THEN "open" ELSE "error", rows |-> <<>>] /\ call' = Fetch!Idle
        /\ UNCHANGED <<probes, probed, db, sessions, left>>
    BY <1>13 DEF Fetch!Broken
  <2>2. m \in 0..FailMax /\ (breaker.state = "half" => m = FailMax) BY <1>1, <1>2, FetchConstants
  <2>3. tripped <=> ~(m < FailMax) BY <2>2, FetchConstants
  <2>4. breaker'.state = "closed" <=> breaker'.fails < FailMax BY <2>1, <2>3
  <2>5. breaker' \in [state : {"closed", "open", "half"}, fails : 0..FailMax] BY <2>1, <2>2
  <2>6. Fetch!WholeResult' /\ result'.rows \in Seq(Nat) BY <2>1 DEF Fetch!WholeResult
  <2>7. sessions' = 0 /\ left' \in [calls : 0..MaxCalls, faults : 0..FetchFaults] BY <1>2, <2>1
  <2>8. QED BY <2>1, <2>4, <2>5, <2>6, <2>7, CallReturns
<1>14. CASE Fetch!DbChanges
  <2>1. left' \in [calls : 0..MaxCalls, faults : 0..FetchFaults] BY <1>3, <1>14 DEF Fetch!DbChanges
  <2>2. db' = db + 1 /\ UNCHANGED <<breaker, probes, probed, call, sessions, result>> BY <1>14 DEF Fetch!DbChanges
  <2>3. call' \in Calls
    BY <1>1, <2>2 DEF FetchTypes, Calls
  <2>4. db' \in Nat BY <1>2, <2>2
  <2>5. QED BY <1>1, <1>2, <2>1, <2>2, <2>3, <2>4, CallMoves
<1>15. CASE UNCHANGED Fetch!vars
  BY <1>1, <1>15 DEF Fetch!vars, FetchInv, FetchTypes, Calls, Fetch!WholeResult, Fetch!NoIdleSession
<1>16. QED BY <1>4, <1>5, <1>6, <1>7, <1>8, <1>9, <1>10, <1>11, <1>12, <1>13, <1>14, <1>15 DEF Fetch!Next

\* lib/python/oracle_extract.py and oracle_retry.py: the rows are whole and of one moment,
\* no session is open while the route is probed or between calls, the route is probed once,
\* and one trial decides for a half-open breaker, whatever the limits and the faults.
THEOREM RowsAreWhole ==
  Fetch!Spec => [](Fetch!TypeOK /\ Fetch!WholeResult /\ Fetch!NoIdleSession /\ Fetch!ProbedOnce)
                /\ Fetch!TrialDecides
<1>1. FetchInv => Fetch!TypeOK /\ Fetch!WholeResult /\ Fetch!NoIdleSession /\ Fetch!ProbedOnce
  <2> SUFFICES ASSUME FetchInv PROVE Fetch!TypeOK /\ Fetch!ProbedOnce BY DEF FetchInv
  <2>1. probes \in {0, 1} BY DEF FetchInv
  <2>2. sessions \in Nat BY DEF FetchInv, Fetch!NoIdleSession
  <2>3. Fetch!TypeOK BY <2>1, <2>2 DEF FetchInv, FetchTypes, Calls, Fetch!TypeOK
  <2>4. QED BY <2>1, <2>3 DEF Fetch!ProbedOnce
<1>2. FetchInv /\ [Fetch!Next]_(Fetch!vars) =>
        [breaker.state = "half" /\ breaker' # breaker =>
           breaker' \in {[state |-> "closed", fails |-> 0], [state |-> "open", fails |-> FailMax]}]_(Fetch!vars)
  <2> SUFFICES ASSUME FetchInv, Fetch!Next, breaker.state = "half", breaker' # breaker
               PROVE  breaker' \in {[state |-> "closed", fails |-> 0], [state |-> "open", fails |-> FailMax]}
    OBVIOUS
  <2>1. breaker.fails = FailMax BY FetchConstants DEF FetchInv, FetchTypes, Calls
  <2>2. \/ breaker' = [state |-> "closed", fails |-> 0]
        \/ Fetch!Broken
    BY DEF Fetch!Next, Fetch!Probe, Fetch!Connect, Fetch!Fetch, Fetch!Returns, Fetch!Retry, Fetch!GiveUp,
           Fetch!BridgeRuns, Fetch!Call, Fetch!Reset, Fetch!Lost, Fetch!DbChanges
  <2>3. Fetch!Broken => breaker' = [state |-> "open", fails |-> FailMax]
    BY <2>1, FetchConstants DEF Fetch!Broken
  <2>4. QED BY <2>2, <2>3
<1>3. QED BY <1>1, <1>2, FetchInit, FetchStep, PTL DEF Fetch!Spec, Fetch!TrialDecides
-----------------------------------------------------------------------------
(* The parts together: a behaviour of MCOracle is one of each part. *)

LEMMA EachPart ==
  AllSpec => Spec /\ Query!Spec /\ Stage!Spec /\ Mcp!Spec /\ Fetch!Spec
<1>1. AllInit => Init /\ Query!Init /\ Stage!Init /\ Mcp!Init /\ Fetch!Init BY DEF AllInit
<1>2. [AllNext]_everything => [Next]_vars BY DEF AllNext, everything
<1>3. [AllNext]_everything => [Query!Next]_(Query!vars) BY DEF AllNext, everything, queryVars, Query!vars
<1>4. [AllNext]_everything => [Stage!Next]_(Stage!vars)
  BY DEF AllNext, everything, stageVars, Stage!vars, Stage!own
<1>5. [AllNext]_everything => [Mcp!Next]_(Mcp!vars)
  BY DEF AllNext, everything, mcpVars, Mcp!vars, Mcp!net, Mcp!links
<1>6. [AllNext]_everything => [Fetch!Next]_(Fetch!vars) BY DEF AllNext, everything, fetchVars, Fetch!vars
<1>7. AllSpec => Spec /\ Query!Spec /\ Stage!Spec
  BY <1>1, <1>2, <1>3, <1>4, PTL DEF AllSpec, Spec, Query!Spec, Stage!Spec
<1>8. AllSpec => Mcp!Spec /\ Fetch!Spec
  BY <1>1, <1>5, <1>6, PTL DEF AllSpec, Mcp!Spec, Fetch!Spec
<1>9. QED BY <1>7, <1>8

\* lib/python/oracle_session.py, oracle_extract.py and the SQL tools: whoever opened a
\* session closes it, once and not under a call or a cancel(), if cancel() is in time.
THEOREM EverySessionIsClosed ==
  ASSUME CancelsInTime
  PROVE  AllSpec => []SessionsClosed
<1>1. CancelTime < Grace /\ Spared BY DEF CancelsInTime, Spared
<1>2. Query!Spec => [](Query!TypeOK /\ Query!NothingLeft /\ Query!CancelAlone /\ Query!WithinBudget)
  BY <1>1, QueryIsBounded
<1>3. Stage!Spec => [](/\ Stage!TypeOK /\ Stage!ClosedOnce /\ Stage!NeverUnderCall
                       /\ Stage!NothingLeaks /\ Stage!WorstCase)
  BY <1>1, StatementEnds
<1>4. QED BY <1>2, <1>3, RowsAreWhole, EachPart, PTL DEF SessionsClosed

\* ... and the answer is there within the budget or the worst case the callers reckon
\* with, of whole rows and after one probe.
THEOREM EveryAnswerIsDue ==
  ASSUME CancelsInTime
  PROVE  AllSpec => []AnswersAreDue
<1>1. CancelTime < Grace /\ Spared BY DEF CancelsInTime, Spared
<1>2. Query!Spec => [](Query!TypeOK /\ Query!NothingLeft /\ Query!CancelAlone /\ Query!WithinBudget)
  BY <1>1, QueryIsBounded
<1>3. Stage!Spec => [](/\ Stage!TypeOK /\ Stage!ClosedOnce /\ Stage!NeverUnderCall
                       /\ Stage!NothingLeaks /\ Stage!WorstCase)
  BY <1>1, StatementEnds
<1>4. QED BY <1>2, <1>3, RowsAreWhole, EachPart, PTL DEF AnswersAreDue

\* Tools/oracle/mcp_server.py: no request finds a session with a break, a plan or a use
\* of the one before it.
THEOREM EverySessionIsClean == AllSpec => []SessionsClean
  BY ServerIsSound, EachPart, PTL DEF SessionsClean

\* ... no statement runs that may write, and none waits in a window that is known to be shut.
THEOREM ServerReadsOrRefuses == AllSpec => []ReadsOrRefuses
  BY ServerIsSound, EachPart, PTL DEF ReadsOrRefuses

\* oracle_extract.py and oracle_retry.py: what the watchdog ended is not tried again, and
\* one trial decides whether a half-open breaker closes.
THEOREM RetriesAreJustified ==
  ASSUME CancelsInTime
  PROVE  AllSpec => RetriesAreJust
<1>1. CancelTime < Grace BY DEF CancelsInTime
<1>2. Query!Spec => Query!NoRetryAfterDeadline BY <1>1, QueryIsBounded
<1>3. Fetch!Spec => Fetch!TrialDecides BY RowsAreWhole
<1>4. QED BY <1>2, <1>3, EachPart DEF RetriesAreJust
==============================================================================
