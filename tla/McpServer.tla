------------------------------ MODULE McpServer ------------------------------
(***************************************************************************)
(* The MCP server for Oracle (Tools/oracle/mcp_server.py): a loop that     *)
(* answers JSON-RPC lines one by one, the guard and the check of a         *)
(* statement's names, the connections (a pool, or a dedicated one when     *)
(* there is no pool) with the windows in which they are not tried again,   *)
(* and the watchdog of a tool's call. One unit of time is the deadline of  *)
(* a connection.                                                           *)
(*                                                                         *)
(*   up        the network to Oracle, faults: how often it changed         *)
(*   sess[s]   a session: none, pool or own (the dedicated one); alive,    *)
(*             busy, cancel under way, a pending break, plan rows          *)
(*   pool      create_pool has succeeded; poolWait: until it may be tried  *)
(*   conn      the dedicated session or 0; connWait: until it may be tried *)
(*   req       the request: step, tool, statement, its session, what went  *)
(*             wrong, fired, ran: its statement ran, waited: deadlines of  *)
(*             connections it sat through, early: the windows open when it *)
(*             came                                                        *)
(*   served    the last tool call succeeded                                *)
(***************************************************************************)
EXTENDS Integers, FiniteSets

CONSTANTS
  Sessions,    \* how many sessions may be open: the pool's and one more
  PoolMax,     \* max of create_pool
  PoolWindow,  \* JANELA_NOVA_TENTATIVA_POOL_SEGUNDOS
  ConnWindow,  \* JANELA_FALHA_CONEXAO_SEGUNDOS
  SlowCancel,  \* BOOLEAN: cancel() may take longer than CANCEL_GRACE_SECONDS
  Foreign,     \* BOOLEAN: a line may not be UTF-8
  MaxFaults    \* bound: changes of the network, sessions killed

McpAssumption ==
  /\ Sessions \in Nat /\ PoolMax \in 1..(Sessions - 1)
  /\ PoolWindow \in Nat \ {0} /\ ConnWindow \in Nat \ {0}
  /\ SlowCancel \in BOOLEAN /\ Foreign \in BOOLEAN /\ MaxFaults \in Nat

VARIABLES up, faults, sess, pool, poolWait, conn, connWait, req, served
net == <<up, faults>>
links == <<pool, poolWait, conn, connWait>>
vars == <<net, sess, links, req, served>>

Sid == 1..Sessions
Tool == {"execute_sql", "get_query_plan", "catalog"}
\* What the guard says of a statement: not a read; a read whose names have to be checked
\* or not; and what it really is: a call of a stored function.
Statement == {"write", "read", "names", "function", "many"}
Closed == [kind |-> "none", alive |-> FALSE, busy |-> FALSE, cancel |-> FALSE, pending |-> FALSE,
           plan |-> FALSE]
NoRequest == [pc |-> "read", tool |-> "catalog", text |-> "read", s |-> 0, fail |-> "none",
              fired |-> FALSE, ran |-> FALSE, waited |-> 0, early |-> {}]

TypeOK ==
  /\ up \in BOOLEAN /\ faults \in 0..MaxFaults /\ pool \in BOOLEAN
  /\ \A s \in Sid : sess[s].kind \in {"none", "pool", "own"} /\ sess[s].alive \in BOOLEAN
  /\ Cardinality({s \in Sid : sess[s].kind = "pool"}) <= PoolMax
  /\ \A s \in Sid : sess[s].kind = "own" <=> s = conn
  /\ poolWait \in 0..PoolWindow /\ connWait \in 0..ConnWindow /\ conn \in 0..Sessions
  /\ req.pc \in {"read", "guard", "acquire", "session", "spare", "dedicated", "cursor",
                 "verify", "execute", "broken", "leave", "rollback", "release", "respond", "ended"}
  /\ req.fail \in {"none", "refused", "error", "drop"} /\ req.waited \in 0..4

Init ==
  /\ up = TRUE /\ faults = 0 /\ sess = [s \in Sid |-> Closed]
  /\ pool = FALSE /\ poolWait = 0 /\ conn = 0 /\ connWait = 0
  /\ req = NoRequest /\ served = FALSE

Less(t) == IF t > 0 THEN t - 1 ELSE 0
-----------------------------------------------------------------------------
\* The windows that are still open.
Closing == {w \in {"pool", "conn"} : (w = "pool" /\ poolWait > 0) \/ (w = "conn" /\ connWait > 0)}

\* run and handle_request. A notification has no answer; a line that is no request, an
\* unknown method and arguments of the wrong type have an error as theirs.
Read ==
  /\ req.pc = "read"
  /\ \/ UNCHANGED req
     \/ \E f \in {"none", "error"} : req' = [NoRequest EXCEPT !.pc = "respond", !.fail = f]
     \/ \E tool \in Tool, text \in Statement :
          /\ tool = "catalog" => text = "read"
          /\ req' = [NoRequest EXCEPT !.pc = "guard", !.tool = tool, !.text = text,
                                      !.early = Closing]
  /\ UNCHANGED <<net, sess, links, served>>

\* A line in another encoding: the iteration over stdin raises.
ReadForeign ==
  /\ Foreign /\ req.pc = "read"
  /\ req' = [NoRequest EXCEPT !.pc = "ended"]
  /\ sess' = [s \in Sid |-> Closed] /\ pool' = FALSE /\ conn' = 0
  /\ UNCHANGED <<net, poolWait, connWait, served>>

\* Mutated form: an error that a tool raises ends the loop.
RespondEnds ==
  /\ req.pc = "respond"
  /\ served' = (req.fail = "none")
  /\ req' = [NoRequest EXCEPT !.pc = IF req.fail = "none" THEN "read" ELSE "ended"]
  /\ UNCHANGED <<net, sess, links>>

Respond ==
  /\ req.pc = "respond"
  /\ served' = (req.fail = "none")
  /\ req' = NoRequest
  /\ UNCHANGED <<net, sess, links>>

\* validate_read_only and _bloqueio_pre_conexao.
Blocked == req.text = "write" \/ (req.text = "many" /\ req.tool = "execute_sql")

Guard ==
  /\ req.pc = "guard"
  /\ req' = IF Blocked THEN [req EXCEPT !.pc = "respond", !.fail = "refused"]
            ELSE [req EXCEPT !.pc = "acquire"]
  /\ UNCHANGED <<net, sess, links, served>>
-----------------------------------------------------------------------------

PoolMayBeTried == ~pool /\ poolWait = 0

\* _init_pool_if_needed: the probe, then create_pool; a failure opens the window.
InitPool ==
  /\ req.pc = "acquire" /\ PoolMayBeTried
  /\ IF up
     THEN /\ \/ pool' = TRUE /\ poolWait' = 0
             \/ pool' = FALSE /\ poolWait' = PoolWindow
          /\ req' = [req EXCEPT !.pc = "session"]
          /\ UNCHANGED connWait
     ELSE /\ pool' = FALSE /\ poolWait' = PoolWindow /\ connWait' = Less(connWait)
          /\ req' = [req EXCEPT !.pc = "session", !.waited = @ + 1]
  /\ UNCHANGED <<net, sess, conn, served>>

NoInit ==
  /\ req.pc = "acquire" /\ ~PoolMayBeTried
  /\ req' = [req EXCEPT !.pc = "session"]
  /\ UNCHANGED <<net, sess, links, served>>

FreshSession(kind, s) ==
  sess' = [sess EXCEPT ![s] = [Closed EXCEPT !.kind = kind, !.alive = TRUE, !.busy = TRUE]]
Free == {s \in Sid : sess[s].kind = "none" /\ ~sess[s].cancel}
Pooled == {s \in Sid : sess[s].kind = "pool"}
Ready(s) == [req EXCEPT !.pc = "cursor", !.s = s]

\* pool.acquire (GETMODE_WAIT): a session of the pool that is not in use, whatever its
\* state, or a new one. Without network, and with none at hand, it raises after a while.
FromPool ==
  /\ req.pc = "session" /\ pool
  /\ \/ \E s \in Pooled : ~sess[s].busy /\ sess' = [sess EXCEPT ![s].busy = TRUE] /\ req' = Ready(s)
     \/ /\ up /\ Cardinality(Pooled) < PoolMax
        /\ \E s \in Free : FreshSession("pool", s) /\ req' = Ready(s)
     \/ /\ ~up /\ \A s \in Pooled : sess[s].busy
        /\ Cardinality(Pooled) < PoolMax
        /\ req' = [req EXCEPT !.pc = "spare", !.waited = @ + 1]
        /\ UNCHANGED sess
  /\ UNCHANGED <<net, links, served>>

NoPool ==
  /\ req.pc = "session" /\ ~pool
  /\ req' = [req EXCEPT !.pc = "spare"]
  /\ UNCHANGED <<net, sess, links, served>>

\* The dedicated session, if a ping within its deadline says it lives; else it is closed.
Spare ==
  /\ req.pc = "spare"
  /\ IF conn # 0 /\ sess[conn].alive /\ up
     THEN /\ sess' = [sess EXCEPT ![conn].busy = TRUE, ![conn].pending = FALSE]
          /\ req' = Ready(conn) /\ UNCHANGED conn
     ELSE /\ sess' = IF conn = 0 THEN sess ELSE [sess EXCEPT ![conn] = Closed]
          /\ conn' = 0
          /\ req' = [req EXCEPT !.pc = "dedicated", !.waited = @ + (IF conn # 0 /\ ~up THEN 1 ELSE 0)]
  /\ UNCHANGED <<net, pool, poolWait, connWait, served>>

\* Within the window after a failure nothing is tried.
Refused == connWait > 0

\* connect_within, unless the last failure is too recent.
Dedicated ==
  /\ req.pc = "dedicated"
  /\ \/ /\ Refused
        /\ req' = [req EXCEPT !.pc = "respond", !.fail = "refused"]
        /\ UNCHANGED <<sess, conn, connWait, poolWait>>
     \/ /\ ~Refused /\ up
        /\ \E s \in Free : FreshSession("own", s) /\ conn' = s /\ req' = Ready(s)
        /\ connWait' = 0 /\ UNCHANGED poolWait
     \/ /\ ~Refused /\ ~up
        /\ connWait' = ConnWindow /\ poolWait' = Less(poolWait)
        /\ req' = [req EXCEPT !.pc = "respond", !.fail = "refused", !.waited = @ + 1]
        /\ UNCHANGED <<sess, conn>>
  /\ UNCHANGED <<net, pool, served>>
-----------------------------------------------------------------------------
Usable == up /\ sess[req.s].alive
FirstStep == IF req.tool = "execute_sql" THEN "verify" ELSE "execute"

Discarded(s) == [sess EXCEPT ![s] = [Closed EXCEPT !.cancel = sess[s].cancel]]

\* discard_connection: out of the pool, or closed.
Discard(s) == sess' = Discarded(s) /\ conn' = IF s = conn THEN 0 ELSE conn

\* _abrir_cursor: a session that is gone is discarded at once.
OpenCursor ==
  /\ req.pc = "cursor"
  /\ IF Usable \/ sess[req.s].alive
     THEN req' = [req EXCEPT !.pc = FirstStep] /\ UNCHANGED <<sess, conn>>
     ELSE /\ Discard(req.s)
          /\ req' = [req EXCEPT !.pc = "respond", !.fail = "drop"]
  /\ UNCHANGED <<net, pool, poolWait, connWait, served>>

Failed(f) == [req EXCEPT !.pc = "leave", !.fail = f]
\* A pending break is raised by the next call.
CallFails ==
  \/ sess[req.s].pending /\ req' = Failed("error") /\ sess' = [sess EXCEPT ![req.s].pending = FALSE]
  \/ ~Usable /\ req' = Failed("drop") /\ sess' = [sess EXCEPT ![req.s].alive = FALSE]
  \/ Usable /\ req' = Failed("error") /\ UNCHANGED sess

\* Mutated form: a check that fails says nothing against the statement.
VerifyLeniently ==
  /\ req.pc = "verify"
  /\ \/ CallFails /\ req'.fail = "drop"
     \/ /\ Usable /\ UNCHANGED sess
        /\ req' = [req EXCEPT !.pc = "execute"]
  /\ UNCHANGED <<net, links, served>>

\* _verificar_funcoes: the catalogue tells whether a name is a function.
Verify ==
  /\ req.pc = "verify"
  /\ \/ CallFails
     \/ /\ Usable /\ ~sess[req.s].pending /\ UNCHANGED sess
        /\ req' = IF req.text = "function" THEN [req EXCEPT !.pc = "leave", !.fail = "refused"]
                  ELSE [req EXCEPT !.pc = "execute"]
  /\ UNCHANGED <<net, links, served>>

\* The statement of the tool; EXPLAIN PLAN leaves its rows in the transaction.
Execute ==
  /\ req.pc = "execute"
  /\ \/ CallFails
     \/ /\ Usable /\ ~sess[req.s].pending
        /\ req' = [req EXCEPT !.pc = "leave", !.ran = (req.tool = "execute_sql")]
        /\ sess' = [sess EXCEPT ![req.s].plan = (req.tool = "get_query_plan")]
  /\ UNCHANGED <<net, links, served>>

\* The watchdog of query_deadline: a call is under way, and cancel() is on its way.
Fire ==
  /\ req.pc \in {"verify", "execute"} /\ ~req.fired
  /\ req' = [req EXCEPT !.fired = TRUE]
  /\ sess' = [sess EXCEPT ![req.s].cancel = TRUE]
  /\ UNCHANGED <<net, links, served>>

\* It meets the call, or a session that is between two.
CancelReaches(s) ==
  /\ sess[s].cancel
  /\ LET met == req.s = s /\ req.pc \in {"verify", "execute"}
     IN  /\ req' = IF met THEN [req EXCEPT !.pc = "broken"] ELSE req
         /\ sess' = [sess EXCEPT ![s].cancel = FALSE,
                                 ![s].pending = ~met /\ sess[s].kind # "none"]
  /\ UNCHANGED <<net, links, served>>

CallCancelled ==
  /\ req.pc = "broken"
  /\ req' = Failed("error")
  /\ UNCHANGED <<net, sess, links, served>>

\* Mutated form: the break is left to the next call.
LeaveWithoutPing ==
  /\ req.pc = "leave" /\ (~sess[req.s].cancel \/ SlowCancel)
  /\ req' = [req EXCEPT !.pc = IF req.tool = "get_query_plan" THEN "rollback" ELSE "release"]
  /\ UNCHANGED <<net, sess, links, served>>

\* cancel_after ends: it joins its timer, and a ping takes a break that came too late.
Leave ==
  /\ req.pc = "leave" /\ (~sess[req.s].cancel \/ SlowCancel)
  /\ sess' = IF req.fail \in {"none", "refused"} /\ req.fired
             THEN [sess EXCEPT ![req.s].pending = FALSE] ELSE sess
  /\ req' = [req EXCEPT !.pc = IF req.tool = "get_query_plan" THEN "rollback" ELSE "release"]
  /\ UNCHANGED <<net, links, served>>

Spoilt == req.fail # "refused" /\ req.fail # "none" /\ (req.fired \/ req.fail = "drop")

\* _desfazer_plano: a rollback, under a deadline of its own.
Rollback ==
  /\ req.pc = "rollback" /\ ~Spoilt /\ Usable
  /\ sess' = [sess EXCEPT ![req.s].plan = FALSE, ![req.s].pending = FALSE]
  /\ req' = [req EXCEPT !.pc = "release"]
  /\ UNCHANGED <<net, links, served>>

\* ... that fails or is not worth trying: the session goes, and after a drop the
\* boundary of the tool lets the dedicated one go as well (fecha_em_queda).
RollbackFails ==
  /\ req.pc = "rollback"
  /\ IF Spoilt /\ req.fail = "drop" /\ conn # 0
     THEN /\ sess' = [Discarded(req.s) EXCEPT ![conn] = [Closed EXCEPT !.cancel = sess[conn].cancel]]
          /\ conn' = 0
     ELSE Discard(req.s)
  /\ req' = [req EXCEPT !.pc = "respond"]
  /\ UNCHANGED <<net, pool, poolWait, connWait, served>>

\* _encerrar_uso: back to the pool, or away with it when the failure has spoilt it. What
\* pool.release makes of the dedicated session is the driver's affair.
Release ==
  /\ req.pc = "release"
  /\ IF Spoilt THEN Discard(req.s)
     ELSE /\ sess' \in {[sess EXCEPT ![req.s].busy = FALSE]} \cup
                (IF pool /\ req.s = conn
                 THEN {[sess EXCEPT ![req.s].busy = FALSE, ![req.s].alive = FALSE]} ELSE {})
          /\ UNCHANGED conn
  /\ req' = [req EXCEPT !.pc = "respond"]
  /\ UNCHANGED <<net, pool, poolWait, connWait, served>>
-----------------------------------------------------------------------------
\* The network goes and takes sessions with it, or comes back; the server ends sessions.
NetworkChanges ==
  /\ faults < MaxFaults /\ faults' = faults + 1
  /\ up' \in BOOLEAN
  /\ \E dead \in SUBSET Sid :
       /\ up' = up => dead # {}
       /\ sess' = [s \in Sid |-> IF s \in dead THEN [sess[s] EXCEPT !.alive = FALSE] ELSE sess[s]]
  /\ UNCHANGED <<links, req, served>>

\* Time passes while nobody asks.
Tick ==
  /\ req.pc = "read" /\ (poolWait > 0 \/ connWait > 0)
  /\ poolWait' = Less(poolWait) /\ connWait' = Less(connWait)
  /\ UNCHANGED <<net, sess, pool, conn, req, served>>

Step ==
  \/ Respond \/ Guard \/ InitPool \/ NoInit \/ FromPool \/ NoPool \/ Spare \/ Dedicated
  \/ OpenCursor \/ Verify \/ Execute \/ CallCancelled \/ Leave \/ Rollback \/ RollbackFails
  \/ Release

Next ==
  \/ Read \/ ReadForeign \/ Step \/ Fire
  \/ \E s \in Sid : CancelReaches(s)
  \/ NetworkChanges \/ Tick

Spec == Init /\ [][Next]_vars

\* The client goes on asking, time passes, and the calls of a sound session that are not
\* cancelled succeed now and then.
Fairness ==
  /\ WF_vars(Read) /\ SF_vars(Tick) /\ WF_vars(Step)
  /\ \A s \in Sid : WF_vars(CancelReaches(s))
  /\ SF_vars(Read /\ req'.tool = "catalog" /\ req'.pc = "guard")
  /\ SF_vars(Execute /\ req'.fail = "none")
LiveSpec == Spec /\ Fairness
-----------------------------------------------------------------------------
\* Between two requests no session is in use: a session that is kept is lost to the pool,
\* whose acquire waits for ever once all are (_abrir_cursor).
NoneBusy == req.pc = "read" => \A s \in Sid : ~sess[s].busy

\* No call meets a break that was meant for another one (cancel_after's ping).
NoStrayBreak ==
  req.pc = "read" => \A s \in Sid : sess[s].kind # "none" => ~sess[s].pending /\ ~sess[s].cancel

\* The rows of EXPLAIN PLAN never stay in a session that is kept (_desfazer_plano).
NoPlanKept == req.pc = "read" => \A s \in Sid : sess[s].kind # "none" => ~sess[s].plan

\* A statement that calls a stored function, or may do so for all one knows, never runs.
OnlyReads == req.ran => req.text \in {"read", "names"}

\* While the network is known to be gone no call sits through a deadline: neither the
\* pool nor the dedicated session is tried within its window (acquire_connection).
FastRefusal == req.early = {"pool", "conn"} => req.waited = 0

\* A network that stays up is used again: a call succeeds, whatever broke before.
Recovers == <>[]up => []<>served

\* JANELA_FALHA_CONEXAO_SEGUNDOS: in the window after a failed connection no call waits.
NoWaitInWindow == "conn" \in req.early => req.waited = 0

\* No request ends the loop (_responder_seguro).
Survives == req.pc # "ended"
=============================================================================
