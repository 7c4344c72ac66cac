--------------------------- MODULE WhatsAppDispatch ---------------------------
(***************************************************************************)
(* One process of lib/WhatsApp-Core.js that sends, in BATCH or AUTO mode:  *)
(* a client per attempt, whose handlers run on when the attempt is over.   *)
(* Each item is dispatched while its message_create and its ACK may come   *)
(* before sendMessage returns, later or never; deadlines, dropped sessions *)
(* and QR codes cut in at every await.                                     *)
(*                                                                         *)
(*   att        the attempt the process waits for                          *)
(*   t[a]       attempt a: client; at, where its 'ready' handler is;       *)
(*              item, results; fate (abortadoNestaTentativa and            *)
(*              loteConcluido, or finalized); leaving, the handlers that   *)
(*              wait for client.destroy(); settled, its promise            *)
(*   watch      of each attempt's item: the id its listener took (seen),   *)
(*              targetMsgId, acksRecebidos, ackConfirmado                  *)
(*   started, sent   <<a, i>>: sendMessage was called, the message left    *)
(*   consumed   IDS_DISPATCH_CONSUMIDOS                                    *)
(*   file       batch_result.json: who wrote it and what                   *)
(*   code       of the process; Running until it exits                     *)
(***************************************************************************)
EXTENDS Integers, Sequences

CONSTANTS
  Mode,           \* "BATCH" or "AUTO"
  Caption,        \* the captions of the items, in order; "" for none
  MaxAttempts,    \* INITIALIZE_MAX_ATTEMPTS
  LateReject,     \* BOOLEAN: initialize() may be rejected after 'ready'
  LateQr,         \* BOOLEAN: a QR code may be asked for after 'ready'
  Survives        \* BOOLEAN: a client may outlive destroy(), whose errors are dropped, or
                  \* its destroy() the time from 'ready' to the first dispatch

DispatchAssumption ==
  /\ Mode \in {"BATCH", "AUTO"} /\ MaxAttempts \in Nat \ {0}
  /\ Len(Caption) \in Nat \ {0} /\ (Mode = "AUTO" => Len(Caption) = 1)
  /\ {LateReject, LateQr, Survives} \subseteq BOOLEAN

VARIABLES att, t, watch, started, sent, consumed, file, code
vars == <<att, t, watch, started, sent, consumed, file, code>>

Attempt == 1..MaxAttempts
Item == 1..Len(Caption)
Message == Attempt \X Item
NoId == <<0, 0>>
NoFile == [by |-> 0, results |-> <<>>]
Running == -1

Ended == {"ok", "transient", "fatal", "nolid"}
NewAttempt == [client |-> "off", at |-> "none", item |-> 1, results |-> <<>>,
               fate |-> "open", leaving |-> {}, settled |-> "none"]
NewItem == [seen |-> NoId, target |-> NoId, acks |-> {}, acked |-> FALSE]

TypeOK ==
  /\ att \in Attempt /\ code \in {Running, 0, 4, 21, 24}
  /\ t \in [Attempt -> [client : {"off", "live", "dead"},
                        at : {"none", "settle", "next", "sending", "observe", "ack", "report", "drain", "done"},
                        item : Item, results : Seq(BOOLEAN), fate : {"open", "aborted", "concluded"},
                        leaving : SUBSET (Ended \cup {"dropped", "logout", "qr"}),
                        settled : {"none"} \cup Ended]]
  /\ watch \in [Attempt -> [seen : Message \cup {NoId}, target : Message \cup {NoId},
                            acks : SUBSET Message, acked : BOOLEAN]]
  /\ sent \subseteq started /\ started \subseteq Message /\ consumed \subseteq sent
  /\ file.by \in 0..MaxAttempts /\ file.results \in Seq(BOOLEAN)

Init ==
  /\ att = 1 /\ t = [a \in Attempt |-> NewAttempt] /\ watch = [a \in Attempt |-> NewItem]
  /\ started = {} /\ sent = {} /\ consumed = {} /\ file = NoFile /\ code = Running

Lives(a) == code = Running /\ t[a].client = "live"
Messages == <<started, sent, consumed>>
Put(a, r) == t' = [t EXCEPT ![a] = r]
Settle(r, how) == IF r.settled = "none" THEN [r EXCEPT !.settled = how] ELSE r
Abort(r) == IF r.fate = "open" THEN [r EXCEPT !.fate = "aborted"] ELSE r
Exit(c) == code' = c
-----------------------------------------------------------------------------
\* The bootstrap of an attempt: criarCliente and initialize(), or no session on disk.
Bootstrap ==
  /\ code = Running /\ t[att].client = "off"
  /\ \/ Put(att, [t[att] EXCEPT !.client = "live"]) /\ UNCHANGED code
     \/ att = 1 /\ Exit(21) /\ UNCHANGED t
  /\ UNCHANGED <<att, watch, Messages, file>>

\* A handler that ends the attempt starts: it awaits destroy(), and decides after that.
\* finalizeAndReject is for the first of them; a batch lets all of them reject, and a QR
\* code asks nobody.
Leave(a, why) ==
  /\ Lives(a) /\ why \notin t[a].leaving
  /\ Mode = "AUTO" /\ why # "qr" => t[a].fate = "open"
  /\ Put(a, [(IF why \in Ended \/ (Mode = "AUTO" /\ why = "dropped") THEN Abort(t[a]) ELSE t[a])
             EXCEPT !.leaving = @ \cup {why}])
  /\ UNCHANGED <<att, watch, Messages, file, code>>

BootstrapDeadline(a) == a = att /\ t[a].at = "none" /\ Leave(a, "transient")
InitializeRejects(a) == \E how \in {"transient", "fatal"} : (t[a].at = "none" \/ LateReject) /\ Leave(a, how)
AuthFailure(a) == t[a].at = "none" /\ Leave(a, "fatal")
QrCode(a) == (t[a].at = "none" \/ LateQr) /\ Leave(a, "qr")
Disconnected(a) == \E why \in {"dropped", "logout"} : Leave(a, why)

\* destroy() returns to the handler that awaits it. A batch that is concluded and
\* recorded exits as it would have, also when its device is unlinked.
Destroyed(a) == \E why \in t[a].leaving :
  LET gone == [t[a] EXCEPT !.client = "dead", !.leaving = @ \ {why}]
      after == IF why = "dropped" THEN Settle(Abort(gone), "fatal")
               ELSE IF why \in Ended THEN Settle(gone, why) ELSE gone
      spared == Mode = "BATCH" /\ t[a].fate = "concluded" /\ why \in {"dropped", "logout"}
  IN /\ code = Running
     /\ \E r \in {after} \cup (IF Survives THEN {[after EXCEPT !.client = t[a].client]} ELSE {}) :
          Put(a, IF spared THEN [gone EXCEPT !.client = r.client] ELSE r)
     /\ IF why \in {"qr", "logout"} /\ ~spared THEN Exit(21) ELSE UNCHANGED code
     /\ UNCHANGED <<att, watch, Messages, file>>

\* The process hears of its attempt: it exits, or retries what may be retried.
Conclude ==
  /\ code = Running /\ t[att].settled # "none"
  /\ CASE t[att].settled = "ok" ->
            Exit(IF FALSE \in {t[att].results[i] : i \in DOMAIN t[att].results} THEN 4 ELSE 0)
            /\ UNCHANGED att
       [] t[att].settled = "nolid" -> Exit(0) /\ UNCHANGED att
       [] t[att].settled = "transient" /\ att < MaxAttempts ->
            \/ att' = att + 1 /\ UNCHANGED code
            \/ Exit(24) /\ UNCHANGED att      \* no session on disk any more
       [] OTHER -> Exit(24) /\ UNCHANGED att
  /\ UNCHANGED <<t, watch, Messages, file>>
-----------------------------------------------------------------------------
\* The 'ready' handler.
Ready(a) ==
  /\ Lives(a) /\ t[a].at = "none"
  /\ Put(a, [t[a] EXCEPT !.at = "settle"])
  /\ UNCHANGED <<att, watch, Messages, file, code>>

\* The settle time and verificarEstadoConectado outlast a destroy() that began before.
Settled(a) ==
  /\ code = Running /\ t[a].at = "settle"
  /\ Survives \/ \A b \in Attempt : t[b].leaving = {}
  /\ Put(a, [t[a] EXCEPT !.at = "next"])
  /\ UNCHANGED <<att, watch, Messages, file, code>>

\* AUTO: what comes before the dispatch (warm-up, mentions) may fail, and be retried.
Prepare(a) ==
  /\ Mode = "AUTO" /\ code = Running /\ t[a].at = "next"
  /\ \E how \in {"transient", "fatal", "nolid"} :
       Put(a, [(IF t[a].fate = "open" THEN [Abort(t[a]) EXCEPT !.leaving = @ \cup {how}] ELSE t[a])
               EXCEPT !.at = "done"])
  /\ UNCHANGED <<att, watch, Messages, file, code>>

\* The item's listeners are put in place and sendMessage is called.
Send(a) ==
  /\ code = Running /\ t[a].at = "next"
  /\ Put(a, [t[a] EXCEPT !.at = "sending"])
  /\ started' = started \cup (IF Lives(a) THEN {<<a, t[a].item>>} ELSE {})
  /\ UNCHANGED <<att, watch, sent, consumed, file, code>>

\* A message leaves, while sendMessage is awaited or after it failed.
Transmit(m) ==
  /\ Lives(m[1]) /\ m \in started \ sent
  /\ sent' = sent \cup {m}
  /\ UNCHANGED <<att, t, watch, started, consumed, file, code>>

\* extrairIdMensagemCriada: the caption must be the item's; without one the id must be new.
Matches(a, m) ==
  LET body == Caption[t[a].item]
  IN IF body # "" THEN Caption[m[2]] = body ELSE m \notin consumed

\* message_create comes, once sent, to the listener of the attempt's item.
MessageCreate(a, m) ==
  /\ Lives(a) /\ m \in sent /\ m[1] = a
  /\ t[a].at \in {"sending", "observe"} /\ watch[a].seen = NoId /\ Matches(a, m)
  /\ watch' = [watch EXCEPT ![a].seen = m]
  /\ UNCHANGED <<att, t, Messages, file, code>>

\* registrarAckRecebido.
MessageAck(a, m) ==
  /\ Lives(a) /\ m \in sent /\ m[1] = a /\ m \notin watch[a].acks
  /\ t[a].at \in {"sending", "observe", "ack"}
  /\ watch' = [watch EXCEPT ![a].acks = @ \cup {m}, ![a].acked = @ \/ watch[a].target = m]
  /\ UNCHANGED <<att, t, Messages, file, code>>

\* enviarComConfirmacaoDeDispatch returns an id, and definirTargetMsgId looks for its ACK.
Dispatched(a, m) ==
  /\ Put(a, [t[a] EXCEPT !.at = "ack"])
  /\ consumed' = consumed \cup {m}
  /\ watch' = [watch EXCEPT ![a].target = m, ![a].acked = m \in watch[a].acks]
  /\ UNCHANGED <<att, started, sent, file, code>>

\* The item is over and its listeners are removed. Two failures in a row end the batch:
\* the circuit breaker.
ItemDone(r, ok) ==
  LET results == Append(r.results, ok)
      n == Len(results)
      broken == ~ok /\ n > 1 /\ ~results[n - 1]
  IN IF n = Len(Caption) \/ broken
     THEN [r EXCEPT !.at = "report",
                    !.results = [i \in Item |-> IF i <= n THEN results[i] ELSE FALSE]]
     ELSE [r EXCEPT !.at = "next", !.results = results, !.item = @ + 1]

Finish(a, ok) ==
  /\ Put(a, ItemDone(t[a], ok))
  /\ watch' = [watch EXCEPT ![a] = NewItem]
  /\ UNCHANGED <<att, Messages, file, code>>

\* sendMessage returns, with an id or without one: then the event must tell.
Returns(a) ==
  /\ Lives(a) /\ t[a].at = "sending"
  /\ \/ <<a, t[a].item>> \in sent /\ Dispatched(a, <<a, t[a].item>>)
     \/ watch[a].seen # NoId /\ Dispatched(a, watch[a].seen)
     \/ /\ watch[a].seen = NoId
        /\ Put(a, [t[a] EXCEPT !.at = "observe"])
        /\ UNCHANGED <<att, watch, Messages, file, code>>

Observed(a) ==
  /\ code = Running /\ t[a].at = "observe"
  /\ IF watch[a].seen # NoId THEN Dispatched(a, watch[a].seen) ELSE Finish(a, FALSE)

\* sendMessage throws, as it does on a client that is gone; or the image is missing.
Rejects(a) ==
  /\ code = Running /\ t[a].at \in IF Mode = "BATCH" THEN {"next", "sending"} ELSE {"sending"}
  /\ Finish(a, FALSE)

\* aguardarAck: the ACK is there, or its time is over. Nothing depends on it.
AckWaited(a) == code = Running /\ t[a].at = "ack" /\ Finish(a, TRUE)

\* BATCH: what an attempt that was aborted has to say is dropped; the result is written
\* before the drain, or the write fails and is logged.
Report(a) ==
  /\ Mode = "BATCH" /\ code = Running /\ t[a].at = "report"
  /\ IF t[a].fate = "aborted"
     THEN Put(a, [t[a] EXCEPT !.at = "done", !.client = "dead"]) /\ UNCHANGED file
     ELSE /\ Put(a, [t[a] EXCEPT !.at = "drain", !.fate = "concluded"])
          /\ file' \in {file, [by |-> a, results |-> t[a].results]}
  /\ UNCHANGED <<att, watch, Messages, code>>

\* The drain is over: destroy, resolve.
Drained(a) ==
  /\ Mode = "BATCH" /\ code = Running /\ t[a].at = "drain"
  /\ Put(a, Settle([t[a] EXCEPT !.at = "done", !.client = "dead"], "ok"))
  /\ UNCHANGED <<att, watch, Messages, file, code>>

\* AUTO: finalizeAndResolve, or finalizeAndReject with dispatchTentado: never retried.
Finalize(a) ==
  /\ Mode = "AUTO" /\ code = Running /\ t[a].at = "report"
  /\ \E how \in IF t[a].results[1] THEN {"ok"} ELSE {"fatal", "nolid"} :
       /\ how = "nolid" => <<a, 1>> \notin sent
       /\ Put(a, [(IF t[a].fate # "open" THEN t[a]
                   ELSE [t[a] EXCEPT !.fate = IF how = "ok" THEN "concluded" ELSE "aborted",
                                     !.leaving = @ \cup {how}])
                  EXCEPT !.at = "done"])
  /\ UNCHANGED <<att, watch, Messages, file, code>>
-----------------------------------------------------------------------------
Handler(a) ==
  \/ Settled(a) \/ Prepare(a) \/ Send(a) \/ Returns(a) \/ Observed(a)
  \/ Rejects(a) \/ AckWaited(a) \/ Report(a) \/ Drained(a) \/ Finalize(a)

Events(a) ==
  \/ BootstrapDeadline(a) \/ InitializeRejects(a) \/ AuthFailure(a) \/ QrCode(a)
  \/ Disconnected(a) \/ Ready(a)
  \/ \E i \in Item : Transmit(<<a, i>>) \/ MessageCreate(a, <<a, i>>) \/ MessageAck(a, <<a, i>>)

Next == Bootstrap \/ Conclude \/ \E a \in Attempt : Events(a) \/ Destroyed(a) \/ Handler(a)

Spec == Init /\ [][Next]_vars

\* Timers, handlers and continuations run; whether WhatsApp ever answers is open, and
\* protocolTimeout and the windows of the observation and the ACK bound every wait.
Fairness ==
  /\ WF_vars(Bootstrap) /\ WF_vars(Conclude)
  /\ \A a \in Attempt : WF_vars(BootstrapDeadline(a)) /\ WF_vars(Destroyed(a)) /\ WF_vars(Handler(a))
-----------------------------------------------------------------------------
\* What is reported as delivered left: in the results of every attempt, in the file
\* run.ps1 reads, and by exit code 0 (but for a contact that has no WhatsApp).
ReportedWasSent ==
  LET True(results) == \A i \in DOMAIN results : results[i] => \E m \in sent : m[2] = i
  IN /\ \A a \in Attempt : True(t[a].results)
     /\ True(file.results)
     /\ code = 0 /\ t[att].settled # "nolid" => \A i \in Item : \E m \in sent : m[2] = i

\* No attempt sends what another has sent: a retry comes only before the first dispatch.
SentOnce == \A m, n \in sent : m[2] = n[2] => m = n

\* A batch that was recorded exits as recorded (0 or 4), although the session drops in
\* the drain; and one that exits so is recorded, unless the write failed.
RecordedIsConcluded ==
  /\ file # NoFile => t[file.by].fate = "concluded" /\ code \in {Running, 0, 4}
  /\ Mode = "BATCH" /\ code \in {0, 4} => /\ t[att].fate = "concluded"
                                          /\ file \in {NoFile, [by |-> att, results |-> t[att].results]}

\* Only the attempt that the process waits for writes the result, once.
StaleIsDropped == [][file' # file => file = NoFile /\ file'.by = att /\ t[att].settled = "none"]_vars

\* An ACK that came before the id of its message was known counts as one that came after.
EarlyAckCounts == \A a \in Attempt :
  t[a].at = "ack" => (watch[a].acked <=> watch[a].target \in watch[a].acks)

\* Whatever never answers, the process exits and its caller goes on.
Exits == <>(code # Running)
=============================================================================
