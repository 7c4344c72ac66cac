---------------------------- MODULE ObsParadasFase ----------------------------
(***************************************************************************)
(* The runs of OBs Paradas Fase (run.ps1, extract_obs.py,                  *)
(* generate_phase_cards.py and the batch of lib/WhatsApp-Core.js): extract *)
(* the orders, stop if nothing changed, make a card per phase, send those  *)
(* that were not delivered in one batch, and commit.                       *)
(*                                                                         *)
(*   lot, cfg   what the query returns now, and config.json (indices)      *)
(*   state, tmp the lots of obs_state.json and its .tmp, 0: none           *)
(*   file       delivery_state.json: [hash, ok, ko], the phases delivered  *)
(*              and failed; batch: batch_result.json, or Absent            *)
(*   run        the process: step, its cards, the delivery state in its    *)
(*              memory, the batch: queue, results, failures in a row,      *)
(*              attempts, exit code                                        *)
(*   sent       <<lot, phase>>: a card of it reached the group             *)
(*   told       the phases that did since the lot that is read changed,    *)
(*              those of them whose result was lost with its process, and  *)
(*              whether `file` has taken the results of another batch      *)
(*   left       changes and faults still to come                           *)
(***************************************************************************)
EXTENDS Integers, FiniteSets, Sequences, SequencesExt

CONSTANTS
  Lot,            \* sequence of sets of rows
  Config,         \* sequence of configurations
  Absent,
  Kill,           \* BOOLEAN: a run may be killed
  Reconfigure,    \* BOOLEAN: config.json may change
  LateQr,         \* BOOLEAN: a QR code may be asked for after the result was written
  Drop,           \* BOOLEAN: the session or the attempt may end within a batch
  MaxAttempts,    \* INITIALIZE_MAX_ATTEMPTS
  MaxFaults       \* bound: changes and faults

-----------------------------------------------------------------------------
(* Which orders are shown (lib/python/obp_config.py and                    *)
(* generate_phase_cards.py): the filter on a phase's threshold, the groups *)
(* per phase, the cap on a card, and the text of format_message.py. A row  *)
(* is [ob, phase, days]; a configuration gives the threshold of each phase *)
(* that is watched, the order of the phases, max_obs_por_mensagem and the  *)
(* rows that fit on a card.                                                *)

\* _filter_obs: watched, and at or above the threshold of its phase.
Filtered(rows, cfg) ==
  {r \in rows : r.phase \in DOMAIN cfg.threshold /\ r.days >= cfg.threshold[r.phase]}

Longest(rows) == CHOOSE d \in {r.days : r \in rows} : \A r \in rows : r.days <= d
OfPhase(rows, p) == {r \in rows : r.phase = p}

\* _phase_sort_key: phases outside the order come last.
Place(p, cfg) == IF p \in Range(cfg.order) THEN CHOOSE i \in 1..Len(cfg.order) : cfg.order[i] = p
                 ELSE Len(cfg.order) + 1

\* group_obs_by_phase: phases in their order, those that stand the longest first.
Phases(rows, cfg) ==
  SetToSortSeq({r.phase : r \in rows},
    LAMBDA p, q : \/ Place(p, cfg) < Place(q, cfg)
                  \/ Place(p, cfg) = Place(q, cfg)
                     /\ Longest(OfPhase(rows, p)) > Longest(OfPhase(rows, q)))

\* The rows a cap of n leaves: those that stand the longest.
Top(rows, n) ==
  Range(SubSeq(SetToSortSeq(rows, LAMBDA r, s : r.days > s.days), 1,
               IF Cardinality(rows) < n THEN Cardinality(rows) ELSE n))

\* The groups, each with its cap.
Capped(rows, cfg, cap) ==
  LET kept   == Filtered(rows, cfg)
      phases == Phases(kept, cfg)
  IN  [i \in 1..Len(phases) |-> [key |-> phases[i], rows |-> Top(OfPhase(kept, phases[i]), cap)]]

\* _group_obs and the manifest: a card per phase.
Cards(rows, cfg) == Capped(rows, cfg, IF cfg.tall < cfg.most THEN cfg.tall ELSE cfg.most)

\* build_message: the sections, and the totals "n of m orders" of its last line.
Message(rows, cfg) ==
  LET sections == Capped(rows, cfg, cfg.most)
  IN  [sections |-> sections, all |-> Cardinality(Filtered(rows, cfg)),
       shown |-> FoldSeq(LAMBDA c, n : Cardinality(c.rows) + n, 0, sections)]

Keys(cards) == {c.key : c \in Range(cards)}

AllKeys == UNION {{r.phase : r \in Lot[i]} : i \in 1..Len(Lot)}

\* The groups are those of a dict of the lot's rows: sorted() leaves one of each phase.
CardPerPhase ==
  \A i \in 1..Len(Lot), j \in 1..Len(Config) :
    LET cards == Cards(Lot[i], Config[j])
    IN  /\ Len(cards) \in Nat /\ DOMAIN cards = 1..Len(cards) /\ Keys(cards) \subseteq AllKeys
        /\ \A a, b \in DOMAIN cards : cards[a].key = cards[b].key => a = b

PhaseAssumption ==
  /\ Len(Lot) \in Nat \ {0} /\ Len(Config) \in Nat \ {0} /\ CardPerPhase
  /\ MaxAttempts \in Nat \ {0} /\ MaxFaults \in Nat
  /\ {Kill, Reconfigure, LateQr, Drop} \subseteq BOOLEAN
  /\ Absent \notin [ok : SUBSET AllKeys, ko : SUBSET AllKeys]
-----------------------------------------------------------------------------
VARIABLES lot, cfg, state, tmp, file, batch, run, sent, told, left
history == <<sent, told>>
files == <<state, tmp, file, batch>>
vars == <<lot, cfg, files, run, history, left>>

NoDelivery == [hash |-> 0, ok |-> {}, ko |-> {}]
Idle == [pc |-> "idle", cards |-> <<>>, mem |-> NoDelivery, queue |-> {}, ok |-> {}, ko |-> {},
         row |-> 0, attempt |-> 1, code |-> 0]

TypeOK ==
  /\ lot \in 1..Len(Lot) /\ cfg \in 1..Len(Config)
  /\ state \in 0..Len(Lot) /\ tmp \in 0..Len(Lot) /\ (tmp # 0 => run.pc # "idle" \/ Kill)
  /\ file.hash \in 0..Len(Lot) /\ file.ok \cap file.ko = {}
  /\ batch = Absent \/ batch.ok \cap batch.ko = {}
  /\ run.pc \in {"idle", "extract", "cards", "idempotency", "batch", "drain", "parse", "end"}
  /\ run.row \in 0..2 /\ run.attempt \in 1..MaxAttempts /\ run.code \in {0, 4, 21, 24}
  /\ sent \subseteq (1..Len(Lot)) \X AllKeys /\ told.keys \subseteq AllKeys /\ told.lost \subseteq AllKeys
  /\ told.taken \in BOOLEAN /\ left \in 0..MaxFaults

Init ==
  /\ lot \in 1..Len(Lot) /\ cfg = 1
  /\ state = 0 /\ tmp = 0 /\ file = NoDelivery /\ batch = Absent
  /\ run = Idle /\ sent = {} /\ told = [lot |-> 0, keys |-> {}, lost |-> {}, taken |-> FALSE]
  /\ left = MaxFaults

Goto(pc) == run' = [run EXCEPT !.pc = pc]
-----------------------------------------------------------------------------
Start ==
  /\ run.pc = "idle" /\ Goto("extract")
  /\ UNCHANGED <<lot, cfg, files, history, left>>

ReadsLot == told' = IF told.lot = lot THEN told ELSE [told EXCEPT !.lot = lot, !.keys = {}, !.lost = {}]

\* extract: the same lot as the last one committed ends the run.
Extract ==
  /\ run.pc = "extract"
  /\ \/ state = lot /\ Goto("end") /\ UNCHANGED tmp
     \/ state # lot /\ tmp' = lot /\ Goto("cards")
  /\ ReadsLot
  /\ UNCHANGED <<lot, cfg, state, file, batch, sent, left>>

ExtractFails ==
  /\ run.pc = "extract" /\ left > 0 /\ left' = left - 1
  /\ Goto("end") /\ UNCHANGED <<lot, cfg, files, history>>

\* generate_phase_cards.main, on the rows that were extracted.
MakeCards ==
  /\ run.pc = "cards"
  /\ LET cards == Cards(Lot[tmp], Config[cfg])
     IN  IF cards = <<>> THEN Goto("end")
         ELSE run' = [run EXCEPT !.pc = "idempotency", !.cards = cards]
  /\ UNCHANGED <<lot, cfg, files, history, left>>

\* The delivery state of this lot: that of another one is reset.
Loaded == IF file.hash = tmp THEN file ELSE [NoDelivery EXCEPT !.hash = tmp]

\* The cards, by their place, of phases that were not delivered.
Pending(mem) == {i \in DOMAIN run.cards : run.cards[i].key \notin mem.ok}
KeysAt(places) == {run.cards[i].key : i \in places}

\* As many phases delivered as there are cards, or none of them left: the lot is done.
Idempotency ==
  /\ run.pc = "idempotency"
  /\ IF Cardinality(Loaded.ok) = Len(run.cards) \/ Pending(Loaded) = {}
     THEN state' = tmp /\ tmp' = 0 /\ Goto("end")
     ELSE /\ run' = [run EXCEPT !.pc = "batch", !.mem = Loaded, !.queue = Pending(Loaded)]
          /\ UNCHANGED <<state, tmp>>
  /\ UNCHANGED <<lot, cfg, file, batch, history, left>>
-----------------------------------------------------------------------------
Arrives(key) == sent' = sent \cup {<<tmp, key>>} /\ told' = [told EXCEPT !.keys = @ \cup {key}]

\* executarFluxoBatch: one card. A card that is not confirmed may have arrived. Two
\* failures in a row fail the rest.
SendCard ==
  /\ run.pc = "batch"
  /\ \E i \in run.queue :
       LET key == run.cards[i].key
       IN  /\ \A j \in run.queue : i <= j
           /\ \/ /\ Arrives(key)
                 /\ run' = [run EXCEPT !.queue = @ \ {i}, !.ok = @ \cup {key}, !.row = 0]
                 /\ UNCHANGED left
              \/ /\ left > 0 /\ left' = left - 1
                 /\ Arrives(key) \/ UNCHANGED history
                 /\ run' = IF run.row = 1
                           THEN [run EXCEPT !.queue = {}, !.ko = @ \cup KeysAt(run.queue), !.row = 2]
                           ELSE [run EXCEPT !.queue = @ \ {i}, !.ko = @ \cup {key}, !.row = 1]
  /\ UNCHANGED <<lot, cfg, files>>

\* gravarResultadoLote, then the drain.
BatchDone ==
  /\ run.pc = "batch" /\ run.queue = {}
  /\ batch' = [ok |-> run.ok, ko |-> run.ko]
  /\ run' = [run EXCEPT !.pc = "drain", !.code = IF run.ko = {} THEN 0 ELSE 4]
  /\ UNCHANGED <<lot, cfg, state, tmp, file, history, left>>

\* Nobody will read how the cards of this batch fared.
Loses == told' = [told EXCEPT !.lost = @ \cup (KeysAt(Pending(run.mem)) \cap told.keys)]

\* The device was unlinked (21), or the session cannot be set up (24): no result.
BatchLost ==
  /\ Drop /\ run.pc = "batch" /\ left > 0 /\ left' = left - 1
  /\ run' \in {[run EXCEPT !.pc = "parse", !.code = 21], [run EXCEPT !.pc = "parse", !.code = 24]}
  /\ Loses
  /\ UNCHANGED <<lot, cfg, files, sent>>

\* initialize() is rejected while the batch is under way: the next attempt sends it all.
BatchAgain ==
  /\ Drop /\ run.pc = "batch" /\ left > 0 /\ left' = left - 1
  /\ run.attempt < MaxAttempts
  /\ run' = [run EXCEPT !.attempt = @ + 1, !.queue = Pending(run.mem), !.ok = {}, !.ko = {}, !.row = 0]
  /\ Loses
  /\ UNCHANGED <<lot, cfg, files, sent>>

\* A QR code in the drain exits with 21 although the result is written.
Drained ==
  /\ run.pc = "drain"
  /\ \/ Goto("parse") /\ UNCHANGED <<left, told>>
     \/ /\ LateQr /\ left > 0 /\ left' = left - 1
        /\ run' = [run EXCEPT !.pc = "parse", !.code = 21]
        /\ Loses
  /\ UNCHANGED <<lot, cfg, files, sent>>

\* What the results say of the cards that were sent: no result is a failure.
Recorded(res) ==
  LET good == KeysAt(Pending(run.mem)) \cap res.ok
      bad  == KeysAt(Pending(run.mem)) \ res.ok
  IN  [run.mem EXCEPT !.ok = (@ \cup good) \ bad, !.ko = (@ \cup bad) \ good]

Commits(mem) == mem.ko = {}

\* The results are read and deleted; the delivery state is written, and the lot is
\* committed when no phase has failed. After 21 the run ends before that. A sender
\* that ends with 24 has written none: those it finds are of an earlier process.
Parse ==
  /\ run.pc = "parse"
  /\ IF run.code = 21
     THEN UNCHANGED <<files, told>>
     ELSE LET mem == Recorded(IF batch = Absent THEN [ok |-> {}, ko |-> {}] ELSE batch)
          IN  /\ file' = mem /\ batch' = Absent
              /\ IF Commits(mem) THEN state' = tmp /\ tmp' = 0 ELSE UNCHANGED <<state, tmp>>
              /\ told' = [told EXCEPT !.taken = (@ /\ file.hash = tmp) \/ (run.code = 24 /\ batch # Absent)]
  /\ Goto("end")
  /\ UNCHANGED <<lot, cfg, sent, left>>

\* The finally of run.ps1.
End ==
  /\ run.pc = "end"
  /\ tmp' = 0 /\ run' = Idle
  /\ UNCHANGED <<lot, cfg, state, file, batch, history, left>>

Killed ==
  /\ Kill /\ run.pc # "idle" /\ left > 0 /\ left' = left - 1
  /\ run' = Idle
  /\ IF run.pc \in {"batch", "drain", "parse"} THEN Loses ELSE UNCHANGED told
  /\ UNCHANGED <<lot, cfg, files, sent>>

LotChanges ==
  /\ left > 0 /\ left' = left - 1 /\ lot' \in 1..Len(Lot) \ {lot}
  /\ UNCHANGED <<cfg, files, run, history>>

ConfigChanges ==
  /\ Reconfigure /\ left > 0 /\ left' = left - 1 /\ cfg' \in 1..Len(Config) \ {cfg}
  /\ UNCHANGED <<lot, files, run, history>>

Step ==
  \/ Start \/ Extract \/ MakeCards \/ Idempotency \/ SendCard \/ BatchDone \/ Drained \/ Parse \/ End

Next == Step \/ ExtractFails \/ BatchLost \/ BatchAgain \/ Killed \/ LotChanges \/ ConfigChanges

Spec == Init /\ [][Next]_vars

\* The schedule starts runs, and a run goes on.
Fairness == WF_vars(Step)
LiveSpec == Spec /\ Fairness
-----------------------------------------------------------------------------
\* "delivery_state.json registra sucesso por fase": a phase recorded as delivered was
\* sent, unless the run took the results that another process left unread.
RecordedWasSent == ~told.taken => \A p \in file.ok : <<file.hash, p>> \in sent

\* A lot is committed when the cards of all its phases were sent (run.ps1:325), unless
\* the run took the results that another process left unread.
CommitsWhatWasSent ==
  [][state' # state => told'.taken \/ \A c \in Range(run.cards) : <<state', c.key>> \in sent]_vars

\* A card whose delivery is on record for this lot is not sent again.
NoResend ==
  [][run.pc = "batch" => \A p \in KeysAt(run.queue) : ~(file.hash = tmp /\ p \in file.ok)]_vars

\* "Reenvio só ocorre quando hash muda ou fase falhou": within a lot, what goes out a
\* second time had been reported as failed, or its result was lost.
ResendsOnlyFailures ==
  [][\A p \in run'.ok \ run.ok :
       p \notin told.keys \/ p \in told.lost \/ (file.hash = tmp /\ p \in file.ko)]_vars

\* The cards and the message of one extraction show the same phases, all that have an
\* order over their threshold, and the message leaves out no order of a card.
SamePhases ==
  run.pc = "idempotency" /\ cfg = 1 =>
    LET m == Message(Lot[tmp], Config[1])
    IN  /\ [i \in DOMAIN m.sections |-> m.sections[i].key] = [i \in DOMAIN run.cards |-> run.cards[i].key]
        /\ Keys(run.cards) = {r.phase : r \in Filtered(Lot[tmp], Config[1])}
        /\ \A i \in DOMAIN m.sections : run.cards[i].rows \subseteq m.sections[i].rows
        /\ m.shown <= m.all

\* In the end the lot that stays is committed, or there is no card to send.
Delivered == <>[](state = lot \/ Cards(Lot[lot], Config[cfg]) = <<>>)
=============================================================================
