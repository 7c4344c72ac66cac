----------------------- MODULE MontagemTerceirizados -----------------------
(***************************************************************************)
(* The runs of Montagem de Terceirizados (run.ps1 and                      *)
(* validate_and_generate_html.py): compare the invoice of every batch with *)
(* what was mounted and programmed, decide what kind of notice is due,     *)
(* e-mail it, and commit the cache of known errors.                        *)
(*                                                                         *)
(*   rows      what the Oracle query returns now                           *)
(*   cache     .cache_erros.json: the errors last committed, and when the  *)
(*             last reminder was prepared; tmp: its provisional copy       *)
(*   file      delivery_state.json                                         *)
(*   clock     the time; every payload carries the second it was made in   *)
(*   run       the PowerShell process: its step, the attempts of the       *)
(*             validation begun, whether .data_<id>.json is there, the     *)
(*             data it extracted, the payload                              *)
(*                                                                         *)
(* History: told, the errors the e-mail's readers saw last; reminded, when *)
(* the last reminder that was sent and committed was prepared; cut, a      *)
(* crash kept the last delivery from being committed; crashes; changes.    *)
(***************************************************************************)
EXTENDS DeliveryState, Integers, FiniteSets

CONSTANTS
  Row,            \* rows: [ob, mounted, programmed]
  Interval,       \* LEMBRETE_INTERVALO_MINUTOS
  Attempts,       \* MaxAttempts of the validation
  MaxTime,        \* bound: the clock
  MaxCrashes,     \* bound: crashes
  MaxChanges      \* bound: changes of the data

Never == -1
NoCache == [items |-> {}, reminder |-> Never, exists |-> FALSE]
NoPayload == [kind |-> "NENHUMA", items |-> {}, at |-> Never]

Kinds == {"NENHUMA", "ERRO", "ALTERACAO", "LEMBRETE", "ACERTO"}
Payloads == [kind : Kinds, items : SUBSET Row, at : Never..MaxTime]
States == [hash : {NoHash} \cup Payloads, ok : [Channel -> BOOLEAN]]

MontagemAssumption ==
  /\ Row \subseteq [ob : Nat, mounted : {"right", "wrong", "unread"}, programmed : {"right", "wrong"}]
  /\ IsFiniteSet(Row) /\ Channel = {"email"}
  /\ Interval \in Nat \ {0} /\ Attempts \in Nat \ {0}
  /\ MaxTime \in Nat /\ MaxCrashes \in Nat /\ MaxChanges \in Nat
  /\ NoHash \notin Payloads /\ {Absent, Torn} \cap States = {}

VARIABLES rows, cache, tmp, file, clock, run, told, reminded, cut, crashes, changes

files == <<cache, tmp, file>>
history == <<told, reminded, cut, crashes, changes>>
vars == <<rows, files, clock, run, history>>

Idle == [pc |-> "end", attempt |-> 0, data |-> FALSE, rows |-> {}, payload |-> NoPayload]

Caches == [items : SUBSET Row, reminder : Never..MaxTime, exists : BOOLEAN]

TypeOK ==
  /\ rows \subseteq Row
  /\ cache \in Caches /\ tmp \in Caches
  /\ file \in {Absent, Torn} \cup States
  /\ clock \in 0..MaxTime
  /\ run \in [pc : {"end", "validate", "retry", "email", "save", "commit"}, attempt : 0..Attempts,
              data : BOOLEAN, rows : SUBSET Row, payload : Payloads]
  /\ told \subseteq Row /\ reminded \in Never..MaxTime /\ cut \in BOOLEAN
  /\ crashes \in 0..MaxCrashes /\ changes \in 0..MaxChanges

Init ==
  /\ rows = {} /\ cache = NoCache /\ tmp = NoCache /\ file = Absent
  /\ clock = 0 /\ run = Idle
  /\ told = {} /\ reminded = Never /\ cut = FALSE /\ crashes = 0 /\ changes = 0
-----------------------------------------------------------------------------
\* processar_validacao: a row whose mounted pieces cannot be parsed has no
\* mounted piece, hence none with a wrong invoice.
Divergent(r) == r.mounted = "wrong" \/ r.programmed = "wrong"

Errors(rs) == {r \in rs : Divergent(r)}

ReminderDue == cache.reminder = Never \/ clock - cache.reminder >= Interval

\* Mutated form: fixed errors alone are no change.
KindIgnoresFixed(now) ==
  CASE ~cache.exists -> IF now # {} THEN "ERRO" ELSE "NENHUMA"
    [] cache.exists /\ now = {} -> IF cache.items # {} THEN "ACERTO" ELSE "NENHUMA"
    [] cache.exists /\ now # {} /\ cache.items = {} -> "ERRO"
    [] cache.exists /\ now # {} /\ cache.items # {} /\ ~(now \subseteq cache.items) -> "ALTERACAO"
    [] OTHER -> IF ReminderDue THEN "LEMBRETE" ELSE "NENHUMA"

\* The kind of notice: main, from the errors now and those of the cache.
Kind(now) ==
  CASE ~cache.exists -> IF now # {} THEN "ERRO" ELSE "NENHUMA"
    [] cache.exists /\ now = {} -> IF cache.items # {} THEN "ACERTO" ELSE "NENHUMA"
    [] cache.exists /\ now # {} /\ cache.items = {} -> "ERRO"
    [] cache.exists /\ now # {} /\ cache.items # {} /\ now # cache.items -> "ALTERACAO"
    [] OTHER -> IF ReminderDue THEN "LEMBRETE" ELSE "NENHUMA"

Hash == run.payload

Suppressed == ~Pending(UpdateHash(ReadState(file), Hash), "email", Hash)
-----------------------------------------------------------------------------
\* A run of the schedule extracts the rows; the one before took its time.
Start ==
  /\ run.pc = "end" /\ clock < MaxTime
  /\ clock' = clock + 1
  /\ run' = [Idle EXCEPT !.pc = "validate", !.attempt = 1, !.data = TRUE, !.rows = rows]
  /\ UNCHANGED <<rows, files, history>>

\* The extraction fails, or the pre-flight: the run ends, and its last block
\* deletes the provisional cache.
Fails ==
  /\ run.pc = "validate" /\ run.attempt = 1
  /\ run' = Idle /\ tmp' = NoCache
  /\ UNCHANGED <<rows, cache, file, clock, history>>

\* last_reminder_at of the provisional cache.
ReminderAfter(kind) == IF kind = "LEMBRETE" THEN clock ELSE cache.reminder

\* One attempt of the validation: the data file is read and deleted, then a
\* notice and a provisional cache are written, if one is due.
Validate ==
  /\ run.pc = "validate" /\ run.data
  /\ LET now == Errors(run.rows)
         kind == Kind(now)
     IN  IF kind = "NENHUMA"
           THEN run' = Idle /\ tmp' = NoCache
           ELSE /\ tmp' = [items |-> now, reminder |-> ReminderAfter(kind), exists |-> TRUE]
                /\ run' = [run EXCEPT !.pc = "email", !.data = FALSE,
                             !.payload = [kind |-> kind, items |-> now, at |-> clock]]
  /\ UNCHANGED <<rows, cache, file, clock, history>>

\* The attempt fails after it has deleted its input.
ValidateFails ==
  /\ run.pc = "validate" /\ run.data
  /\ run' = [run EXCEPT !.pc = "retry", !.data = FALSE]
  /\ UNCHANGED <<rows, files, clock, history>>

\* The attempt finds no input.
ValidateLacksData ==
  /\ run.pc = "validate" /\ ~run.data
  /\ run' = [run EXCEPT !.pc = "retry"]
  /\ UNCHANGED <<rows, files, clock, history>>

\* Invoke-WithRetry: another attempt, or the run has failed.
Retry ==
  /\ run.pc = "retry"
  /\ IF run.attempt < Attempts
       THEN run' = [run EXCEPT !.pc = "validate", !.attempt = @ + 1] /\ UNCHANGED tmp
       ELSE run' = Idle /\ tmp' = NoCache
  /\ UNCHANGED <<rows, cache, file, clock, history>>

\* A payload whose delivery is recorded is not sent; any other is.
SendEmail ==
  /\ run.pc = "email"
  /\ run' = [run EXCEPT !.pc = IF Suppressed THEN "commit" ELSE "save"]
  /\ told' = IF Suppressed THEN told ELSE run.payload.items
  /\ UNCHANGED <<rows, files, clock, reminded, cut, crashes, changes>>

\* Outlook refuses: nothing is committed, the run ends with 25.
EmailFails ==
  /\ run.pc = "email" /\ ~Suppressed
  /\ run' = Idle /\ tmp' = NoCache
  /\ UNCHANGED <<rows, cache, file, clock, history>>

Save ==
  /\ run.pc = "save"
  /\ file' = Delivered(UpdateHash(ReadState(file), Hash), "email")
  /\ run' = [run EXCEPT !.pc = "commit"]
  /\ UNCHANGED <<rows, cache, tmp, clock, history>>

Commit ==
  /\ run.pc = "commit"
  /\ cache' = (IF tmp.exists THEN tmp ELSE cache)
  /\ tmp' = NoCache
  /\ reminded' = (IF run.payload.kind = "LEMBRETE" THEN run.payload.at ELSE reminded)
  /\ cut' = FALSE
  /\ run' = Idle
  /\ UNCHANGED <<rows, file, clock, told, crashes, changes>>

\* The process is killed; no last block runs.
Crash ==
  /\ run.pc # "end" /\ crashes < MaxCrashes
  /\ crashes' = crashes + 1
  /\ run' = Idle
  /\ cut' = (cut \/ run.pc \in {"save", "commit"})
  /\ file' \in {file} \cup (IF run.pc = "save" THEN {Torn} ELSE {})
  /\ UNCHANGED <<rows, cache, tmp, clock, told, reminded, changes>>

\* The batches change in Oracle.
Change ==
  /\ changes < MaxChanges
  /\ changes' = changes + 1
  /\ rows' \in SUBSET Row \ {rows}
  /\ UNCHANGED <<files, clock, run, told, reminded, cut, crashes>>

Step ==
  \/ Start \/ Validate \/ ValidateLacksData \/ Retry
  \/ SendEmail \/ Save \/ Commit

Next == Step \/ Fails \/ ValidateFails \/ EmailFails \/ Crash \/ Change

Spec == Init /\ [][Next]_vars
-----------------------------------------------------------------------------
\* The committed cache is what the readers were told last: an error is never
\* known to the cache alone, which would keep it from ever being reported.
CacheWasTold ==
  cache.exists => cache.items = told \/ cut \/ run.pc \in {"save", "commit"}

\* Reminders of the same errors keep their distance, whatever changes, failures
\* and kinds of notice lie between them.
RemindersKeepDistance ==
  [][reminded' # reminded => reminded = Never \/ reminded' - reminded >= Interval]_vars

\* When no notice is due the readers know the errors there are: nothing that
\* changed is passed over.
NothingPassedOver ==
  run.pc = "validate" /\ run.data /\ Kind(Errors(run.rows)) = "NENHUMA" =>
    Errors(run.rows) = told \/ cut

\* No provisional cache of an earlier run is committed.
CommitsOwnErrors == [][cache' # cache => cache'.items = run.payload.items]_vars
-----------------------------------------------------------------------------
(* What the repository says and the program does not do.                   *)

\* run.ps1: a notice whose delivery is recorded is suppressed (Hash Match).
RecordedIsSuppressed ==
  [][run.pc = "email" /\ run'.pc = "save" /\ run.payload.kind = "ERRO" /\ file \notin {Absent, Torn} =>
       ~(file.ok["email"] /\ file.hash.kind = "ERRO" /\ file.hash.items = run.payload.items)]_vars

\* run.ps1: the validation has two attempts.
RetryHasData == run.pc = "validate" => run.data
=============================================================================
