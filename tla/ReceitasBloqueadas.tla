------------------------- MODULE ReceitasBloqueadas -------------------------
(***************************************************************************)
(* The runs of Receitas Bloqueadas (run.ps1 and processar_receitas.py):    *)
(* extract the blocked recipes, compare them with the last committed list, *)
(* send what changed by e-mail and by WhatsApp, and commit.                *)
(*                                                                         *)
(*   db        what the Oracle query returns now                           *)
(*   state     receitas_state.json; tmp: receitas_state.json.tmp           *)
(*   html      email_body.html, deleted when a run starts                  *)
(*   file      delivery_state.json                                         *)
(*   recipients  whether the e-mail has any                                *)
(*   run[r]    a PowerShell process: its step, the content it sends, its   *)
(*             copy of the delivery state, its exit code so far            *)
(*                                                                         *)
(* A content is a list of recipes; contents with the same View differ only *)
(* in columns the comparison does not look at.                             *)
(*                                                                         *)
(* History: got[c], the content channel c delivered last; told[c], how     *)
(* often it delivered what db is since db last changed; cut, the channels  *)
(* whose last delivery was not saved, because the run was killed or the    *)
(* sender failed after it; unsure, such failures; crashes; changes.        *)
(***************************************************************************)
EXTENDS DeliveryState, Integers

CONSTANTS
  Content,
  Nothing,      \* the content without recipes, also before the first run
  View,         \* [Content -> what _computar_diff compares]
  Run,
  Overlap,      \* BOOLEAN: runs started from a terminal join those of the Orchestrator
  MaxUnsure,    \* bound: senders that fail after their message arrived
  MaxCrashes,   \* bound: crashes
  MaxChanges    \* bound: changes of the data

DeliveryStates == [hash : Content \cup {NoHash}, ok : [Channel -> BOOLEAN]]

ContentAssumption ==
  /\ Nothing \in Content /\ View \in [Content -> Content]
  /\ Channel = {"email", "whatsapp"} /\ MaxUnsure \in Nat /\ MaxCrashes \in Nat /\ MaxChanges \in Nat
  /\ Absent # Torn /\ Absent # NoHash /\ Torn # NoHash /\ Content \cap {Absent, Torn, NoHash} = {}
  /\ {Absent, Torn} \cap DeliveryStates = {}

VARIABLES db, state, tmp, html, file, recipients, run, got, told, cut, unsure, crashes, changes

files == <<state, tmp, html, file>>
history == <<got, told, cut, unsure, crashes, changes>>
vars == <<db, files, recipients, run, history>>

Step(pc, c, ds, code) == [pc |-> pc, content |-> c, ds |-> ds, code |-> code]
Ended(code) == Step("end", Nothing, NewState, code)

Saving == [email |-> "save_email", whatsapp |-> "save_whatsapp"]

TypeOK ==
  /\ db \in Content /\ state \in Content
  /\ tmp \in Content \cup {Absent, Torn}
  /\ html \in Content \cup {Absent}
  /\ file \in DeliveryStates \cup {Absent, Torn}
  /\ recipients \in BOOLEAN
  /\ run \in [Run ->
       [pc : {"end", "extract", "resolve", "email", "save_email", "whatsapp", "save_whatsapp", "commit"},
        content : Content, ds : DeliveryStates, code : {0, 2, 3, 4, 21, 24, 25}]]
  /\ got \in [Channel -> Content] /\ told \in [Channel -> Nat] /\ cut \subseteq Channel
  /\ unsure \in 0..MaxUnsure /\ crashes \in 0..MaxCrashes /\ changes \in 0..MaxChanges

Init ==
  /\ db = Nothing /\ state = Nothing
  /\ tmp = Absent /\ html = Absent /\ file = Absent
  /\ recipients \in BOOLEAN
  /\ run = [r \in Run |-> Ended(0)]
  /\ got = [c \in Channel |-> Nothing] /\ told = [c \in Channel |-> 0] /\ cut = {}
  /\ unsure = 0 /\ crashes = 0 /\ changes = 0
-----------------------------------------------------------------------------
\* Mutated form: a new run leaves the e-mail body of the last one.
StartKeepsBody(r) ==
  /\ run[r].pc = "end"
  /\ Overlap \/ \A q \in Run : run[q].pc = "end"
  /\ run' = [run EXCEPT ![r] = Step("extract", Nothing, NewState, 0)]
  /\ UNCHANGED <<db, state, tmp, html, file, recipients, history>>

\* A process starts.  The mutex of Enter-AutomationLock bears the execution's
\* own id, so it holds nobody back; a terminal whose registration the
\* Orchestrator refuses runs under an id of its own.
Start(r) ==
  /\ run[r].pc = "end"
  /\ Overlap \/ \A q \in Run : run[q].pc = "end"
  /\ run' = [run EXCEPT ![r] = Step("extract", Nothing, NewState, 0)]
  /\ html' = Absent
  /\ UNCHANGED <<db, state, tmp, file, recipients, history>>

Changed == View[db] # View[state]

\* processar_receitas.py found changes: provisional state and e-mail body.
ExtractChanges(r) ==
  /\ run[r].pc = "extract" /\ Changed
  /\ tmp' = db /\ html' = db
  /\ run' = [run EXCEPT ![r] = Step("resolve", db, NewState, 0)]
  /\ UNCHANGED <<db, state, file, recipients, history>>

\* No change and nothing pending: exit 2.
ExtractNothing(r) ==
  /\ run[r].pc = "extract" /\ ~Changed /\ tmp = Absent
  /\ run' = [run EXCEPT ![r] = Ended(2)]
  /\ UNCHANGED <<db, files, recipients, history>>

\* No change and a provisional state of an earlier run: exit 0, with no new
\* body.  run.ps1 sends only when there is one.
ExtractPending(r) ==
  /\ run[r].pc = "extract" /\ ~Changed /\ tmp # Absent
  /\ run' = [run EXCEPT ![r] =
       IF html = Absent THEN Ended(0) ELSE Step("resolve", html, NewState, 0)]
  /\ UNCHANGED <<db, files, recipients, history>>

\* The pre-flight or every attempt failed; the last may have got as far as the provisional state.
ExtractFails(r) ==
  /\ run[r].pc = "extract"
  /\ tmp' \in {tmp} \cup (IF Changed THEN {db} ELSE {})
  /\ run' = [run EXCEPT ![r] = Ended(3)]
  /\ UNCHANGED <<db, state, html, file, recipients, history>>

\* The virtual environment has no interpreter: nothing ran, exit 2 as well.
NoPython(r) ==
  /\ run[r].pc = "extract"
  /\ run' = [run EXCEPT ![r] = Ended(2)]
  /\ UNCHANGED <<db, files, recipients, history>>

\* The delivery state of this content.  With both channels delivered the
\* steps of the channels skip, and what is left is the commit.
Resolve(r) ==
  /\ run[r].pc = "resolve"
  /\ run' = [run EXCEPT ![r].pc = "email", ![r].ds = UpdateHash(ReadState(file), LastHash(tmp, state))]
  /\ UNCHANGED <<db, files, recipients, history>>

\* The hash a later test sees is the one Resolve found: ds holds it.
Skips(r, c) == ~Pending(run[r].ds, c, run[r].ds.hash)

Sent(r, c) ==
  /\ got' = [got EXCEPT ![c] = run[r].content]
  /\ told' = [told EXCEPT ![c] = IF run[r].content = db THEN @ + 1 ELSE @]
  /\ UNCHANGED <<crashes, changes>>

SkipEmail(r) ==
  /\ run[r].pc = "email" /\ Skips(r, "email")
  /\ run' = [run EXCEPT ![r].pc = "whatsapp"]
  /\ UNCHANGED <<db, files, recipients, history>>

\* No recipient: marked without being sent, and not saved by itself.
NoRecipient(r) ==
  /\ run[r].pc = "email" /\ ~Skips(r, "email") /\ ~recipients
  /\ run' = [run EXCEPT ![r].pc = "whatsapp", ![r].ds = Delivered(@, "email")]
  /\ UNCHANGED <<db, files, recipients, history>>

SendEmail(r) ==
  /\ run[r].pc = "email" /\ ~Skips(r, "email") /\ recipients
  /\ Sent(r, "email")
  /\ run' = [run EXCEPT ![r].pc = "save_email"]
  /\ UNCHANGED <<db, files, recipients, cut, unsure>>

EmailFails(r) ==
  /\ run[r].pc = "email" /\ ~Skips(r, "email") /\ recipients
  /\ run' = [run EXCEPT ![r].pc = "whatsapp", ![r].code = 25]
  /\ UNCHANGED <<db, files, recipients, history>>

\* Each delivery is saved at once.
Save(r, pc, c, next) ==
  /\ run[r].pc = pc
  /\ file' = Delivered(run[r].ds, c)
  /\ run' = [run EXCEPT ![r].pc = next, ![r].ds = Delivered(@, c)]
  /\ cut' = cut \ {c}
  /\ UNCHANGED <<db, state, tmp, html, recipients, got, told, unsure, crashes, changes>>

SkipWhatsApp(r) ==
  /\ run[r].pc = "whatsapp" /\ Skips(r, "whatsapp")
  /\ run' = [run EXCEPT ![r].pc = "commit"]
  /\ UNCHANGED <<db, files, recipients, history>>

SendWhatsApp(r) ==
  /\ run[r].pc = "whatsapp" /\ ~Skips(r, "whatsapp")
  /\ Sent(r, "whatsapp")
  /\ run' = [run EXCEPT ![r].pc = "save_whatsapp"]
  /\ UNCHANGED <<db, files, recipients, cut, unsure>>

\* 21 or 24: the code of WhatsApp replaces that of the e-mail.  The sender may end
\* so after the message left: no confirmation of the dispatch, or the session gone
\* after it.  No sender answers 40 or 23, of which run.ps1 would make a success.
WhatsAppFails(r) ==
  /\ run[r].pc = "whatsapp" /\ ~Skips(r, "whatsapp")
  /\ \E code \in {21, 24} : run' = [run EXCEPT ![r].pc = "commit", ![r].code = code]
  /\ \/ UNCHANGED history
     \/ /\ unsure < MaxUnsure /\ unsure' = unsure + 1
        /\ Sent(r, "whatsapp") /\ cut' = cut \cup {"whatsapp"}
  /\ UNCHANGED <<db, files, recipients>>

\* The provisional state is committed unless a channel failed.
Commit(r) ==
  /\ run[r].pc = "commit"
  /\ IF run[r].code = 0 /\ tmp \in Content
       THEN state' = tmp /\ tmp' = Absent
       ELSE UNCHANGED <<state, tmp>>
  /\ run' = [run EXCEPT ![r] = Ended(run[r].code)]
  /\ UNCHANGED <<db, html, file, recipients, history>>

\* The process is killed.  A file it was writing is torn.
Crash(r) ==
  /\ run[r].pc # "end" /\ crashes < MaxCrashes
  /\ crashes' = crashes + 1
  /\ run' = [run EXCEPT ![r] = Ended(4)]
  /\ tmp' \in {tmp} \cup (IF run[r].pc = "extract" /\ Changed THEN {db, Torn} ELSE {})
  /\ file' \in {file} \cup (IF run[r].pc \in {"save_email", "save_whatsapp"} THEN {Torn} ELSE {})
  /\ cut' = cut \cup {c \in Channel : run[r].pc = Saving[c]}
  /\ UNCHANGED <<db, state, html, recipients, got, told, unsure, changes>>

\* The recipes change in Oracle.
Change ==
  /\ changes < MaxChanges
  /\ changes' = changes + 1
  /\ db' \in Content \ {db}
  /\ told' = [c \in Channel |-> 0]
  /\ UNCHANGED <<files, recipients, run, got, cut, unsure, crashes>>

Extract(r) == ExtractChanges(r) \/ ExtractNothing(r) \/ ExtractPending(r)
Email(r) == SkipEmail(r) \/ NoRecipient(r) \/ SendEmail(r) \/ EmailFails(r) \/ Save(r, "save_email", "email", "whatsapp")
WhatsApp(r) ==
  SkipWhatsApp(r) \/ SendWhatsApp(r) \/ WhatsAppFails(r) \/ Save(r, "save_whatsapp", "whatsapp", "commit")

Next ==
  \/ \E r \in Run :
       Start(r) \/ Extract(r) \/ ExtractFails(r) \/ NoPython(r) \/ Resolve(r) \/ Email(r) \/ WhatsApp(r) \/ Commit(r) \/ Crash(r)
  \/ Change

Spec == Init /\ [][Next]_vars

\* The schedule starts run after run, each comes to its end, and neither the
\* extraction nor a channel fails for ever.
Fairness ==
  \A r \in Run :
    /\ WF_vars(Start(r)) /\ SF_vars(Extract(r))
    /\ WF_vars(Resolve(r)) /\ WF_vars(Email(r)) /\ WF_vars(WhatsApp(r)) /\ WF_vars(Commit(r))
    /\ SF_vars(SendEmail(r)) /\ SF_vars(SendWhatsApp(r))

LiveSpec == Spec /\ Fairness
-----------------------------------------------------------------------------
\* What the file says was sent is what the channel's readers saw last, unless the
\* last delivery is still to be saved, or never was (cut): no channel is suppressed
\* for a content it did not deliver.
RecordedWasSent ==
  file \in DeliveryStates =>
    \A c \in Channel : file.ok[c] =>
      \/ got[c] = file.hash
      \/ c = "email" /\ ~recipients
      \/ c \in cut
      \/ \E r \in Run : run[r].pc = Saving[c]

\* While the data stay as they are each repeat has its reason: a crash, or, on
\* WhatsApp, a sender that failed although its message arrived.
RepeatsAreExplained ==
  \A c \in Channel : told[c] <= 1 + crashes + (IF c = "whatsapp" THEN unsure ELSE 0)

\* A failed e-mail keeps the content uncommitted: what is committed was
\* e-mailed, or a later content was and is still to be committed.
CommittedWasEmailed ==
  recipients => state = got["email"] \/ tmp # Absent \/ "email" \in cut

\* A run commits the content it sent.
CommitsWhatItSent ==
  [][state' # state => \E r \in Run : run[r].pc = "commit" /\ state' = run[r].content]_vars

\* The list that is committed is in the end the list there is.
CommitsEventually == <>[](View[state] = View[db])
-----------------------------------------------------------------------------
(* What the repository says and the program does not do.                   *)

\* constants.py:164 and Lib-Oracle.psm1: exit 2 says that nothing changed.
Exit2MeansUnchanged ==
  [][\A r \in Run : run[r].pc = "extract" /\ run'[r] = Ended(2) => ~Changed]_vars

\* processar_receitas.py:546-552: a pending provisional state is notified, so a
\* run that ends well leaves the e-mail's readers with the committed list.
PendingStateIsNotified ==
  recipients => \A r \in Run : run[r].pc = "end" /\ run[r].code = 0 => View[got["email"]] = View[state]
=============================================================================
