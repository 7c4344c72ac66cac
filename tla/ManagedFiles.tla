---------------------------- MODULE ManagedFiles ----------------------------
(***************************************************************************)
(* Files edited through the API: the global .env, the configurations and   *)
(* the scripts of the automations (Orchestrator/app/services/env_admin.py, *)
(* services/managed_file_access.py, routers/automation_config.py,          *)
(* routers/automation_ide.py and the env routes of routers/system.py).     *)
(*                                                                         *)
(*   file[f]     the content on disk                                       *)
(*   backup[f]   the contents copied aside                                 *)
(*   audited[f]  the contents that a committed audit entry is about        *)
(*   past[f]     the contents that were overwritten                        *)
(*   view[c]     what the client c read last                               *)
(*   put[c]      the PUT of client c: how far it is, the payload, the      *)
(*               content when it was accepted and the text it will write   *)
(*   left        PUTs left to the bound                                   *)
(*                                                                         *)
(* A content gives every key a value.  In a .env the keys are its          *)
(* variables; any other file has one key, its text.                        *)
(***************************************************************************)
EXTENDS Naturals, FiniteSets

CONSTANTS
  Env, Config, Script,   \* the files of each kind
  Sealed,                \* files whose name or place the guards refuse
  Keys, Secrets, Values,
  Clients,
  Mask,                  \* the placeholder ********
  Absent,                \* the key is not in the file
  Cut,                   \* the value of every key of a text that is not whole
  Overlap,               \* BOOLEAN: two PUTs of one file may overlap
  MaxPuts,               \* bound: PUTs in a run
  Faults                 \* BOOLEAN: kills, full disks, failing commits

File == Env \cup Config \cup Script \cup Sealed
Whole == [Keys -> Values \cup {Mask, Absent}]
Empty == [k \in Keys |-> Absent]
Torn == [k \in Keys |-> Cut]
Content == Whole \cup {Torn}

FilesAssumption ==
  /\ Secrets \subseteq Keys /\ {Mask, Absent, Cut} \cap Values = {}
  /\ Cardinality({Mask, Absent, Cut}) = 3
  /\ Overlap \in BOOLEAN /\ Faults \in BOOLEAN /\ MaxPuts \in Nat

VARIABLES file, backup, audited, past, view, put, left
vars == <<file, backup, audited, past, view, put, left>>

NoPut(f) == [pc |-> "idle", file |-> f, payload |-> Empty, saw |-> Empty, text |-> Empty]
AnyFile == CHOOSE f \in File : TRUE
Rest == NoPut(AnyFile)

TypeOK ==
  /\ file \in [File -> Content]
  /\ left \in 0..MaxPuts
  /\ \A f \in File : {backup[f], audited[f], past[f]} \subseteq SUBSET Content
  /\ \A c \in Clients :
       /\ view[c].file \in File /\ view[c].text \in Content
       /\ put[c].pc \in {"idle", "backup", "restore", "open", "write", "audit"}
       /\ put[c].file \in File
       /\ {put[c].payload, put[c].saw, put[c].text} \subseteq Content

Init ==
  /\ file \in [File -> [Keys -> Values]]
  /\ backup = [f \in File |-> {}]
  /\ past = [f \in File |-> {}]
  /\ audited = [f \in File |-> {file[f]}]
  /\ view = [c \in Clients |-> [file |-> AnyFile, text |-> Torn]]
  /\ put = [c \in Clients |-> Rest]
  /\ left = MaxPuts
-----------------------------------------------------------------------------
\* mask_env_content: the value of a sensitive key is hidden.
Masked(t) ==
  IF t = Torn THEN Torn
  ELSE [k \in Keys |-> IF k \in Secrets /\ t[k] # Absent THEN Mask ELSE t[k]]

\* restore_masked_values: a masked key takes the value of the file, if it has one.
Restored(new, current) ==
  [k \in Keys |->
     IF new[k] = Mask /\ current # Torn /\ current[k] # Absent THEN current[k]
     ELSE new[k]]

\* resolve_automation_dir, resolve_managed_file and the checks of the extension.
Editable(f) == f \in Env \cup Config \cup Script

Busy(f) == \E c \in Clients : put[c].pc # "idle" /\ put[c].file = f
Only(c) == UNCHANGED <<file, backup, audited, past, view, left>>

\* GET /system/env, GET /automations/{id}/configs and /scripts.
Get(c) ==
  /\ put[c].pc = "idle"
  /\ \E f \in File :
       /\ Editable(f)
       /\ view' = [view EXCEPT ![c] =
                     [file |-> f, text |-> IF f \in Env THEN Masked(file[f]) ELSE file[f]]]
  /\ UNCHANGED <<file, backup, audited, past, put, left>>

\* A PUT whose payload is what the client read with one key changed or removed.
\* validate_env_content and json.loads refuse a text that is not well formed; a
\* masked value is only remarked.
Accept(c) ==
  /\ put[c].pc = "idle" /\ view[c].text # Torn
  /\ left > 0 /\ left' = left - 1
  /\ LET f == view[c].file
     IN /\ Overlap \/ ~Busy(f)
        /\ \E k \in Keys, v \in Values \cup {Absent} :
             put' = [put EXCEPT ![c] =
                       [pc |-> "backup", file |-> f, saw |-> file[f], text |-> Empty,
                        payload |-> [view[c].text EXCEPT ![k] = v]]]
  /\ UNCHANGED <<file, backup, audited, past, view>>

\* backup_env_file and backup_file_before_write: copy2 to a name with microseconds.
Backup(c) ==
  /\ put[c].pc = "backup"
  /\ LET f == put[c].file
     IN /\ backup' = [backup EXCEPT ![f] = @ \cup {file[f]}]
        /\ put' = [put EXCEPT ![c].pc = IF f \in Env THEN "restore" ELSE "open",
                              ![c].text = put[c].payload]
  /\ UNCHANGED <<file, audited, past, view, left>>

\* Only the .env: the file is read again and the masks are resolved.
Restore(c) ==
  /\ put[c].pc = "restore"
  /\ put' = [put EXCEPT ![c].pc = "open",
               ![c].text = Restored(put[c].payload, file[put[c].file])]
  /\ Only(c)

\* open(path, "w") truncates.
Open(c) ==
  /\ put[c].pc = "open"
  /\ LET f == put[c].file
     IN /\ past' = [past EXCEPT ![f] = @ \cup ({file[f]} \ {Empty, Torn})]
        /\ file' = [file EXCEPT ![f] = Empty]
  /\ put' = [put EXCEPT ![c].pc = "write"]
  /\ UNCHANGED <<backup, audited, view, left>>

\* The text is written from the start of the file: over a text another handle
\* has written meanwhile, whose end may stick out.
Write(c) ==
  /\ put[c].pc = "write"
  /\ LET f == put[c].file
     IN \E t \in {put[c].text} \cup (IF file[f] = Empty THEN {} ELSE {Torn}) :
          file' = [file EXCEPT ![f] = t]
  /\ put' = [put EXCEPT ![c].pc = "audit"]
  /\ UNCHANGED <<backup, audited, past, view, left>>

\* log_audit and db.commit(); the client reads again before it edits again.
Audit(c) ==
  /\ put[c].pc = "audit"
  /\ audited' = [audited EXCEPT ![put[c].file] = @ \cup {put[c].text}]
  /\ view' = [view EXCEPT ![c].text = Torn]
  /\ put' = [put EXCEPT ![c] = Rest]
  /\ UNCHANGED <<file, backup, past, left>>

\* An OSError, a full disk or a commit that fails: a 500, and what was done stays.
Fail(c) ==
  /\ Faults /\ put[c].pc # "idle"
  /\ put' = [put EXCEPT ![c] = Rest]
  /\ Only(c)

\* The API is killed.
Kill ==
  /\ Faults
  /\ put' = [c \in Clients |-> Rest]
  /\ UNCHANGED <<file, backup, audited, past, view, left>>

Next ==
  \/ \E c \in Clients :
       \/ Get(c) \/ Accept(c) \/ Backup(c) \/ Restore(c) \/ Open(c) \/ Write(c)
       \/ Audit(c) \/ Fail(c)
  \/ Kill

Spec == Init /\ [][Next]_vars
-----------------------------------------------------------------------------
(* Properties *)

\* No content is overwritten without a copy of it in the backups, also when a
\* PUT fails or the API is killed anywhere ("Cria backup local antes de
\* sobrescrever arquivo gerenciado", managed_file_access.py:62).
Recoverable == \A f \in File : past[f] \subseteq backup[f]

\* The cycle GET, edit, PUT keeps every secret it was shown masked
\* (restore_masked_values).
RoundTrip ==
  [][\A c \in Clients : put[c].pc = "write" /\ put'[c].pc = "audit" =>
       LET f == put[c].file IN
       \A k \in Secrets :
         f \in Env /\ put[c].payload[k] = Mask /\ put[c].saw \in Whole
           /\ put[c].saw[k] \in Values
         => file'[f] # Torn /\ file'[f][k] = put[c].saw[k]]_vars

\* When nobody writes a file it holds the text of one request, whole: never a
\* mixture and never a part ("de forma segura", routers/system.py:623).
WholeAtRest == \A f \in File : ~Busy(f) => file[f] # Torn

\* When nobody writes a file, what it holds has its audit entry ("mudanca sem
\* trilha nao e um desfecho aceitavel para ... UPDATE_ENV", utils.py:77).
ChangeHasTrail == \A f \in File : ~Busy(f) => file[f] \in audited[f]

\* The placeholder is never stored as a value (routers/system.py:599: the PUT
\* refuses masked values "para impedir que a mascara seja gravada").
NoMask == \A f \in Env : file[f] \in Whole => \A k \in Keys : file[f][k] # Mask
=============================================================================
