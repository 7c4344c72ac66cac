------------------------- MODULE AutomationRegistry -------------------------
(***************************************************************************)
(* The table of automations and the requests that write it                 *)
(* (Orchestrator/app/routers/automations.py, services/automation_          *)
(* preflight.py, services/automation_repository.py), with what depends on  *)
(* a registration: its folder on disk, its execution, its process, and the *)
(* machine-wide test-mode variable.                                        *)
(*                                                                         *)
(*   row[a]     the registration of id a, or NoRow                         *)
(*   disk[f]    the folder f: the files present and the manifest in it     *)
(*   exec[a]    the newest execution of a: its status and the queue_group  *)
(*              frozen in it when it was queued                            *)
(*   proc       the automations whose process is alive                     *)
(*   claim      the candidate the worker judged free to run, 0 for none    *)
(*   req[r]     what the request on session r has read and validated, and  *)
(*              will commit                                                *)
(*   lock       the session that holds SQLite's write lock across steps    *)
(*   env        the variable AUTOMACAO_TEST_EMAIL of the machine           *)
(*   sync       the test mode POST /test-mode/global asks for, and whether   *)
(*              the script that sets the variable hangs                    *)
(*   moved      the automations regrouped while claimed or RUNNING         *)
(*   refused    some commit gave up waiting for the write lock             *)
(*                                                                         *)
(* A row is [name, group, desc, enabled, test, folder].  `group' stands    *)
(* for every setting the manifest governs (queue_group, limits, SLA,       *)
(* channels), `desc' for those it does not (description, schedule,         *)
(* cooldown).                                                              *)
(***************************************************************************)
EXTENDS Integers, FiniteSets, FiniteSetsExt

CONSTANTS
  Titles,      \* names an operator gives
  CopyNames,   \* names that end in (Clone)
  Groups, Descs,
  Legacy,      \* values of group and desc an earlier version stored -> what the
               \* schema makes of them, Refused where it cannot
  OldRows,     \* registrations with such values
  Refused,
  Folders,     \* folders of scripts
  Reserved,    \* the folder of Tools/AplicarPoliticaRetencao.ps1
  OnWhatsApp,  \* folders whose manifest declares the channel whatsapp
  Losable,     \* files somebody may remove or restore
  Sessions,    \* request threads
  Ops,         \* the requests somebody makes
  MaxAuto,     \* bound: ids
  Slow,        \* BOOLEAN: the script that sets the variable may take 30 s
  NoRow, NoManifest, NoOne

Auto == 1..MaxAuto
Fields == {"name", "group", "desc", "enabled", "test"}
Governed == {"name", "group"}
Files == {"script", "docs", "config"}

RowSet ==
  [name : Titles \cup CopyNames, group : Groups \cup DOMAIN Legacy, desc : Descs \cup DOMAIN Legacy,
   enabled : BOOLEAN, test : BOOLEAN, folder : Folders]
Manifest == [name : Titles, group : Groups]

RegistryAssumption ==
  /\ MaxAuto \in Nat \ {0}
  /\ NoRow \notin RowSet /\ NoManifest \notin Manifest /\ NoOne \notin Sessions
  /\ Titles \cap CopyNames = {} /\ OldRows \subseteq RowSet
  /\ Refused \notin Groups \cup Descs
  /\ \A v \in DOMAIN Legacy : v \notin Groups \cup Descs /\ Legacy[v] \in Groups \cup Descs \cup {Refused}
  /\ OnWhatsApp \subseteq Folders /\ Losable \subseteq Files
  /\ Slow \in BOOLEAN

VARIABLES row, disk, exec, proc, claim, req, lock, env, sync, moved, refused
vars == <<row, disk, exec, proc, claim, req, lock, env, sync, moved, refused>>

world == <<exec, proc, claim, moved>>

Present(a) == row[a] # NoRow

\* op      what will be committed
\* auto    the row it is for
\* asked   the fields the body of the request names, or the schema rewrites
\* write   the fields whose loaded value the session has changed
\* new     their values (and the whole row of an insert)
\* seen    the manifest the preflight read
Work(op, a, asked, write, new, seen) ==
  [op |-> op, auto |-> a, asked |-> asked, write |-> write, new |-> new,
   seen |-> seen]
Idle == Work("idle", 0, {}, {}, NoRow, NoManifest)

NoSync == [on |-> FALSE, hangs |-> FALSE]
NoExec == [status |-> "NONE", frozen |-> NoRow]
IsActive(x) == x.status \in {"PENDING", "RUNNING"}

TypeOK ==
  /\ row \in [Auto -> RowSet \cup {NoRow}]
  /\ disk \in [Folders -> [files : SUBSET Files, manifest : Manifest \cup {NoManifest}]]
  /\ exec \in [Auto -> [status : {"NONE", "PENDING", "RUNNING", "ENDED"},
                        frozen : Groups \cup DOMAIN Legacy \cup {NoRow}]]
  /\ proc \subseteq Auto /\ moved \subseteq Auto /\ claim \in Auto \cup {0}
  /\ \A r \in Sessions :
       /\ req[r].op \in {"idle", "insert", "update", "delete", "start", "sync", "testall"}
       /\ req[r].auto \in Auto \cup {0}
       /\ req[r].write \subseteq Fields /\ req[r].asked \subseteq Fields
       /\ req[r].new \in RowSet \cup {NoRow}
  /\ lock \in Sessions \cup {NoOne}
  /\ env \in BOOLEAN /\ refused \in BOOLEAN
  /\ sync \in [on : BOOLEAN, hangs : BOOLEAN]

Init ==
  /\ \E old \in OldRows \cup {NoRow} : row = [a \in Auto |-> IF a = 1 THEN old ELSE NoRow]
  /\ disk \in [Folders -> {[files |-> Files, manifest |-> m] : m \in Manifest}]
  /\ exec = [a \in Auto |-> NoExec]
  /\ proc = {} /\ claim = 0 /\ moved = {}
  /\ req = [r \in Sessions |-> Idle]
  /\ lock = NoOne /\ env = FALSE /\ refused = FALSE
  /\ sync = NoSync
-----------------------------------------------------------------------------
(* Preflight *)

\* AutomationCreate.model_validate: the schedule, the queue_group and the channels are
\* written anew in the form of this version.
Modern(v) == IF v \in DOMAIN Legacy THEN Legacy[v] ELSE v
Normal(p) == [p EXCEPT !.group = Modern(@), !.desc = Modern(@)]
Rewritten(p) == {f \in {"group", "desc"} : p[f] \in DOMAIN Legacy}


\* _manifest_field_mismatches.
Mismatches(p, m) == {f \in Governed : p[f] # m[f]}

\* _manifest_docs_issues and _whatsapp_config_issues.
MissingDocs(f) == {"docs"} \ disk[f].files
BadConfig(f) == IF f \in OnWhatsApp THEN {"config"} \ disk[f].files ELSE {}

IsReserved(p) == p.folder = Reserved
ScriptExists(p) == "script" \in disk[p.folder].files

\* The ValueErrors of build_automation_preflight, those of the schema among them.
Unusable(p) == Refused \in {p.group, p.desc} \/ IsReserved(p) \/ ~ScriptExists(p)

ManifestPresent(p) == disk[p.folder].manifest # NoManifest

\* governance.blocking_issues.
Blocking(p) ==
  IF ~ManifestPresent(p) THEN {"manifest_missing"}
  ELSE Mismatches(p, disk[p.folder].manifest)
       \cup MissingDocs(p.folder) \cup BadConfig(p.folder)

\* _preflight_payload_or_422 lets the payload through.
Accepted(p) == ~Unusable(p) /\ Blocking(p) = {}

\* _assert_clone_allowed_or_422: parity with the manifest is not required.
CloneAllowed(p) == ~Unusable(Normal(p)) /\ ManifestPresent(p)
-----------------------------------------------------------------------------
(* Requests: read and validate *)

\* setattr on every column: the UPDATE carries those that really changed.
Writes(old, new) == {f \in Fields : old[f] # new[f]}

Named(n) == \E a \in Auto : Present(a) /\ row[a].name = n

\* SQLite hands out the largest id in use, plus one.
NextId == 1 + Max({0} \cup {a \in Auto : Present(a)})

Take(r, work) ==
  /\ req[r] = Idle
  /\ req' = [req EXCEPT ![r] = work]
  /\ UNCHANGED <<row, disk, lock, env, refused, world>>

\* POST /automations: 409 on a known name, 422 from the preflight.  What clients send is
\* in the form of this version by then.
Create(r) ==
  /\ "create" \in Ops
  /\ \E p \in [name : Titles, group : Groups, desc : Descs, enabled : {TRUE},
               test : {FALSE}, folder : Folders] :
       /\ ~Named(p.name) /\ Accepted(p)
       /\ Take(r, Work("insert", 0, Fields, Fields, p, disk[p.folder].manifest))

\* PATCH /automations/{id}: the body is merged into the row as it was read, and all of it
\* is validated and normalised again, what the body does not name included.
Patch(r) ==
  /\ "patch" \in Ops
  /\ \E a \in Auto, asked \in {{"group"}, {"desc"}, {"group", "desc"}} :
       /\ Present(a)
       /\ \E g \in Groups, d \in Descs :
            LET merged == [row[a] EXCEPT !.group = IF "group" \in asked THEN g ELSE @,
                                         !.desc = IF "desc" \in asked THEN d ELSE @]
                new == Normal(merged)
            IN /\ Accepted(new)
               /\ Take(r, Work("update", a, asked \cup Rewritten(merged), Writes(row[a], new), new,
                               disk[new.folder].manifest))

SetOne(r, f) ==
  \E a \in Auto, b \in BOOLEAN :
    /\ Present(a)
    /\ LET new == [row[a] EXCEPT ![f] = b]
       IN Take(r, Work("update", a, {f}, Writes(row[a], new), new, NoManifest))

\* POST /{id}/pause and /{id}/resume: no preflight.
Pause(r) == "switch" \in Ops /\ SetOne(r, "enabled")

\* POST /{id}/test-mode.
TestMode(r) == "switch" \in Ops /\ SetOne(r, "test")

\* next_available_clone_name stops at the first name nobody has.
FreeCopy(n) == n \in CopyNames /\ ~Named(n)

\* POST /{id}/clone: a free name, disabled, everything else copied in the form it has.
Clone(r) ==
  /\ "clone" \in Ops
  /\ \E a \in Auto, n \in CopyNames :
       /\ Present(a) /\ FreeCopy(n)
       /\ LET p == [row[a] EXCEPT !.name = n, !.enabled = FALSE]
          IN /\ CloneAllowed(p)
             /\ Take(r, Work("insert", 0, Fields, Fields, p, NoManifest))

\* Mutated form: the executions are not looked at.
DeletableAlways(a) == TRUE

\* ensure_deletable.
Deletable(a) == ~IsActive(exec[a])

\* DELETE /automations/{id}: 409 while an execution is active.
Delete(r) ==
  /\ "delete" \in Ops
  /\ \E a \in Auto :
       /\ Present(a) /\ Deletable(a)
       /\ Take(r, Work("delete", a, {}, {}, NoRow, NoManifest))

\* POST /{id}/start and the scheduler's tick.
Start(r) ==
  /\ "start" \in Ops
  /\ \E a \in Auto :
       /\ Present(a) /\ ~IsActive(exec[a])
       /\ Take(r, Work("start", a, {}, {}, row[a], NoManifest))

\* POST /test-mode/global: the UPDATE runs at once and takes the write lock,
\* which the session keeps until its commit.
TestAll(r) ==
  /\ "testall" \in Ops /\ req[r] = Idle /\ lock = NoOne
  /\ \E b \in BOOLEAN, h \in BOOLEAN : sync' = [on |-> b, hangs |-> h]
  /\ req' = [req EXCEPT ![r] = Work("sync", 0, {"test"}, {"test"}, NoRow, NoManifest)]
  /\ lock' = r
  /\ UNCHANGED <<row, disk, env, refused, world>>
-----------------------------------------------------------------------------
(* The variable of the machine *)

\* sync_global_test_mode_env: best effort.  A script that is absent or fails
\* changes nothing; one killed after 60 s may have set the variable already.
Sync(r) ==
  /\ req[r].op = "sync"
  /\ env' \in {env, sync.on}
  /\ req' = [req EXCEPT ![r].op = "testall"]
  /\ UNCHANGED <<row, disk, lock, sync, refused, world>>
-----------------------------------------------------------------------------
(* Requests: commit *)

Ends(r) == req' = [req EXCEPT ![r] = Idle]

\* A 500: the name was taken, or the row is gone, since it was read.
Fails(r) == Ends(r) /\ UNCHANGED <<row, exec>>

\* The columns the session changed are written over the row as it is now.
Merge(old, w) == [f \in DOMAIN old |-> IF f \in w.write THEN w.new[f] ELSE old[f]]

\* The unique name loses the race to another insert.  Bound: so does an insert
\* beyond MaxAuto.
CommitInsert(r) ==
  /\ req[r].op = "insert"
  /\ IF Named(req[r].new.name) \/ NextId \notin Auto
     THEN Fails(r)
     ELSE /\ row' = [row EXCEPT ![NextId] = req[r].new]
          /\ Ends(r) /\ UNCHANGED exec
  /\ UNCHANGED moved

\* The claim or the process of an automation that changes group goes on.
Moves(a, w) ==
  /\ w.new.group # row[a].group /\ "group" \in w.write
  /\ claim = a \/ exec[a].status = "RUNNING"

CommitUpdate(r) ==
  /\ req[r].op = "update"
  /\ LET a == req[r].auto
     IN IF Present(a)
        THEN /\ row' = [row EXCEPT ![a] = Merge(@, req[r])]
             /\ moved' = IF Moves(a, req[r]) THEN moved \cup {a} ELSE moved
             /\ Ends(r) /\ UNCHANGED exec
        ELSE Fails(r) /\ UNCHANGED moved

\* The executions go with the row (cascade and foreign key).
CommitDelete(r) ==
  /\ req[r].op = "delete"
  /\ LET a == req[r].auto
     IN IF Present(a)
        THEN /\ row' = [row EXCEPT ![a] = NoRow]
             /\ exec' = [exec EXCEPT ![a] = NoExec]
             /\ moved' = moved \ {a}
             /\ Ends(r)
        ELSE Fails(r) /\ UNCHANGED moved

\* The unique index refuses a second active execution, the foreign key one
\* without its automation; commit_or_conflict answers 409 to both.
CommitStart(r) ==
  /\ req[r].op = "start"
  /\ LET a == req[r].auto
     IN IF Present(a) /\ ~IsActive(exec[a])
        THEN /\ exec' = [exec EXCEPT ![a] = [status |-> "PENDING",
                                             frozen |-> req[r].new.group]]
             /\ Ends(r) /\ UNCHANGED row
        ELSE Fails(r)
  /\ UNCHANGED moved

CommitTestAll(r) ==
  /\ req[r].op = "testall"
  /\ row' = [a \in Auto |->
               IF Present(a) THEN [row[a] EXCEPT !.test = sync.on] ELSE NoRow]
  /\ Ends(r)
  /\ UNCHANGED <<exec, moved>>

\* A writer waits while another session holds the write lock.
Commit(r) ==
  /\ lock \in {NoOne, r} /\ lock' = NoOne
  /\ \/ CommitInsert(r) \/ CommitUpdate(r) \/ CommitDelete(r)
     \/ CommitStart(r) \/ CommitTestAll(r)
  /\ sync' = IF req[r].op = "testall" THEN NoSync ELSE sync
  /\ UNCHANGED <<disk, proc, claim, env, refused>>

\* After busy_timeout, 30 s, the writer fails with "database is locked".
GiveUp(r) ==
  /\ Slow /\ req[r] # Idle /\ lock \notin {NoOne, r}
  /\ refused' = TRUE
  /\ Ends(r)
  /\ UNCHANGED <<row, disk, lock, env, sync, world>>

\* POST /control/pause-all and /control/resume-all: one UPDATE and its commit.
SetAll ==
  /\ "setall" \in Ops /\ lock = NoOne
  /\ \E b \in BOOLEAN :
       row' = [a \in Auto |->
                 IF Present(a) THEN [row[a] EXCEPT !.enabled = b] ELSE NoRow]
  /\ UNCHANGED <<disk, req, lock, env, sync, refused, world>>
-----------------------------------------------------------------------------
(* The worker *)

\* _has_running_execution_for_group, on the groups as they are now.
GroupBusy(a) ==
  \E b \in Auto : exec[b].status = "RUNNING" /\ Present(b) /\ row[b].group = row[a].group

\* claim_next_task: the candidate is judged on what the query read ...
Judge ==
  /\ claim = 0
  /\ \E a \in Auto : exec[a].status = "PENDING" /\ ~GroupBusy(a) /\ claim' = a
  /\ UNCHANGED <<row, disk, exec, proc, req, lock, env, sync, moved, refused>>

\* ... and taken by an UPDATE keyed by its status.
Claim ==
  /\ claim # 0 /\ lock = NoOne /\ claim' = 0
  /\ IF exec[claim].status = "PENDING"
     THEN /\ exec' = [exec EXCEPT ![claim].status = "RUNNING"]
          /\ proc' = proc \cup {claim} /\ UNCHANGED moved
     ELSE moved' = moved \ {claim} /\ UNCHANGED <<exec, proc>>
  /\ UNCHANGED <<row, disk, req, lock, env, sync, refused>>

\* complete_process_execution: a row that is gone is passed over in silence.
Finish ==
  /\ lock = NoOne
  /\ \E a \in proc :
       /\ proc' = proc \ {a} /\ moved' = moved \ {a}
       /\ exec' = [exec EXCEPT ![a].status = IF @ = "RUNNING" THEN "ENDED" ELSE @]
  /\ UNCHANGED <<row, disk, claim, req, lock, env, sync, refused>>
-----------------------------------------------------------------------------
(* The folder on disk: git, New-Automation.ps1 and whoever edits it *)

EditManifest ==
  /\ "edit" \in Ops
  /\ \E f \in Folders, m \in Manifest \cup {NoManifest} :
       disk' = [disk EXCEPT ![f].manifest = m]
  /\ UNCHANGED <<row, req, lock, env, sync, refused, world>>

LoseFile ==
  /\ \E f \in Folders, x \in Losable :
       disk' = [disk EXCEPT ![f].files = IF x \in @ THEN @ \ {x} ELSE @ \cup {x}]
  /\ UNCHANGED <<row, req, lock, env, sync, refused, world>>

Read(r) == Create(r) \/ Patch(r) \/ Pause(r) \/ TestMode(r) \/ Clone(r) \/ Delete(r) \/ Start(r)

Next ==
  \/ \E r \in Sessions :
       (Read(r) /\ UNCHANGED sync) \/ TestAll(r) \/ Sync(r) \/ Commit(r) \/ GiveUp(r)
  \/ SetAll \/ Judge \/ Claim \/ Finish \/ EditManifest \/ LoseFile

Fairness == \A r \in Sessions : WF_vars(Sync(r)) /\ SF_vars(Commit(r))

Spec == Init /\ [][Next]_vars
LiveSpec == Spec /\ Fairness
-----------------------------------------------------------------------------
(* Properties *)

\* Nobody's request undoes another's: a field of a registration changes only when a
\* request is committed whose body names it, or which read a legacy value of it that the
\* schema rewrites, however long ago the session of that request read the row
\* (update_automation writes back a whole merged and normalised payload).
KeepsOthers ==
  [][\A a \in Auto : Present(a) /\ Present(a)' =>
       \A f \in {"group", "desc", "test"} : row[a][f] # row'[a][f] =>
         \E r \in Sessions :
           /\ req[r] # Idle /\ req'[r] = Idle
           /\ req[r].auto \in {a, 0} /\ f \in req[r].asked]_vars

\* What the preflight did not see is never saved: a setting the manifest governs
\* is only ever changed to the value of the manifest that was on disk when the
\* request was validated, whatever the request asks for and whoever else writes.
SavedAsGoverned ==
  [][\A a \in Auto : Present(a) /\ Present(a)' =>
       \A f \in Governed : row[a][f] # row'[a][f] =>
         \E r \in Sessions :
           /\ req[r].seen # NoManifest /\ req'[r] = Idle
           /\ row'[a][f] = req[r].seen[f]]_vars

\* Two executions of one group run together only when one of them was moved into
\* the group while it ran: a change of group made while executions wait is seen
\* by the claim (the reason _has_running_execution_for_group ignores the group
\* frozen in the execution).
AloneUnlessMoved ==
  \A a, b \in Auto :
    a # b /\ exec[a].status = "RUNNING" /\ exec[b].status = "RUNNING"
      /\ row[a].group = row[b].group => a \in moved \/ b \in moved

\* A request ends, even when the script of the test mode hangs: it holds the
\* thread and the write lock until then.
RequestsEnd == \A r \in Sessions : req[r] # Idle ~> req[r] = Idle

-----------------------------------------------------------------------------
(* Properties the code does not have *)

\* A process that runs has its row ("apagar a automacao removia a linha da
\* execucao RUNNING enquanto o processo PowerShell seguia vivo",
\* automation_repository.py:160).
ProcessHasRow == \A a \in proc : exec[a].status = "RUNNING"

\* Executions of one group never run together, also after a PATCH that changes
\* the group (execution_runtime.py:149).
GroupAlone ==
  \A a, b \in Auto :
    a # b /\ exec[a].status = "RUNNING" /\ exec[b].status = "RUNNING"
      => row[a].group # row[b].group

\* A clone can be edited whenever its original can (test_automations_crud.py:753:
\* a PATCH of the clone's description answers 200).
CloneEditable ==
  \A a, b \in Auto :
    /\ Present(a) /\ Present(b) /\ row[a].name \in Titles /\ row[b].name \in CopyNames
    /\ row[a].folder = row[b].folder /\ Accepted(Normal(row[a]))
    => Accepted(Normal(row[b]))

\* The variable follows a test mode that is already stored (env_admin.py:25).
SyncedIsStored ==
  [][env' # env => \A a \in Auto : Present(a) => row[a].test = env']_vars

\* No writer runs into "database is locked" (database.py:60).
NeverRefused == ~refused
=============================================================================
