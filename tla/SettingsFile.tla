---------------------------- MODULE SettingsFile ----------------------------
(***************************************************************************)
(* The JSON files of Claude Code the master writes (src/broker/claude/):   *)
(* user settings with the hook registration, the state file with the trust *)
(* flag, and a session's own settings with its permission rules.  Claude   *)
(* Code and the developer write the same files, without a lock, and those  *)
(* of the projects the registration is checked against.                    *)
(*                                                                         *)
(* kind says which of the files a behaviour is about.  A content is a      *)
(* record: form ("object", "value" for other JSON, "garbled"), shaped (the *)
(* part the master edits has the expected type), hooks (the entries of one *)
(* event), flag (trust or rules are as the master sets them) and rest, all *)
(* other keys.  A hooks entry is "ours", "stale" (ours with an older       *)
(* command), "foreign", or "merged", a stale one that also holds a foreign *)
(* hook.  The master runs one update at a time.                            *)
(***************************************************************************)
EXTENDS Naturals, Sequences, FiniteSets

CONSTANTS
  Rest,        \* what the other keys may hold
  NoKeys,      \* nothing
  NoFile,      \* no file
  Partial,     \* a file cut short
  Written,     \* the contents others write
  Projects,    \* the working directories of the registered sessions
  Faults,      \* what may go wrong: "crash", "write", "unlink"
  MaxTemps     \* bound on abandoned temporary files

ASSUME RestAssumption  == NoKeys \in Rest
ASSUME TempsAssumption == MaxTemps \in Nat

Entry   == {"ours", "stale", "foreign", "merged"}
Kinds   == {"settings", "trust", "session"}
Content == [form : {"object", "value", "garbled"}, shaped : BOOLEAN, hooks : Seq(Entry),
            flag : BOOLEAN, rest : Rest]
Objects == {c \in Content : c.form = "object"}
ASSUME WrittenAssumption  == Written \subseteq Content
ASSUME NoFileAssumption   == NoFile \notin Content \cup {Partial} /\ Partial \notin Content

\* What a project-level settings file says of the event: nothing, entries with ours,
\* with ours of an older command, without ours, or it cannot be read.
Shadow == {"silent", "ours", "stale", "foreign", "unreadable"}

VARIABLES
  kind,      \* which file
  file,      \* its content, or NoFile
  backup,    \* the .broker-backup beside it
  temp,      \* the temporary file of the update under way
  leftovers, \* temporary files of updates that were killed
  master,    \* where the update is: step, op, read, updated, unchecked, and its report
  project,   \* project-level settings, per working directory
  since      \* history, read by no guard: what others wrote after the update replaced
             \* the file, or after it looked at the project

vars == <<kind, file, backup, temp, leftovers, master, project, since>>

Empty == [form |-> "object", shaped |-> TRUE, hooks |-> <<>>, flag |-> FALSE, rest |-> NoKeys]

Idle == [step |-> "idle", op |-> "none", read |-> NoFile, updated |-> NoFile,
         unchecked |-> {}, warned |-> FALSE]

TypeOK ==
  /\ kind \in Kinds
  /\ file \in Content \cup {NoFile, Partial}
  /\ backup \in Content \cup {NoFile, Partial}
  /\ temp \in Content \cup {NoFile, Partial}
  /\ leftovers \in 0 .. MaxTemps
  /\ project \in [Projects -> Shadow]
  /\ master \in [step : {"idle", "backup", "copy", "temp", "write", "replace", "check", "done"},
                 op : {"none", "register", "verify", "trust", "permissions"},
                 read : Objects \cup {NoFile}, updated : Objects \cup {NoFile},
                 unchecked : SUBSET Projects, warned : BOOLEAN]
  /\ since \in [file : BOOLEAN, projects : SUBSET Projects]

Init ==
  /\ kind \in Kinds
  /\ file \in Written \cup {NoFile}
  /\ backup = NoFile /\ temp = NoFile /\ leftovers = 0
  /\ master = Idle
  /\ project \in [Projects -> Shadow]
  /\ since = [file |-> FALSE, projects |-> {}]

-----------------------------------------------------------------------------
(* The mutators.                                                           *)

Ops == [settings |-> {"register", "verify"}, trust |-> {"trust"}, session |-> {"permissions"}]

\* _entry_is_ours: one of its hooks carries the marker.
EntryIsOurs(entry) == entry \in {"ours", "stale", "merged"}

\* Mutant of EnsureRegistered: an entry of ours takes the place of the last one.
EnsureRegisteredLast(hooks) ==
  IF hooks = <<>> THEN <<"ours">>
  ELSE [i \in DOMAIN hooks |-> IF i = Len(hooks) THEN "ours" ELSE hooks[i]]

\* _ensure_registered: our entries brought up to date in place, or one added.
EnsureRegistered(hooks) ==
  IF \E i \in DOMAIN hooks : EntryIsOurs(hooks[i])
  THEN [i \in DOMAIN hooks |-> IF EntryIsOurs(hooks[i]) THEN "ours" ELSE hooks[i]]
  ELSE Append(hooks, "ours")

Mutate(content) ==
  IF kind = "settings" THEN [content EXCEPT !.hooks = EnsureRegistered(@)]
  ELSE [content EXCEPT !.flag = TRUE]

\* What atomic_update_json and the mutators refuse to touch.
Refused(content) ==
  content.form # "object" \/ (~content.shaped /\ kind # "session")

Parsed == IF file = NoFile THEN Empty ELSE file

-----------------------------------------------------------------------------
(* atomic_update_json.                                                     *)

\* Read and mutate, in memory; a refusal ends it.
Begin ==
  /\ master.step \in {"idle", "done"}
  /\ \E op \in Ops[kind] :
       master' = IF Refused(Parsed) THEN [Idle EXCEPT !.step = "done", !.op = op, !.warned = TRUE]
                 ELSE [Idle EXCEPT !.step = IF file = NoFile THEN "temp" ELSE "backup", !.op = op,
                                   !.read = file, !.updated = Mutate(Parsed)]
  /\ UNCHANGED <<kind, file, backup, temp, leftovers, project, since>>

\* backup_path.write_bytes truncates, then writes.
TruncateBackup ==
  /\ master.step = "backup"
  /\ backup' = Partial
  /\ master' = [master EXCEPT !.step = "copy"]
  /\ UNCHANGED <<kind, file, temp, leftovers, project, since>>

\* Mutant of WriteBackup: the backup is what is about to be written.
WriteNewBackup ==
  /\ master.step = "copy"
  /\ backup' = master.updated
  /\ master' = [master EXCEPT !.step = "temp"]
  /\ UNCHANGED <<kind, file, temp, leftovers, project, since>>

WriteBackup ==
  /\ master.step = "copy"
  /\ backup' = master.read
  /\ master' = [master EXCEPT !.step = "temp"]
  /\ UNCHANGED <<kind, file, temp, leftovers, project, since>>

\* mkstemp, and the first bytes of the dump.
MakeTemp ==
  /\ master.step = "temp"
  /\ temp' = Partial
  /\ master' = [master EXCEPT !.step = "write"]
  /\ UNCHANGED <<kind, file, backup, leftovers, project, since>>

\* json.dump, flush, fsync.
WriteTemp ==
  /\ master.step = "write"
  /\ temp' = master.updated
  /\ master' = [master EXCEPT !.step = "replace"]
  /\ UNCHANGED <<kind, file, backup, leftovers, project, since>>

\* Mutant of SyncedBeforeReplace: the rename does not wait for the data.
RenameUnsynced == master.step \in {"write", "replace"}

SyncedBeforeReplace == master.step = "replace"

\* os.replace; verify_and_repair goes on to look at the projects.
Replace ==
  /\ SyncedBeforeReplace
  /\ file' = temp
  /\ temp' = NoFile
  /\ master' = IF master.op = "verify"
               THEN [master EXCEPT !.step = "check", !.unchecked = Projects,
                                   !.warned = master.updated # master.read]
               ELSE [master EXCEPT !.step = "done"]
  /\ since' = [since EXCEPT !.file = FALSE]
  /\ UNCHANGED <<kind, backup, leftovers, project>>

\* Mutant of Shadows: a project file that cannot be read is passed over.
ShadowsReadable(p) == project[p] = "foreign"

\* _check_shadow warns of a project file that defines the event without our marker, or
\* cannot be read; entries of ours count whatever their command.
Shadows(p) == project[p] \in {"foreign", "unreadable"}

\* One project file after the other; others write between two looks.
Look(p) ==
  /\ master.step = "check" /\ p \in master.unchecked
  /\ master' = [master EXCEPT !.unchecked = @ \ {p}, !.warned = @ \/ Shadows(p)]
  /\ since' = [since EXCEPT !.projects = @ \ {p}]
  /\ UNCHANGED <<kind, file, backup, temp, leftovers, project>>

\* verify_and_repair returns its report.
Report ==
  /\ master.step = "check" /\ master.unchecked = {}
  /\ master' = [master EXCEPT !.step = "done"]
  /\ UNCHANGED <<kind, file, backup, temp, leftovers, project, since>>

\* The disk is full, the directory is not writable, or what a project file holds is no
\* text: the update raises.  An error of the unlink on the way out is passed over.
Fail ==
  /\ "write" \in Faults
  /\ master.step \in {"backup", "copy", "temp", "write", "replace", "check"}
  /\ temp' = NoFile
  /\ \/ leftovers' = leftovers
     \/ "unlink" \in Faults /\ temp # NoFile /\ leftovers < MaxTemps /\ leftovers' = leftovers + 1
  /\ master' = [Idle EXCEPT !.step = "done", !.op = master.op, !.warned = TRUE]
  /\ UNCHANGED <<kind, file, backup, project, since>>

\* The master is killed; what is on disk stays.
Crash ==
  /\ "crash" \in Faults
  /\ master.step # "idle"
  /\ temp = NoFile \/ leftovers < MaxTemps
  /\ leftovers' = IF temp = NoFile THEN leftovers ELSE leftovers + 1
  /\ temp' = NoFile
  /\ master' = Idle
  /\ UNCHANGED <<kind, file, backup, project, since>>

\* Claude Code or the developer replaces the file.
OthersWrite ==
  /\ \E c \in Written : file' = c
  /\ since' = [since EXCEPT !.file = TRUE]
  /\ UNCHANGED <<kind, backup, temp, leftovers, master, project>>

\* Somebody writes a project's settings.
OthersWriteProject(p) ==
  /\ \E c \in Shadow : project' = [project EXCEPT ![p] = c]
  /\ since' = [since EXCEPT !.projects = @ \cup {p}]
  /\ UNCHANGED <<kind, file, backup, temp, leftovers, master>>

Next == \/ Begin \/ TruncateBackup \/ WriteBackup \/ MakeTemp \/ WriteTemp \/ Replace \/ Fail
        \/ Report \/ Crash \/ OthersWrite \/ \E p \in Projects : Look(p) \/ OthersWriteProject(p)

Spec == Init /\ [][Next]_vars

-----------------------------------------------------------------------------
(* Properties.                                                             *)

\* The file is whole at every moment, whoever is killed when: a reader finds what one
\* writer wrote, never half of it (atomic.py:64-73).
NeverTorn == file # Partial

\* What an update replaces is in the backup when it is replaced, so that a content
\* nobody else overwrote is never lost (atomic.py:60-62).
BackedUp ==
  [][Replace => (file = master.read /\ file # NoFile => backup = file)]_vars

\* An update of a file nobody else touched changes what it is for and nothing more:
\* every other key, and every entry that is not ours, at its place (settings.py:3).
OthersKept ==
  [][Replace /\ file = master.read /\ file # NoFile =>
       /\ file'.rest = file.rest /\ file'.form = file.form
       /\ kind = "settings" => file'.flag = file.flag
       /\ \A i \in DOMAIN file.hooks :
            /\ i \in DOMAIN file'.hooks
            /\ ~EntryIsOurs(file.hooks[i]) => file'.hooks[i] = file.hooks[i]]_vars

\* Startup that reports nothing has its hook in the user's settings, and no project
\* shadows it with a file that lacks ours, but for what others wrote after the file was
\* replaced or the project looked at (verify_and_repair, _check_shadow).
Registered == \E i \in DOMAIN file.hooks : file.hooks[i] = "ours"
SilenceMeansInEffect ==
  master.step = "done" /\ master.op = "verify" /\ ~master.warned =>
    /\ since.file \/ Registered
    /\ \A p \in Projects \ since.projects : project[p] \in {"silent", "ours", "stale"}

\* "Apply mutate to the JSON object at path, atomically" (atomic.py:25): to what the
\* file holds when it is replaced.
AppliedAtomically == [][Replace => file' = Mutate(Parsed)]_vars

\* "Warn when ``candidate`` shadows our registration" (settings.py:201): entries of ours
\* with the command of an older installation shadow it too, and pass for current ones.
NoStaleShadow ==
  master.step = "done" /\ master.op = "verify" /\ ~master.warned =>
    \A p \in Projects \ since.projects : project[p] # "stale"

\* "Foreign entries [...] are preserved verbatim" (settings.py:3): so is a foreign hook
\* in an entry that also holds ours.
ForeignHooksKept ==
  [][Replace /\ file = master.read /\ file # NoFile =>
       \A i \in DOMAIN file.hooks : file.hooks[i] = "merged" => file'.hooks[i] = "merged"]_vars
=============================================================================
