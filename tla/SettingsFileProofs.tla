------------------------- MODULE SettingsFileProofs -------------------------
(***************************************************************************)
(* Proofs about SettingsFile, for any content others write, any projects   *)
(* and any faults: the file is never torn, what is replaced is backed up   *)
(* and kept but for our part of it, and a verification that reports        *)
(* nothing left the hook registered, and shadowed by nobody when looked at.*)
(***************************************************************************)
EXTENDS SettingsFile, TLAPS

Updating == {"backup", "copy", "temp", "write", "replace"}

\* Where an update stands: what it read, what it will write, and what it has on disk.
OnDisk ==
  /\ master.step \in {"idle", "done", "backup", "copy", "temp", "check"} => temp = NoFile
  /\ master.step = "replace" => temp = master.updated
  /\ master.step \in {"temp", "write", "replace"} /\ master.read # NoFile =>
       backup = master.read
InMemory ==
  master.step \in Updating =>
    /\ master.op \in Ops[kind]
    /\ master.read # NoFile => master.updated = Mutate(master.read)
    /\ master.read = NoFile => master.updated = Mutate(Empty)

\* A verification that has not warned so far: the file it put there, and each project
\* it has looked at, unless others wrote meanwhile.
Verified ==
  master.step \in {"check", "done"} /\ master.op = "verify" /\ ~master.warned =>
    /\ since.file \/ Registered
    /\ \A p \in Projects \ (since.projects \cup master.unchecked) :
         project[p] \in {"silent", "ours", "stale"}
Waiting == master.step # "check" => master.unchecked = {}

IInv == TypeOK /\ OnDisk /\ InMemory /\ NeverTorn /\ Verified /\ Waiting

LEMMA OpsOfKind ==
  ASSUME NEW k \in Kinds
  PROVE  /\ Ops[k] \subseteq {"register", "verify", "trust", "permissions"}
         /\ "verify" \in Ops[k] => k = "settings"
  BY DEF Kinds, Ops

LEMMA RegisteredNow ==
  ASSUME NEW h \in Seq(Entry)
  PROVE  /\ EnsureRegistered(h) \in Seq(Entry)
         /\ \A i \in DOMAIN h : /\ i \in DOMAIN EnsureRegistered(h)
                                /\ ~EntryIsOurs(h[i]) => EnsureRegistered(h)[i] = h[i]
         /\ \E i \in DOMAIN EnsureRegistered(h) : EnsureRegistered(h)[i] = "ours"
<1>1. CASE \E i \in DOMAIN h : EntryIsOurs(h[i])
  <2> DEFINE g == [i \in DOMAIN h |-> IF EntryIsOurs(h[i]) THEN "ours" ELSE h[i]]
  <2>1. EnsureRegistered(h) = g
    BY <1>1 DEF EnsureRegistered
  <2>2. g \in Seq(Entry) /\ DOMAIN g = DOMAIN h
    BY DEF Entry
  <2>3. \A i \in DOMAIN h : g[i] = IF EntryIsOurs(h[i]) THEN "ours" ELSE h[i]
    OBVIOUS
  <2> QED BY <1>1, <2>1, <2>2, <2>3
<1>2. CASE ~ \E i \in DOMAIN h : EntryIsOurs(h[i])
  <2>1. EnsureRegistered(h) = Append(h, "ours")
    BY <1>2 DEF EnsureRegistered
  <2>2. "ours" \in Entry
    BY DEF Entry
  <2>3. /\ Append(h, "ours") \in Seq(Entry)
        /\ DOMAIN Append(h, "ours") = 1 .. Len(h) + 1
        /\ \A i \in 1 .. Len(h) : Append(h, "ours")[i] = h[i]
        /\ Append(h, "ours")[Len(h) + 1] = "ours"
    BY <2>2
  <2>4. DOMAIN h = 1 .. Len(h) /\ Len(h) \in Nat
    OBVIOUS
  <2> QED BY <2>1, <2>3, <2>4
<1> QED BY <1>1, <1>2

LEMMA EmptyIsObject == Empty \in Objects
BY RestAssumption DEF Empty, Objects, Content

LEMMA Mutated ==
  ASSUME NEW c \in Objects
  PROVE  Mutate(c) \in Objects
<1>1. c.hooks \in Seq(Entry)
  BY DEF Objects, Content
<1>2. EnsureRegistered(c.hooks) \in Seq(Entry)
  BY <1>1, RegisteredNow
<1> QED BY <1>2 DEF Mutate, Objects, Content

-----------------------------------------------------------------------------
LEMMA InitHolds == Init => IInv
<1> SUFFICES ASSUME Init PROVE IInv
  OBVIOUS
<1>1. TypeOK
  BY WrittenAssumption, TempsAssumption DEF Init, TypeOK, Idle
<1>2. OnDisk /\ InMemory
  BY DEF Init, Idle, OnDisk, InMemory, Updating
<1>3. NeverTorn
  BY WrittenAssumption, NoFileAssumption DEF Init, NeverTorn
<1>4. Verified /\ Waiting
  BY DEF Init, Idle, Verified, Waiting
<1> QED BY <1>1, <1>2, <1>3, <1>4 DEF IInv

LEMMA BeginHolds == IInv /\ Begin => IInv'
<1> SUFFICES ASSUME IInv, Begin PROVE IInv'
  OBVIOUS
<1> USE DEF IInv
<1>1. UNCHANGED <<kind, file, backup, temp, leftovers, project, since>> /\ temp = NoFile
  BY DEF Begin, OnDisk
<1>2. PICK op \in Ops[kind] :
        master' = IF Refused(Parsed) THEN [Idle EXCEPT !.step = "done", !.op = op, !.warned = TRUE]
                  ELSE [Idle EXCEPT !.step = IF file = NoFile THEN "temp" ELSE "backup", !.op = op,
                                    !.read = file, !.updated = Mutate(Parsed)]
  BY DEF Begin
<1>3. op \in {"register", "verify", "trust", "permissions"}
  BY OpsOfKind DEF TypeOK
<1>4. CASE Refused(Parsed)
  <2>1. master' = [Idle EXCEPT !.step = "done", !.op = op, !.warned = TRUE]
    BY <1>2, <1>4
  <2> QED BY <1>1, <1>3, <2>1
        DEF TypeOK, Idle, OnDisk, InMemory, Updating, NeverTorn, Verified, Waiting
<1>5. CASE ~Refused(Parsed)
  <2>1. master' = [Idle EXCEPT !.step = IF file = NoFile THEN "temp" ELSE "backup", !.op = op,
                               !.read = file, !.updated = Mutate(Parsed)]
    BY <1>2, <1>5
  <2>2. Parsed \in Content /\ Parsed.form = "object"
    BY <1>5, EmptyIsObject DEF Refused, Parsed, TypeOK, NeverTorn, Objects
  <2>3. Mutate(Parsed) \in Objects /\ file \in Objects \cup {NoFile}
    BY <2>2, Mutated DEF Objects, Parsed
  <2>4. TypeOK'
    BY <1>1, <1>3, <2>1, <2>3 DEF TypeOK, Idle
  <2>5. OnDisk' /\ NeverTorn'
    BY <1>1, <2>1 DEF OnDisk, NeverTorn, Idle
  <2>6. InMemory'
    BY <1>1, <2>1, <2>3 DEF InMemory, Updating, Parsed, Mutate, Idle
  <2>7. Verified' /\ Waiting'
    BY <1>1, <2>1 DEF Verified, Waiting, Idle
  <2> QED BY <2>4, <2>5, <2>6, <2>7
<1> QED BY <1>4, <1>5

\* What the rename puts in place holds our entry.
LEMMA ReplaceRegisters ==
  ASSUME IInv, Replace, master.op = "verify", master.updated = master.read
  PROVE  Registered'
<1>1. kind = "settings"
  BY OpsOfKind DEF IInv, TypeOK, InMemory, Updating, Replace, SyncedBeforeReplace
<1>2. Mutate(Empty) # NoFile
  BY EmptyIsObject, Mutated, NoFileAssumption DEF Objects
<1>3. file' = Mutate(master.read) /\ master.read \in Objects
  BY <1>2 DEF IInv, OnDisk, InMemory, Updating, Replace, SyncedBeforeReplace, TypeOK
<1>4. master.read.hooks \in Seq(Entry)
  BY <1>3 DEF Objects, Content
<1>5. file'.hooks = EnsureRegistered(master.read.hooks)
  BY <1>1, <1>3 DEF Mutate, Objects, Content
<1> QED BY <1>4, <1>5, RegisteredNow DEF Registered

LEMMA ReplaceHolds == IInv /\ Replace => IInv'
<1> SUFFICES ASSUME IInv, Replace PROVE IInv'
  OBVIOUS
<1> USE DEF IInv
<1>1. temp = master.updated /\ temp # Partial
  BY NoFileAssumption DEF Replace, SyncedBeforeReplace, OnDisk, TypeOK, Objects
<1>2. master.op # "verify" =>
        master' = [master EXCEPT !.step = "done"]
  BY DEF Replace
<1>3. master.op = "verify" =>
        master' = [master EXCEPT !.step = "check", !.unchecked = Projects,
                                 !.warned = master.updated # master.read]
  BY DEF Replace
<1>4. /\ master'.step \in {"check", "done"} /\ master'.op = master.op
      /\ file' = temp /\ temp' = NoFile /\ since' = [since EXCEPT !.file = FALSE]
      /\ UNCHANGED <<kind, backup, leftovers, project>>
  BY <1>2, <1>3 DEF Replace, TypeOK
<1>5. TypeOK'
  <2>1. CASE master.op = "verify"
    BY <1>1, <1>3, <1>4, <2>1 DEF TypeOK
  <2>2. CASE master.op # "verify"
    BY <1>1, <1>2, <1>4, <2>2 DEF TypeOK
  <2> QED BY <2>1, <2>2
<1>6. OnDisk' /\ InMemory' /\ NeverTorn'
  BY <1>1, <1>4 DEF OnDisk, InMemory, Updating, NeverTorn
<1>7. Verified'
  <2> SUFFICES ASSUME master.op = "verify", ~master'.warned PROVE Verified'
    BY <1>4 DEF Verified
  <2>1. master.updated = master.read /\ master'.unchecked = Projects
    BY <1>3 DEF TypeOK
  <2>2. Registered'
    BY <2>1, ReplaceRegisters
  <2> QED BY <2>1, <2>2 DEF Verified
<1>8. Waiting'
  BY <1>2, <1>3, <1>4 DEF Waiting, Replace, SyncedBeforeReplace, InMemory, Updating, TypeOK
<1> QED BY <1>5, <1>6, <1>7, <1>8

LEMMA LookHolds ==
  ASSUME IInv, NEW p \in Projects, Look(p)
  PROVE  IInv'
<1> USE DEF IInv
<1>1. /\ master.step = "check" /\ p \in master.unchecked
      /\ master' = [master EXCEPT !.unchecked = @ \ {p}, !.warned = @ \/ Shadows(p)]
      /\ since' = [since EXCEPT !.projects = @ \ {p}]
      /\ UNCHANGED <<kind, file, backup, temp, leftovers, project>>
  BY DEF Look
<1>2. /\ master'.step = "check" /\ master'.op = master.op
      /\ master'.unchecked = master.unchecked \ {p}
      /\ master'.warned = (master.warned \/ Shadows(p))
      /\ master'.read = master.read /\ master'.updated = master.updated
      /\ since'.file = since.file /\ since'.projects = since.projects \ {p}
  BY <1>1 DEF TypeOK
<1>3. TypeOK'
  BY <1>1, <1>2 DEF TypeOK, Shadows
<1>4. OnDisk' /\ InMemory' /\ NeverTorn' /\ Waiting'
  BY <1>1, <1>2 DEF OnDisk, InMemory, Updating, NeverTorn, Waiting
<1>5. Verified'
  <2> SUFFICES ASSUME master.op = "verify", ~master.warned, ~Shadows(p) PROVE Verified'
    BY <1>2 DEF Verified
  <2>1. project[p] \in {"silent", "ours", "stale"}
    BY DEF Shadows, TypeOK, Shadow
  <2>2. Registered' = Registered
    BY <1>1 DEF Registered
  <2> QED BY <1>1, <1>2, <2>1, <2>2 DEF Verified
<1> QED BY <1>3, <1>4, <1>5

LEMMA NextHolds == IInv /\ [Next]_vars => IInv'
<1> SUFFICES ASSUME IInv, [Next]_vars PROVE IInv'
  OBVIOUS
<1> USE DEF IInv
<1>1. CASE Begin
  BY <1>1, BeginHolds
<1>2. CASE TruncateBackup
  BY <1>2 DEF TruncateBackup, TypeOK, OnDisk, InMemory, Updating, NeverTorn, Mutate, Verified,
     Waiting
<1>3. CASE WriteBackup
  BY <1>3 DEF WriteBackup, TypeOK, OnDisk, InMemory, Updating, NeverTorn, Mutate, Objects,
     Verified, Waiting
<1>4. CASE MakeTemp
  BY <1>4 DEF MakeTemp, TypeOK, OnDisk, InMemory, Updating, NeverTorn, Mutate, Verified, Waiting
<1>5. CASE WriteTemp
  BY <1>5 DEF WriteTemp, TypeOK, OnDisk, InMemory, Updating, NeverTorn, Mutate, Objects,
     Verified, Waiting
<1>6. CASE Replace
  BY <1>6, ReplaceHolds
<1>7. CASE Report
  BY <1>7 DEF Report, TypeOK, OnDisk, InMemory, Updating, NeverTorn, Mutate, Verified,
     Registered, Waiting
<1>8. CASE Fail
  <2>1. leftovers' \in 0 .. MaxTemps
    BY <1>8, TempsAssumption DEF Fail, TypeOK
  <2>2. master' = [Idle EXCEPT !.step = "done", !.op = master.op, !.warned = TRUE]
        /\ temp' = NoFile /\ UNCHANGED <<kind, file, backup, project, since>>
    BY <1>8 DEF Fail
  <2>3. TypeOK'
    BY <2>1, <2>2 DEF Idle, TypeOK
  <2> QED BY <2>2, <2>3 DEF Idle, OnDisk, InMemory, Updating, NeverTorn, Verified, Waiting
<1>9. CASE Crash
  BY <1>9, TempsAssumption
  DEF Crash, Idle, TypeOK, OnDisk, InMemory, Updating, NeverTorn, Verified, Waiting
<1>10. CASE OthersWrite
  <2>1. TypeOK' /\ NeverTorn'
    BY <1>10, WrittenAssumption, NoFileAssumption DEF OthersWrite, TypeOK, NeverTorn
  <2>2. OnDisk' /\ InMemory' /\ Waiting'
    BY <1>10 DEF OthersWrite, OnDisk, InMemory, Mutate, Waiting
  <2>3. Verified'
    BY <1>10 DEF OthersWrite, TypeOK, Verified
  <2> QED BY <2>1, <2>2, <2>3
<1>11. ASSUME NEW p \in Projects, Look(p) PROVE IInv'
  BY <1>11, LookHolds
<1>12. ASSUME NEW p \in Projects, OthersWriteProject(p) PROVE IInv'
  <2>1. TypeOK'
    BY <1>12 DEF OthersWriteProject, TypeOK
  <2>2. OnDisk' /\ InMemory' /\ NeverTorn' /\ Waiting'
    BY <1>12 DEF OthersWriteProject, OnDisk, InMemory, NeverTorn, Mutate, Waiting
  <2>3. Verified'
    BY <1>12 DEF OthersWriteProject, TypeOK, Verified, Registered
  <2> QED BY <2>1, <2>2, <2>3
<1>13. CASE UNCHANGED vars
  BY <1>13 DEF vars, TypeOK, OnDisk, InMemory, NeverTorn, Mutate, Verified, Registered, Waiting
<1> QED BY <1>1, <1>2, <1>3, <1>4, <1>5, <1>6, <1>7, <1>8, <1>9, <1>10, <1>11, <1>12, <1>13
        DEF Next

LEMMA Inductive == Spec => []IInv
BY InitHolds, NextHolds, PTL DEF Spec

\* Every variable keeps its type; in particular an update holds nothing in memory but
\* JSON objects, whatever others left in the file.
THEOREM TypeCorrect == Spec => []TypeOK
BY Inductive, PTL DEF IInv

\* No reader ever finds half a file, whoever is killed when (atomic_update_json).
THEOREM WholeAlways == Spec => []NeverTorn
BY Inductive, PTL DEF IInv

\* What an update replaces is in the backup.
THEOREM AlwaysBackedUp == Spec => BackedUp
<1>1. IInv /\ [Next]_vars =>
        [Replace => (file = master.read /\ file # NoFile => backup = file)]_vars
  BY DEF IInv, OnDisk, Replace, SyncedBeforeReplace
<1> QED BY <1>1, Inductive, PTL DEF Spec, BackedUp

\* An update changes nothing but its own part of the file.
THEOREM OthersAreKept == Spec => OthersKept
<1> DEFINE A == Replace /\ file = master.read /\ file # NoFile =>
       /\ file'.rest = file.rest /\ file'.form = file.form
       /\ kind = "settings" => file'.flag = file.flag
       /\ \A i \in DOMAIN file.hooks :
            /\ i \in DOMAIN file'.hooks
            /\ ~EntryIsOurs(file.hooks[i]) => file'.hooks[i] = file.hooks[i]
<1>1. IInv /\ [Next]_vars => [A]_vars
  <2> SUFFICES ASSUME IInv, Replace, file = master.read, file # NoFile PROVE A
    OBVIOUS
  <2>1. file' = Mutate(file) /\ file \in Objects
    BY DEF IInv, OnDisk, InMemory, Updating, Replace, SyncedBeforeReplace, TypeOK
  <2>2. file.hooks \in Seq(Entry)
    BY <2>1 DEF Objects, Content
  <2>3. CASE kind = "settings"
    <3>1. file' = [file EXCEPT !.hooks = EnsureRegistered(@)]
      BY <2>1, <2>3 DEF Mutate
    <3>2. /\ file'.hooks = EnsureRegistered(file.hooks)
          /\ file'.rest = file.rest /\ file'.form = file.form /\ file'.flag = file.flag
      BY <2>1, <3>1 DEF Objects, Content
    <3> QED BY <2>2, <3>2, RegisteredNow
  <2>4. CASE kind # "settings"
    <3>1. file' = [file EXCEPT !.flag = TRUE]
      BY <2>1, <2>4 DEF Mutate
    <3> QED BY <2>1, <2>4, <3>1 DEF Objects, Content
  <2> QED BY <2>3, <2>4
<1>2. Spec => [][A]_vars
  BY <1>1, Inductive, PTL DEF Spec
<1> QED BY <1>2 DEF OthersKept

\* A verification that warned of nothing left our entry in the user's settings, and found
\* no project file without ours, but for what others wrote since.
THEOREM SilenceIsEffect == Spec => []SilenceMeansInEffect
<1>1. IInv => SilenceMeansInEffect
  BY DEF IInv, Verified, Waiting, SilenceMeansInEffect
<1> QED BY <1>1, Inductive, PTL
=============================================================================
