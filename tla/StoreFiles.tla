------------------------------ MODULE StoreFiles ------------------------------
(***************************************************************************)
(* The state store beside the files it replaced: the import of the 5.7.1   *)
(* files and the export that keeps a rollback possible (store/legacy.ts),  *)
(* the tick's divergence check (store/divergence.ts), the daily integrity  *)
(* check and backup (store/backup.ts) and the operator's `state' commands  *)
(* (commands/state.ts).                                                    *)
(*                                                                         *)
(* Two programs run at once: the tick, and one command of the operator.    *)
(* The commands that ask for the reconcile lock only probe it, so a tick   *)
(* may start beside them, and an export is a read of the store and then    *)
(* two renames.  An export may fail, a program may be killed between two   *)
(* steps, the database may be damaged; the operator may put 5.7.1 back,    *)
(* which knows only the files.                                             *)
(*                                                                         *)
(* MaxMoves bounds changes, commands and faults together; Keep is          *)
(* BACKUP_KEEP.                                                            *)
(***************************************************************************)
EXTENDS Naturals, FiniteSets

CONSTANTS Box, Keep, MaxDay, MaxMoves

ASSUME StoreFilesAssumption == Keep \in Nat \ {0} /\ MaxDay \in Nat /\ MaxMoves \in Nat

VARIABLES store,    \* fleet.db
          files,    \* enrolled.tsv, authorized-keys.map, the key files, the old counters
          backups,  \* [day, store] kept under backup/
          engine,   \* the installed program: "new" or "5.7.1"
          prog,     \* the tick and the operator's command
          quiet,    \* the last tick ran alone and had nothing to report
          day, moves

storeVars == <<store, files, backups, engine, prog, quiet, day, moves>>

Actors == {"tick", "cli"}
Never == MaxDay + 1
Phases == {"none", "enrolled", "retired"}
Findings == {"none", "file-only", "store-only"}
Idle == [at |-> "idle", rows |-> {}, pubs |-> {}, boxes |-> {}, failed |-> FALSE, alone |-> FALSE,
         next |-> "idle"]

Enrolled == {b \in Box : store.member[b] = "enrolled"}
Running(p) == prog[p].at # "idle"

StoreSet ==
  [member : [Box -> Phases], pub : SUBSET Box, keys : SUBSET Box, imported : BOOLEAN,
   finding : [Box -> Findings], flag : BOOLEAN, bad : BOOLEAN, backedUp : 0 .. Never]
FileSet ==
  [present : BOOLEAN, garbled : BOOLEAN, tsv : SUBSET Box, map : SUBSET Box, keys : SUBSET Box,
   streaks : BOOLEAN]

\* A host that ran 5.7.1, or none: no store yet.
StoreInit ==
  /\ store = [member |-> [b \in Box |-> "none"], pub |-> {}, keys |-> {}, imported |-> FALSE,
              finding |-> [b \in Box |-> "none"], flag |-> FALSE, bad |-> FALSE, backedUp |-> Never]
  /\ files \in [present : BOOLEAN, garbled : BOOLEAN, tsv : SUBSET Box, map : SUBSET Box,
                keys : SUBSET Box, streaks : BOOLEAN]
  /\ files.map = files.tsv /\ files.keys \subseteq files.tsv
  /\ files.present \/ files = [present |-> FALSE, garbled |-> FALSE, tsv |-> {}, map |-> {},
                               keys |-> {}, streaks |-> FALSE]
  /\ backups = {} /\ engine = "new" /\ quiet = FALSE
  /\ prog = [p \in Actors |-> Idle]
  /\ day = 0 /\ moves = 0

Counted == moves < MaxMoves /\ moves' = moves + 1

\* p goes to `at'; whatever anyone but the tick does, the tick is not alone.
Goto(p, next) ==
  prog' = [q \in Actors |->
             IF q = p THEN next
             ELSE IF p = "cli" THEN [prog[q] EXCEPT !.alone = FALSE] ELSE prog[q]]
At(p, at) == [prog[p] EXCEPT !.at = at]

---------------------------------------------------------------------------
(* Export: read the enrolled rows, rename enrolled.tsv, rename the map, then *)
(* the key files of the boxes concerned.  A failure is recorded and the     *)
(* rest of that export is skipped.                                          *)

StartExport(p, boxes, next) ==
  Goto(p, [prog[p] EXCEPT !.at = "read", !.boxes = boxes, !.next = next])

ReadRows(p) ==
  /\ prog[p].at = "read"
  /\ Goto(p, [prog[p] EXCEPT !.at = "tsv", !.rows = Enrolled, !.pubs = Enrolled \cap store.pub])
  /\ UNCHANGED <<store, files, backups, engine, quiet, day, moves>>

Fails(p, at) ==
  /\ Counted
  /\ Goto(p, [prog[p] EXCEPT !.at = at, !.failed = TRUE])
  /\ UNCHANGED files

WriteTsv(p) ==
  /\ prog[p].at = "tsv"
  /\ \/ /\ files' = [files EXCEPT !.tsv = prog[p].rows, !.present = TRUE]
        /\ Goto(p, At(p, "map"))
        /\ UNCHANGED moves
     \/ Fails(p, "keys")
  /\ UNCHANGED <<store, backups, engine, quiet, day>>

WriteMap(p) ==
  /\ prog[p].at = "map"
  /\ \/ /\ files' = [files EXCEPT !.map = prog[p].pubs]
        /\ Goto(p, At(p, "keys"))
        /\ UNCHANGED moves
     \/ Fails(p, "keys")
  /\ UNCHANGED <<store, backups, engine, quiet, day>>

\* A command ends; a tick goes on where the export was called from.
Exported(p) == IF p = "cli" THEN Idle ELSE At(p, prog[p].next)

\* Written from the key row, removed when there is none.
WriteKeys(p) ==
  /\ prog[p].at = "keys"
  /\ \/ /\ files' = [files EXCEPT !.keys = (@ \ prog[p].boxes) \cup (store.keys \cap prog[p].boxes)]
        /\ Goto(p, Exported(p))
        /\ UNCHANGED moves
     \/ Fails(p, Exported(p).at)
  /\ UNCHANGED <<store, backups, engine, quiet, day>>

---------------------------------------------------------------------------
(* Import.                                                                  *)

\* The halt rule: with the flag set the tick refuses (rc 3) and writes nothing.
Onward == IF store.flag THEN "idle" ELSE "diverge"

\* The one transaction: every data row goes, then the file's rows.
Replayed ==
  [store EXCEPT !.member = [b \in Box |-> IF b \in files.tsv THEN "enrolled" ELSE "none"],
                !.pub = files.tsv \cap files.map, !.keys = files.tsv \cap files.keys,
                !.finding = [b \in Box |-> "none"], !.imported = TRUE]

Import(p) ==
  /\ ~files.garbled
  /\ store' = Replayed
  /\ Goto(p, [At(p, "reset") EXCEPT !.boxes = files.tsv, !.alone = p = "tick" /\ ~Running("cli")])

\* Best effort, after the transaction; then everything is exported.
ResetLegacyFiles(p) ==
  /\ prog[p].at = "reset"
  /\ files' = [files EXCEPT !.streaks = FALSE]
  /\ StartExport(p, prog[p].boxes, Onward)
  /\ UNCHANGED <<store, backups, engine, quiet, day, moves>>

---------------------------------------------------------------------------
(* The tick.                                                                *)

\* The store is opened; without the marker the files are imported, an
\* unparseable one refused (rc 3) before a row is touched.
TickOpen ==
  /\ engine = "new" /\ ~Running("tick")
  /\ quiet' = FALSE
  /\ \/ /\ ~store.imported /\ files.present
        /\ Import("tick")
     \/ /\ store.imported \/ ~files.present
        /\ store' = [store EXCEPT !.imported = TRUE]
        /\ Goto("tick", [Idle EXCEPT !.at = Onward, !.alone = ~Running("cli")])
  /\ UNCHANGED <<files, backups, engine, day, moves>>

\* Mutant: a row only the file has is not looked for.
FindingStoreOnly(b) ==
  IF b \in Enrolled \ files.tsv THEN "store-only" ELSE "none"
Finding(b) ==
  IF b \in files.tsv \ Enrolled THEN "file-only"
  ELSE IF b \in Enrolled \ files.tsv THEN "store-only" ELSE "none"

\* Findings are opened, changed and cleared, each with a notice; a file that
\* is not there is inert.
CheckDivergence ==
  /\ prog["tick"].at = "diverge"
  /\ store' = IF files.present THEN [store EXCEPT !.finding = [b \in Box |-> Finding(b)]] ELSE store
  /\ Goto("tick", At("tick", "work"))
  /\ UNCHANGED <<files, backups, engine, quiet, day, moves>>

\* The passes: no membership or key change, a box adopted, a key minted.
TickWork ==
  /\ prog["tick"].at = "work"
  /\ \/ /\ Goto("tick", At("tick", "finish"))
        /\ UNCHANGED <<store, moves>>
     \/ \E b \in Box :
          /\ store.member[b] = "none" /\ Counted
          /\ store' = [store EXCEPT !.member[b] = "enrolled", !.pub = @ \cup {b}]
          /\ StartExport("tick", {}, "finish")
     \/ \E b \in Enrolled \ store.keys :
          /\ Counted
          /\ store' = [store EXCEPT !.keys = @ \cup {b}]
          /\ Goto("tick", [At("tick", "keys") EXCEPT !.boxes = {b}, !.next = "finish"])
  /\ UNCHANGED <<files, backups, engine, quiet, day>>

\* The Keep newest days; a second backup of a day replaces the first.
NewestKept(kept) == {k \in kept : Cardinality({n \in kept : n.day > k.day}) < Keep}
WithBackup == NewestKept({k \in backups : k.day # day} \cup {[day |-> day, store |-> store]})

\* quick_check, then the copy.  The flag may not be writable on a damaged
\* file, and the copy may fail: then the date stays.
Maintain ==
  \/ /\ store.bad
     /\ store' \in {store, [store EXCEPT !.flag = TRUE]}
     /\ UNCHANGED backups
  \/ /\ ~store.bad
     /\ backups' = WithBackup
     /\ store' = [store EXCEPT !.backedUp = day]
  \/ /\ ~store.bad
     /\ UNCHANGED <<store, backups>>

\* Mutant: a failed export does not reach the exit code.
NothingToReportLost == \A b \in Box : store.finding[b] = "none"
\* rc 0, and no finding open.
NothingToReport == NothingToReportLost /\ ~prog["tick"].failed

TickFinish ==
  /\ prog["tick"].at = "finish"
  /\ IF store.backedUp = day THEN UNCHANGED <<store, backups>> ELSE Maintain
  /\ quiet' = (prog["tick"].alone /\ NothingToReport)
  /\ Goto("tick", Idle)
  /\ UNCHANGED <<files, engine, day, moves>>

---------------------------------------------------------------------------
(* The operator's commands, one at a time.                                  *)

Command == engine = "new" /\ ~Running("cli") /\ Counted /\ quiet' = FALSE
Probe == ~Running("tick")

\* `retire', and an enrolment by hand, as far as the store is concerned.
CliRetire(b) ==
  /\ Command /\ Probe
  /\ store.member[b] = "enrolled"
  /\ store' = [store EXCEPT !.member[b] = "retired", !.keys = @ \ {b}]
  /\ StartExport("cli", {b}, "idle")
  /\ UNCHANGED <<files, backups, engine, day>>

CliEnrol(b) ==
  /\ Command
  /\ store.member[b] # "enrolled"
  /\ store' = [store EXCEPT !.member[b] = "enrolled", !.pub = @ \cup {b}]
  /\ StartExport("cli", {}, "idle")
  /\ UNCHANGED <<files, backups, engine, day>>

CliForgetKey(b) ==
  /\ Command
  /\ b \in store.keys
  /\ store' = [store EXCEPT !.keys = @ \ {b}]
  /\ Goto("cli", [At("cli", "keys") EXCEPT !.boxes = {b}])
  /\ UNCHANGED <<files, backups, engine, day>>

\* `state import --force': a file that is not there is an empty one.
CliImport ==
  /\ Command /\ Probe
  /\ Import("cli")
  /\ UNCHANGED <<files, backups, engine, day>>

\* `reconcile-files --apply' works through the findings as they were recorded.
CliReconcile ==
  /\ Command /\ Probe
  /\ LET fileOnly == {b \in Box : store.finding[b] = "file-only"}
     IN  /\ fileOnly # {}
         /\ Goto("cli", [Idle EXCEPT !.at = "apply", !.boxes = fileOnly])
  /\ UNCHANGED <<store, files, backups, engine, day>>

CliApply ==
  /\ prog["cli"].at = "apply"
  /\ \/ \E b \in prog["cli"].boxes :
          /\ store' = [store EXCEPT !.member[b] = "enrolled", !.finding[b] = "none",
                                    !.pub = @ \cup ({b} \cap files.map)]
          /\ Goto("cli", [prog["cli"] EXCEPT !.boxes = @ \ {b}])
     \/ /\ prog["cli"].boxes = {}
        /\ StartExport("cli", Enrolled, "idle")
        /\ UNCHANGED store
  /\ UNCHANGED <<files, backups, engine, quiet, day, moves>>

\* `state check': the verdict, then the lock, then the flag.
CliCheck ==
  /\ Command
  /\ store.flag /\ ~store.bad
  /\ Goto("cli", [Idle EXCEPT !.at = "clear"])
  /\ UNCHANGED <<store, files, backups, engine, day>>

CliClear ==
  /\ prog["cli"].at = "clear" /\ Probe
  /\ store' = [store EXCEPT !.flag = FALSE]
  /\ Goto("cli", Idle)
  /\ UNCHANGED <<files, backups, engine, quiet, day, moves>>

CliBackup ==
  /\ Command
  /\ Maintain
  /\ Goto("cli", Idle)
  /\ UNCHANGED <<files, engine, day>>

\* The operator has stopped the timer first.
CliRestore ==
  /\ Command /\ ~Running("tick")
  /\ \E k \in backups : store' = [k.store EXCEPT !.flag = FALSE]
  /\ Goto("cli", Idle)
  /\ UNCHANGED <<files, backups, engine, day>>

---------------------------------------------------------------------------
(* Around the programs.                                                     *)

Unattended == \A p \in Actors : ~Running(p)

\* 5.7.1 put back, or replaced again, with nothing running.
Rollback ==
  /\ Unattended /\ engine = "new" /\ Counted
  /\ engine' = "5.7.1" /\ quiet' = FALSE
  /\ UNCHANGED <<store, files, backups, prog, day>>

Forward ==
  /\ engine = "5.7.1" /\ engine' = "new"
  /\ UNCHANGED <<store, files, backups, prog, quiet, day, moves>>

\* 5.7.1 enrols or retires a box, counts a failure: in the files only.
OldEngine ==
  /\ engine = "5.7.1" /\ Counted
  /\ \E b \in Box :
       files' \in {[files EXCEPT !.present = TRUE, !.tsv = @ \cup {b}, !.map = @ \cup {b},
                                 !.streaks = TRUE],
                   [files EXCEPT !.present = TRUE, !.tsv = @ \ {b}, !.map = @ \ {b},
                                 !.keys = @ \ {b}]}
  /\ UNCHANGED <<store, backups, engine, prog, quiet, day>>

Killed(p) ==
  /\ Running(p) /\ Counted
  /\ Goto(p, Idle)
  /\ UNCHANGED <<store, files, backups, engine, quiet, day>>

Damage ==
  /\ ~store.bad /\ Counted
  /\ store' = [store EXCEPT !.bad = TRUE]
  /\ UNCHANGED <<files, backups, engine, prog, quiet, day>>

\* What failed quick_check is gone again: an index rebuilt, a disk that reads.
Recovered ==
  /\ store.bad
  /\ store' = [store EXCEPT !.bad = FALSE]
  /\ UNCHANGED <<files, backups, engine, prog, quiet, day, moves>>

\* The operator repairs the file the import refused.
MendFile ==
  /\ files.garbled /\ Unattended
  /\ files' = [files EXCEPT !.garbled = FALSE]
  /\ UNCHANGED <<store, backups, engine, prog, quiet, day, moves>>

NextDay ==
  /\ day < MaxDay
  /\ day' = day + 1
  /\ UNCHANGED <<store, files, backups, engine, prog, quiet, moves>>

---------------------------------------------------------------------------
Export(p) == ReadRows(p) \/ WriteTsv(p) \/ WriteMap(p) \/ WriteKeys(p) \/ ResetLegacyFiles(p)
Tick == TickOpen \/ CheckDivergence \/ TickWork \/ TickFinish
Cli ==
  \/ \E b \in Box : CliRetire(b) \/ CliEnrol(b) \/ CliForgetKey(b)
  \/ CliImport \/ CliReconcile \/ CliApply \/ CliCheck \/ CliClear \/ CliBackup \/ CliRestore

StoreNext ==
  \/ \E p \in Actors : Export(p) \/ Killed(p)
  \/ Tick \/ Cli \/ Rollback \/ Forward \/ OldEngine \/ Damage \/ Recovered \/ MendFile \/ NextDay

StoreSpec == StoreInit /\ [][StoreNext]_storeVars

---------------------------------------------------------------------------
(* Properties.                                                              *)

\* The store, the files, the programs and the backups have their shapes, and
\* no more than BACKUP_KEEP backups are kept.
StoreTypeOK ==
  /\ store \in StoreSet /\ files \in FileSet
  /\ \A k \in backups : k.day \in 0 .. MaxDay /\ k.store \in StoreSet
  /\ Cardinality(backups) <= Keep
  /\ engine \in {"new", "5.7.1"} /\ quiet \in BOOLEAN

\* A tick nobody disturbed that exits 0 with no finding open leaves the file
\* a rollback reads naming exactly the store's members, whatever was killed,
\* failed, restored or rolled back before it, until somebody writes again
\* (legacy.ts exports after the commit, divergence.ts compares, run.ts rc 7).
QuietMeansSafe == (quiet /\ files.present) => files.tsv = Enrolled

\* A tick no command runs beside that writes a name the store does not have
\* out of enrolled.tsv, a box 5.7.1 enrolled, has reported it first: the
\* divergence check comes before every export of the tick but the import's.
TickTellsFirst ==
  [][\A b \in files.tsv \ files'.tsv :
       (prog["tick"].at = "tsv" /\ prog["tick"].alone /\ store.member[b] = "none")
         => store.finding[b] = "file-only"]_storeVars

\* What docs/FLEET-BRAIN.md says of a name written into enrolled.tsv outside
\* the store (the next tick reports it, the export overwrites it), asked of
\* the export of an operator's command, which does not look first.
RowReportedFirst ==
  [][\A b \in files.tsv \ files'.tsv :
       (engine = "new" /\ store.imported /\ ~Running("tick") /\ store.member[b] = "none")
         => store.finding[b] = "file-only"]_storeVars

\* While the live database is damaged no backup is replaced or pruned, by the
\* tick or by `state backup': the recovery material stays (backup.ts).
RecoveryKept == [][store.bad => backups' = backups]_storeVars

\* What a rollback or a repair would need is never written over unseen.
NothingLost == TickTellsFirst /\ RecoveryKept
=============================================================================
