-------------------------- MODULE DisasterRecovery --------------------------
(***************************************************************************)
(* Backup, verification and restore of a directory (runtime/ha_dr.py), and *)
(* the reports on them: drills, recovery readiness, retention, continuity, *)
(* and what the manual-review gate reads of them.  copytree merges into a  *)
(* directory that is there already, on the way out and on the way back.    *)
(***************************************************************************)
EXTENDS Integers, FiniteSets, Sequences, FiniteSetsExt

CONSTANTS Files, Texts, \* names and contents of the files
          Absent,       \* no content: the file is not there
          BackupIds,    \* the ids callers choose
          MaxBackups,   \* bound on the backups attempted
          MaxChanges,   \* bound on the changes made to files
          Assessments   \* [ages, run, chain, database]: the ages in days of the backups at
                        \* hand, the assessed one's first, the drills that were run, ...

ASSUME DRAssumption ==
    /\ Texts # {} /\ Absent \notin Texts
    /\ \A a \in Assessments : /\ a.ages \in Seq(Int) /\ a.ages # <<>>
                              /\ a.chain \in BOOLEAN /\ a.database \in BOOLEAN

VARIABLES
  source,   \* the directory that is backed up
  stored,   \* per id what is under backup_root
  catalog,  \* the metadata the callers hold: [id, attempt, sum, of]
  attempts, \* per id the backups begun under it
  changes,  \* the changes made to files
  target,   \* what the last restore left where it restored to
  verdict,  \* the last verification: [meta, verified]
  restored, \* the last restore: [meta, success]
  drill     \* the last assessment: see Assess

drVars == <<source, stored, catalog, attempts, changes, target, verdict, restored, drill>>

NoFiles  == [f \in Files |-> Absent]
NoMeta   == [id |-> "none", attempt |-> 0, sum |-> NoFiles, of |-> NoFiles]
NotVerified == [meta |-> NoMeta, verified |-> FALSE]
NotRestored == [meta |-> NoMeta, success |-> FALSE]

\* copytree(from, onto, dirs_exist_ok=True): nothing is taken away.
Merge(onto, from) == [f \in Files |-> IF from[f] = Absent THEN onto[f] ELSE from[f]]

\* The digest of names and contents, taken to be injective on the directory.
Checksum(dir) == dir

-----------------------------------------------------------------------------
DRInit ==
    /\ source = [f \in Files |-> CHOOSE t \in Texts : TRUE]
    /\ stored = [i \in BackupIds |-> NoFiles] /\ catalog = {}
    /\ attempts = [i \in BackupIds |-> 0] /\ changes = 0 /\ target = NoFiles
    /\ verdict = NotVerified /\ restored = NotRestored
    /\ drill = [asked |-> FALSE]

\* The program goes on and rewrites or deletes a file of the directory.
EditSource(f) == \E t \in (Texts \cup {Absent}) \ {source[f]} :
    /\ changes < MaxChanges /\ changes' = changes + 1
    /\ source' = [source EXCEPT ![f] = t]
    /\ UNCHANGED <<stored, catalog, attempts, target, verdict, restored, drill>>

Begun == FoldSet(LAMBDA i, n : n + attempts[i], 0, BackupIds)

\* create_backup under an id; the id is fresh unless the caller names one again.
CreateBackup(i) ==
    /\ Begun < MaxBackups
    /\ attempts' = [attempts EXCEPT ![i] = @ + 1]
    /\ stored' = [stored EXCEPT ![i] = Merge(@, source)]
    /\ catalog' = catalog \cup {[id |-> i, attempt |-> attempts'[i],
                                 sum |-> Checksum(stored'[i]), of |-> source]}
    /\ UNCHANGED <<source, changes, target, verdict, restored, drill>>

\* The copy stops on the way: some files are there and no metadata is returned.
CrashBackup(i) == \E part \in SUBSET Files :
    /\ Begun < MaxBackups
    /\ attempts' = [attempts EXCEPT ![i] = @ + 1]
    /\ stored' = [stored EXCEPT ![i] =
                    Merge(@, [f \in Files |-> IF f \in part THEN source[f] ELSE Absent])]
    /\ UNCHANGED <<source, catalog, changes, target, verdict, restored, drill>>

\* A stored file rots or is deleted.
Damage(i, f) == \E t \in (Texts \cup {Absent}) \ {stored[i][f]} :
    /\ stored[i][f] # Absent /\ changes < MaxChanges
    /\ changes' = changes + 1
    /\ stored' = [stored EXCEPT ![i][f] = t]
    /\ UNCHANGED <<source, catalog, attempts, target, verdict, restored, drill>>

Exists(m) == stored[m.id] # NoFiles

\* Mutant: it is enough that the backup is there.
Verified_Exists(m) == Exists(m)

Verified(m) == Exists(m) /\ Checksum(stored[m.id]) = m.sum

VerifyBackup(m) ==
    /\ verdict' = [meta |-> m, verified |-> Verified(m)]
    /\ UNCHANGED <<source, stored, catalog, attempts, changes, target, restored, drill>>

\* restore, with or without a verifier, into a new directory or the one in use.
Restore(m, checked, into) ==
    LET success == Exists(m) /\ (checked => Verified(m))
    IN  /\ target' = IF success THEN Merge(into, stored[m.id]) ELSE into
        /\ source' = IF into = source THEN target' ELSE source
        /\ restored' = [meta |-> m, success |-> success]
        /\ UNCHANGED <<stored, catalog, attempts, changes, verdict, drill>>

-----------------------------------------------------------------------------
\* simulate: whether the drill counts as recovered.
Recovered(scenario, available, valid) ==
    /\ scenario # "missing_backup" /\ available
    /\ scenario # "snapshot_corruption" /\ valid

\* RecoveryReadinessValidator: the checks that fail.  The backup is looked for now,
\* the two reports are as old as they are.
NotReady(d) ==
    {c \in {"backup_exists"} : ~d.exists} \cup {c \in {"backup_recent_enough"} : d.age > 1}
    \cup {c \in {"checksum_valid"} : ~d.verified} \cup {c \in {"restore_tested"} : ~d.restored}
    \cup {c \in {"recovery_path_tested"} : ~(d.drills # {} /\ \A r \in d.drills : r)}
    \cup {c \in {"audit_chain_valid"} : ~d.chain}

\* BackupRetentionManager with the default policy of 7 days, 4 weeks and 12 months.
Retained(ages) ==
    /\ ages # {} /\ Min(ages) <= 1
    /\ Max(ages) <= Max({7, 4 * 7, 12 * 31})

\* BusinessContinuityReporter: how many of its five checks pass.
ContinuityScore(d) ==
    LET checks == <<d.verified, d.restored, NotReady(d) = {}, Retained(d.ages),
                    d.drills # {} /\ \A r \in d.drills : r>>
    IN  20 * Cardinality({i \in 1 .. 5 : checks[i]})

Continuity(d) == CASE ContinuityScore(d) = 100 -> "READY_FOR_MANUAL_REVIEW"
                   [] ContinuityScore(d) < 80  -> "RECOVERY_IMPROVEMENT_REQUIRED"
                   [] OTHER                    -> "CONTINUE_SHADOW"

\* HAHealthStatus: the worst of its inputs decides.
HAState(d) ==
    CASE ~(d.database /\ d.chain)        -> "DISASTER_RECOVERY_MODE"
      [] ~(d.restored /\ NotReady(d) = {}) -> "RECOVERY_REQUIRED"
      [] ~d.exists                       -> "DEGRADED"
      [] OTHER                           -> "HEALTHY"

\* _ha_dr_checks of the manual-review gate over the section made of these reports.
GateAccepts(d) ==
    /\ d.verified /\ d.restored
    /\ d.chain /\ NotReady(d) = {}
    /\ Retained(d.ages)
    /\ d.drills # {} /\ \A r \in d.drills : r

\* The reports drawn up about one backup.
Assess(m) == \E a \in Assessments :
    LET verified  == verdict.meta = m /\ verdict.verified
    IN  /\ drill' = [asked |-> TRUE, exists |-> Exists(m), verified |-> verified,
                     restored |-> restored.meta = m /\ restored.success, age |-> a.ages[1],
                     ages |-> {a.ages[i] : i \in DOMAIN a.ages}, run |-> a.run,
                     drills |-> {Recovered(s, Exists(m), verified) : s \in a.run},
                     chain |-> a.chain, database |-> a.database]
        /\ UNCHANGED <<source, stored, catalog, attempts, changes, target, verdict, restored>>

CopyNext ==
    \/ \E f \in Files : EditSource(f)
    \/ \E i \in BackupIds : CreateBackup(i) \/ CrashBackup(i) \/ \E f \in Files : Damage(i, f)
    \/ \E m \in catalog : VerifyBackup(m) \/ \E checked \in BOOLEAN, into \in {NoFiles, source} :
                              Restore(m, checked, into)

DRNext == CopyNext \/ \E m \in catalog : Assess(m)

DRSpec == DRInit /\ [][DRNext]_drVars

-----------------------------------------------------------------------------
\* A verified restore into an empty directory gives back exactly what the source held
\* when the backup was made, whatever happened to the copy and to other backups in
\* between, as long as that backup was the first under its id.
RestoreGivesBack ==
    [][\A m \in catalog : Restore(m, TRUE, NoFiles) /\ restored'.success /\ m.attempt = 1
          => target' = m.of]_drVars

\* Merged onto files that are there, it still gives every file of the backup, and
\* leaves the others alone.
RestoreCovers ==
    [][\A m \in catalog : Restore(m, TRUE, source) /\ restored'.success
          => \A f \in Files : source'[f] = IF m.sum[f] # Absent THEN m.sum[f]
                                           ELSE source[f]]_drVars

\* The gate and the continuity report, which read the same reports through different
\* code, agree; and the gate accepts no drill that was meant to fail.
GateAgreesWithContinuity ==
    drill.asked =>
        /\ GateAccepts(drill) <=> Continuity(drill) = "READY_FOR_MANUAL_REVIEW"
        /\ GateAccepts(drill) => /\ drill.run # {}
                                 /\ drill.run \cap {"missing_backup", "snapshot_corruption"} = {}
                                 /\ HAState(drill) \in {"HEALTHY", "DISASTER_RECOVERY_MODE"}
                                 /\ \A a \in drill.ages : a <= 372

\* A verified restore brings back what was backed up, alone or merged, and the two readers
\* of a drill's reports agree on whether the site could continue.
RestoreSound == []GateAgreesWithContinuity /\ RestoreGivesBack /\ RestoreCovers
=============================================================================
