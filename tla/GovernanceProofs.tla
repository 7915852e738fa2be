-------------------------- MODULE GovernanceProofs --------------------------
(***************************************************************************)
(* Proofs about governance: the manual-review gate, backup and restore,    *)
(* the audit chain and log, and the shadow run that the gate judges.       *)
(***************************************************************************)
EXTENDS ReviewGate, DisasterRecovery, AuditTrail, ShadowRun, SumLemmas, TLAPS

(***************************************************************************)
(* The manual-review gate.                                                 *)
(***************************************************************************)
\* Reports that are wrong only in a way that they can be.
Plausible(r) ==
    /\ r \in [Reports -> {"good", "bad", "none"}]
    /\ \A x \in Unjudged : r[x] # "bad"
    /\ \A x \in AlwaysThere : r[x] # "none"

\* A certificate that says ready has nothing against it.
Consistent(c) ==
    /\ c.made \in BOOLEAN
    /\ c.made /\ c.ready => c.acceptable /\ c.failed = {} /\ c.missing = {}

GateInv ==
    /\ flaw \in Flaws
    /\ Plausible(supplied)
    /\ incidents \in [Incidents -> {"none", "open", "acknowledged", "resolved"}]
    /\ Consistent(certificate)
    /\ pack.made \in BOOLEAN
    /\ pack.made => Plausible(pack.reports) /\ Consistent(pack.certificate)

\* A flaw makes its report wrong in a way that it can be.
LEMMA FlawsArePlausible ==
    ASSUME NEW f \in Flaws, NEW r, Plausible(r), NEW v \in {"good", f.as}
    PROVE  Plausible([r EXCEPT ![f.report] = v])
  <1>1. \/ f.report \in Reports \ AlwaysThere /\ f.as = "none"
        \/ f.report \in Reports \ Unjudged /\ f.as = "bad"
    BY FlawsAssumption
  <1>2. Unjudged \subseteq Reports /\ AlwaysThere \subseteq Reports
    BY DEF Unjudged, AlwaysThere, Reports
  <1>3. QED
    BY <1>1, <1>2 DEF Plausible

\* A certificate made of a pack is consistent.
LEMMA CertificatesAreConsistent ==
    ASSUME NEW p
    PROVE  Consistent(Certified(p))
  <1> DEFINE c == Certified(p)
  <1>1. /\ c.made = TRUE /\ c.failed = FailedAreas(p.reports) /\ c.missing = Missing(p.reports)
        /\ c.acceptable = (Missing(p.reports) = {})
        /\ c.ready = (ScorecardReady(p.reports) /\ Missing(p.reports) = {})
    BY DEF Certified
  <1>2. QED
    BY <1>1 DEF Consistent, ScorecardReady

\* The gate's state starts and stays as GateInv says.
LEMMA GateInvInductive == GateInit => GateInv
  <1> SUFFICES ASSUME GateInit PROVE GateInv
    OBVIOUS
  <1>1. Plausible(Good)
    BY DEF Good, Plausible, Unjudged, AlwaysThere, Reports
  <1>2. certificate.made = FALSE /\ pack.made = FALSE
    BY DEF GateInit, NoPack, NoCertificate
  <1>3. incidents \in [Incidents -> {"none", "open", "acknowledged", "resolved"}]
    BY DEF GateInit
  <1>4. QED
    BY <1>1, <1>2, <1>3 DEF GateInit, GateInv, Consistent

\* Every step of the gate keeps it.
LEMMA GateInvStep == GateInv /\ [GateNext]_gateVars => GateInv'
  <1> SUFFICES ASSUME GateInv, [GateNext]_gateVars PROVE GateInv'
    OBVIOUS
  <1>1. CASE \E v \in {"good", flaw.as} : Supply(v)
    <2>1. PICK v \in {"good", flaw.as} : Supply(v)
      BY <1>1
    <2>2. Plausible([supplied EXCEPT ![flaw.report] = v])
      BY FlawsArePlausible DEF GateInv
    <2>3. Plausible(supplied')
      BY <2>1, <2>2 DEF Supply
    <2>4. UNCHANGED <<flaw, incidents, pack, certificate>>
      BY <2>1 DEF Supply
    <2>5. QED
      BY <2>3, <2>4 DEF GateInv
  <1>2. CASE \E i \in Incidents : CreateIncident(i) \/ Acknowledge(i) \/ Resolve(i)
    BY <1>2 DEF GateInv, CreateIncident, Acknowledge, Resolve
  <1>3. CASE \E r \in Roles, approved \in BOOLEAN : Decide(r, approved)
    BY <1>3 DEF GateInv, Decide
  <1>4. CASE Generate
    BY <1>4 DEF GateInv, Generate
  <1>5. CASE Certify
    BY <1>5, CertificatesAreConsistent DEF GateInv, Certify
  <1>6. CASE UNCHANGED gateVars
    BY <1>6 DEF GateInv, gateVars
  <1>7. QED
    BY <1>1, <1>2, <1>3, <1>4, <1>5, <1>6 DEF GateNext

\* It holds throughout.
LEMMA GateInvAlways == GateSpec => []GateInv
  BY GateInvInductive, GateInvStep, PTL DEF GateSpec

\* What a ready verdict rests on.
LEMMA ReadyMeans ==
    ASSUME GateInv, ReadyForReview
    PROVE  /\ pack.made /\ supplied["status"] = "good"
           /\ EvidencePasses(pack.reports) /\ MonitoringPasses(pack)
           /\ GovernancePasses(pack.reports) /\ DRPasses(pack.reports)
           /\ CertificatePasses(pack)
  BY DEF ReadyForReview, Verdict, GateInv

\* ReadyPackIsSound from the invariant.
LEMMA ReadyIsSound == GateInv => ReadyPackIsSound
  <1> SUFFICES ASSUME GateInv, ReadyForReview
               PROVE  /\ \A x \in Reports \ {"status"} : pack.reports[x] # "bad"
                      /\ \A x \in Reports : pack.reports[x] = "none" =>
                            x \in DefaultedReports \cup Unjudged
    BY DEF ReadyPackIsSound
  <1>1. Plausible(pack.reports)
    BY ReadyMeans DEF GateInv
  <1>2. PICK r : r = pack.reports
    OBVIOUS
  <1>3. /\ \A x \in SpokenSections : r[x] = "good"
        /\ r["slo"] # "bad" /\ r["routing"] # "bad"
        /\ r["chain"] = "good" /\ r["policies"] # "bad"
        /\ r["approvals"] # "bad" /\ r["compliance"] # "bad"
        /\ r["dr"] = "good"
    BY <1>2, ReadyMeans DEF EvidencePasses, MonitoringPasses, GovernancePasses, DRPasses
  <1>4. /\ \A x \in Unjudged : r[x] # "bad"
        /\ \A x \in AlwaysThere : r[x] # "none"
    BY <1>1, <1>2 DEF Plausible
  <1>5. \A x \in Reports \ {"status"} : r[x] # "bad"
    BY <1>3, <1>4 DEF Reports, Unjudged, SpokenSections
  <1>6. \A x \in Reports : r[x] = "none" => x \in DefaultedReports \cup Unjudged
    BY <1>3, <1>4 DEF Reports, Unjudged, SpokenSections, AlwaysThere, DefaultedReports
  <1>7. QED
    BY <1>2, <1>5, <1>6

\* JudgesAgree, of any pack.
LEMMA JudgesDoAgree == JudgesAgree
  <1> SUFFICES ASSUME NEW r
               PROVE  /\ FailedAreas(r) \cup UnavailableAreas(r) \subseteq Missing(r) \cup {"policies"}
                      /\ Missing(r) = {} /\ r["policies"] # "bad" => ScorecardReady(r)
                      /\ Missing(r) \ {"config"} # {} => ~ScorecardReady(r)
    BY DEF JudgesAgree
  <1>1. FailedAreas(r) \cup UnavailableAreas(r) \subseteq Missing(r) \cup {"policies"}
    BY DEF FailedAreas, UnavailableAreas, Missing
  <1>2. ASSUME Missing(r) = {}, r["policies"] # "bad" PROVE ScorecardReady(r)
    BY <1>2 DEF ScorecardReady, FailedAreas, UnavailableAreas, Missing
  <1>3. ASSUME Missing(r) \ {"config"} # {} PROVE ~ScorecardReady(r)
    BY <1>3 DEF ScorecardReady, FailedAreas, UnavailableAreas, Missing, UnavailableSections
  <1>4. QED
    BY <1>1, <1>2, <1>3

\* CycleCloses from the invariant.
LEMMA CycleDoesClose == GateInv => CycleCloses
  <1> SUFFICES ASSUME GateInv, pack.made, pack.reports = Good PROVE
                 /\ Certified(pack).ready
                 /\ pack.unresolved = {} /\ pack.signed
                      /\ pack.certificate.made /\ pack.certificate.ready
                      => Verdict(pack, "good", TRUE) = "READY_FOR_MANUAL_REVIEW"
    BY DEF CycleCloses
  <1>1. \A x \in Reports : Good[x] = "good"
    BY DEF Good
  <1>2. Missing(Good) = {} /\ FailedAreas(Good) = {} /\ UnavailableAreas(Good) = {}
    BY <1>1 DEF Missing, FailedAreas, UnavailableAreas, EmptySections, UnavailableSections,
                Reports
  <1>3. Certified(pack).ready
    BY <1>2 DEF Certified, ScorecardReady
  <1>4. ASSUME pack.unresolved = {}, pack.signed, pack.certificate.made, pack.certificate.ready
        PROVE  Verdict(pack, "good", TRUE) = "READY_FOR_MANUAL_REVIEW"
    <2>1. EvidencePasses(Good) /\ GovernancePasses(Good) /\ DRPasses(Good)
      BY <1>1 DEF EvidencePasses, GovernancePasses, DRPasses, SpokenSections, Reports
    <2>2. MonitoringPasses(pack)
      BY <1>1, <1>4 DEF MonitoringPasses, Reports
    <2>3. CertificatePasses(pack)
      BY <1>4 DEF CertificatePasses, GateInv, Consistent
    <2>4. QED
      BY <2>1, <2>2, <2>3 DEF Verdict
  <1>5. QED
    BY <1>3, <1>4

\* The step property of ReadyWasSigned, from the invariant.
LEMMA ReadyIsSigned ==
    ASSUME GateInv, GateInv', [GateNext]_gateVars, ~ReadyForReview, ReadyForReview'
    PROVE  \/ /\ Generate /\ (\A r \in Roles : board[r] = "approved")
              /\ certificate.made /\ certificate.failed = {}
              /\ \A i \in Incidents : incidents[i] \in {"none", "resolved"}
           \/ pack' = pack /\ supplied["status"] # "good"
  <1>1. CASE pack' = pack
    BY <1>1 DEF ReadyForReview, Verdict
  <1>2. CASE Generate
    <2>1. /\ pack'.unresolved = Unresolved /\ pack'.signed = BoardCompleted
          /\ pack'.certificate = certificate
      BY <1>2 DEF Generate
    <2>2. MonitoringPasses(pack') /\ CertificatePasses(pack')
      BY DEF ReadyForReview, Verdict, GateInv
    <2>3. Unresolved = {} /\ BoardCompleted /\ certificate.made /\ certificate.failed = {}
      BY <2>1, <2>2 DEF MonitoringPasses, CertificatePasses
    <2>4. \A i \in Incidents : incidents[i] \in {"none", "resolved"}
      BY <2>3 DEF Unresolved, GateInv
    <2>5. QED
      BY <1>2, <2>3, <2>4 DEF BoardCompleted
  <1>3. QED
    BY <1>1, <1>2 DEF GateNext, Supply, CreateIncident, Acknowledge, Resolve, Decide, Certify,
                      gateVars

\* Whatever the reports, roles and incidents: a pack is ready on good reports, all
\* signatures and a certificate; the judges of its sections agree; and a team that does
\* everything right gets there.
THEOREM ReviewIsSound == GateSpec => ReviewSound
  <1>1. GateInv => ReadyPackIsSound /\ JudgesAgree /\ CycleCloses
    BY ReadyIsSound, JudgesDoAgree, CycleDoesClose
  <1>2. GateInv /\ GateInv' /\ [GateNext]_gateVars =>
          [~ReadyForReview /\ ReadyForReview' =>
          \/ /\ Generate /\ (\A r \in Roles : board[r] = "approved") /\ certificate.made /\ certificate.failed = {}
             /\ \A i \in Incidents : incidents[i] \in {"none", "resolved"}
          \/ pack' = pack /\ supplied["status"] # "good"]_gateVars
    BY ReadyIsSigned
  <1>3. QED
    BY <1>1, <1>2, GateInvAlways, PTL DEF GateSpec, ReviewSound, ReadyWasSigned

(***************************************************************************)
(* Backup and restore.                                                     *)
(***************************************************************************)
Directory == [Files -> Texts \cup {Absent}]

\* Metadata of a backup: what is under its id was once its checksum, and that is the
\* source it was made of when nothing was there before.
Recorded(m) ==
    /\ m.id \in BackupIds /\ m.sum \in Directory /\ m.of \in Directory
    /\ m.attempt = 1 => m.sum = m.of

\* The reports of a drill, as they are drawn up.
DrawnUp(d) ==
    /\ d.exists \in BOOLEAN /\ d.verified \in BOOLEAN /\ d.restored \in BOOLEAN
    /\ d.chain \in BOOLEAN /\ d.database \in BOOLEAN
    /\ IsFiniteSet(d.ages) /\ d.ages \subseteq Int
    /\ d.drills = {Recovered(s, d.exists, d.verified) : s \in d.run}

DRInv ==
    /\ source \in Directory
    /\ stored \in [BackupIds -> Directory]
    /\ attempts \in [BackupIds -> Nat]
    /\ \A i \in BackupIds : attempts[i] = 0 => stored[i] = NoFiles
    /\ \A m \in catalog : Recorded(m)
    /\ verdict.verified \in BOOLEAN /\ restored.success \in BOOLEAN
    /\ drill.asked \in BOOLEAN /\ (drill.asked => DrawnUp(drill))

\* A merge of two directories is one; onto an empty one it is what was merged.
LEMMA MergeFacts ==
    ASSUME NEW a \in Directory, NEW b \in Directory
    PROVE  /\ Merge(a, b) \in Directory
           /\ Merge(NoFiles, b) = b
           /\ NoFiles \in Directory
  <1>1. Merge(a, b) \in Directory
    BY DEF Directory, Merge
  <1>2. \A f \in Files : Merge(NoFiles, b)[f] = b[f]
    BY DEF Merge, NoFiles, Directory
  <1>3. Merge(NoFiles, b) = b
    BY <1>2 DEF Merge, Directory
  <1>4. QED
    BY <1>1, <1>3 DEF NoFiles, Directory

OfIntegers(S) == S \subseteq Int

\* A finite set of integers has a greatest.
LEMMA GreatestExists ==
    ASSUME NEW S, IsFiniteSet(S), OfIntegers(S), S # {}
    PROVE  \E x \in S : \A y \in S : x >= y
  <1>1. SUFFICES ASSUME \A x \in S : \E y \in S : ~(x >= y) PROVE FALSE
    OBVIOUS
  <1> DEFINE Above(x) == {y \in S : y > x}
             T        == {Above(x) : x \in S}
  <1>2. T \in SUBSET SUBSET S
    OBVIOUS
  <1>3. T # {}
    OBVIOUS
  <1>4. ASSUME NEW m \in T PROVE \E s \in T : s \subseteq m /\ s # m
    <2>1. PICK x \in S : m = Above(x)
      OBVIOUS
    <2>2. PICK y \in S : ~(x >= y)
      BY <1>1
    <2>3. Above(y) \in T
      OBVIOUS
    <2>4. x \in Int /\ y \in Int /\ \A z \in S : z \in Int
      BY DEF OfIntegers
    <2>5. y > x /\ ~(y > y) /\ \A z \in S : z > y => z > x
      BY <2>2, <2>4
    <2>6. Above(y) \subseteq Above(x)
      BY <2>5
    <2>7. y \in Above(x) /\ y \notin Above(y)
      BY <2>5
    <2> HIDE DEF T, Above
    <2>8. QED
      BY <2>1, <2>3, <2>6, <2>7
  <1> HIDE DEF T
  <1>5. QED
    BY <1>2, <1>3, <1>4, SmallestSet

\* It is the one that Max gives.
LEMMA GreatestOfFinite ==
    ASSUME NEW S, IsFiniteSet(S), S \subseteq Int, S # {}
    PROVE  Max(S) \in S /\ \A y \in S : Max(S) >= y
  <1>1. \E x \in S : \A y \in S : x >= y
    BY GreatestExists DEF OfIntegers
  <1>2. QED
    BY <1>1 DEF Max

\* The first state, with nothing stored or catalogued.
LEMMA DRInvInit == DRInit => DRInv
  <1> SUFFICES ASSUME DRInit PROVE DRInv
    OBVIOUS
  <1>1. source \in Directory /\ NoFiles \in Directory
    BY DRAssumption DEF DRInit, Directory, NoFiles
  <1>2. QED
    BY <1>1 DEF DRInit, DRInv, NotVerified, NotRestored

\* What the source and the copies hold, step by step.
LEMMA CreateKeeps ==
    ASSUME DRInv, NEW i \in BackupIds, CreateBackup(i)
    PROVE  DRInv'
  <1>1. PICK d \in Directory : d = Merge(stored[i], source)
    BY MergeFacts DEF DRInv
  <1>2. stored' = [stored EXCEPT ![i] = d] /\ attempts' = [attempts EXCEPT ![i] = attempts[i] + 1]
    BY <1>1 DEF CreateBackup
  <1>3. /\ stored' \in [BackupIds -> Directory] /\ attempts' \in [BackupIds -> Nat]
        /\ stored'[i] = d /\ attempts'[i] = attempts[i] + 1
        /\ \A j \in BackupIds : attempts'[j] = 0 => stored'[j] = NoFiles
    BY <1>2 DEF DRInv
  <1>4. PICK m : m = [id |-> i, attempt |-> attempts[i] + 1, sum |-> d, of |-> source]
    OBVIOUS
  <1>5. catalog' = catalog \cup {m}
    BY <1>3, <1>4 DEF CreateBackup, Checksum
  <1>6. Recorded(m)
    <2>1. attempts[i] + 1 = 1 => d = source
      BY <1>1, MergeFacts DEF DRInv
    <2>2. QED
      BY <1>4, <2>1 DEF Recorded, DRInv
  <1>7. UNCHANGED <<source, verdict, restored, drill>>
    BY DEF CreateBackup
  <1>8. QED
    BY <1>3, <1>5, <1>6, <1>7 DEF DRInv

\* A crash leaves some of the files of a backup that no manifest names.
LEMMA CrashKeeps ==
    ASSUME DRInv, NEW i \in BackupIds, CrashBackup(i)
    PROVE  DRInv'
  <1>1. PICK part \in SUBSET Files :
             stored' = [stored EXCEPT ![i] =
                 Merge(@, [f \in Files |-> IF f \in part THEN source[f] ELSE Absent])]
    BY DEF CrashBackup
  <1>2. PICK p \in Directory : p = [f \in Files |-> IF f \in part THEN source[f] ELSE Absent]
    BY DEF Directory, DRInv
  <1>3. PICK d \in Directory : d = Merge(stored[i], p)
    BY MergeFacts DEF DRInv
  <1>4. stored' = [stored EXCEPT ![i] = d] /\ attempts' = [attempts EXCEPT ![i] = attempts[i] + 1]
    BY <1>1, <1>2, <1>3 DEF CrashBackup
  <1>5. UNCHANGED <<source, catalog, verdict, restored, drill>>
    BY DEF CrashBackup
  <1>6. QED
    BY <1>4, <1>5 DEF DRInv

\* A stored file that changes or goes.
LEMMA DamageKeeps ==
    ASSUME DRInv, NEW i \in BackupIds, NEW f \in Files, Damage(i, f)
    PROVE  DRInv'
  <1>1. PICK t \in Texts \cup {Absent} : /\ stored[i][f] # Absent
                                         /\ stored' = [stored EXCEPT ![i][f] = t]
    BY DEF Damage
  <1>2. stored[i] # NoFiles
    BY <1>1 DEF NoFiles
  <1>3. PICK d : d = [stored[i] EXCEPT ![f] = t]
    OBVIOUS
  <1>4. d \in Directory
    BY <1>3 DEF Directory, DRInv
  <1>5. stored' = [stored EXCEPT ![i] = d]
    BY <1>1, <1>3
  <1>6. UNCHANGED <<source, catalog, attempts, verdict, restored, drill>>
    BY DEF Damage
  <1>7. QED
    BY <1>2, <1>4, <1>5, <1>6 DEF DRInv

\* A restore, verified or not, into an empty directory or over the source.
LEMMA RestoreKeeps ==
    ASSUME DRInv, NEW m \in catalog, NEW checked \in BOOLEAN, NEW into \in {NoFiles, source},
           Restore(m, checked, into)
    PROVE  DRInv'
  <1>1. into \in Directory /\ stored[m.id] \in Directory
    BY MergeFacts DEF DRInv, Recorded
  <1>2. target' \in Directory
    BY <1>1, MergeFacts DEF Restore
  <1>3. source' \in Directory
    BY <1>2 DEF Restore, DRInv
  <1>4. restored'.success \in BOOLEAN
    <2>1. PICK s \in BOOLEAN : restored' = [meta |-> m, success |-> s]
      BY DEF Restore
    <2>2. QED
      BY <2>1
  <1>5. UNCHANGED <<stored, catalog, attempts, verdict, drill>>
    BY DEF Restore
  <1>6. QED
    BY <1>3, <1>4, <1>5 DEF DRInv

\* A readiness assessment, which is the last thing that is asked.
LEMMA AssessKeeps ==
    ASSUME DRInv, NEW m \in catalog, Assess(m)
    PROVE  DRInv' /\ drill'.asked = TRUE
  <1>1. PICK a \in Assessments :
          drill' = [asked |-> TRUE, exists |-> Exists(m),
                    verified |-> verdict.meta = m /\ verdict.verified,
                    restored |-> restored.meta = m /\ restored.success, age |-> a.ages[1],
                    ages |-> {a.ages[i] : i \in DOMAIN a.ages}, run |-> a.run,
                    drills |-> {Recovered(s, Exists(m), verdict.meta = m /\ verdict.verified) :
                                   s \in a.run},
                    chain |-> a.chain, database |-> a.database]
    BY DEF Assess
  <1>2. PICK e \in BOOLEAN : e = Exists(m)
    BY DEF Exists
  <1>3. PICK v \in BOOLEAN : v = (verdict.meta = m /\ verdict.verified)
    OBVIOUS
  <1>4. PICK r \in BOOLEAN : r = (restored.meta = m /\ restored.success)
    OBVIOUS
  <1>5. PICK ages : ages = {a.ages[i] : i \in DOMAIN a.ages}
    OBVIOUS
  <1>6. PICK d : d = [asked |-> TRUE, exists |-> e, verified |-> v, restored |-> r,
                      age |-> a.ages[1], ages |-> ages, run |-> a.run,
                      drills |-> {Recovered(s, e, v) : s \in a.run},
                      chain |-> a.chain, database |-> a.database]
    OBVIOUS
  <1>7. drill' = d
    BY <1>1, <1>2, <1>3, <1>4, <1>5, <1>6
  <1>8. IsFiniteSet(ages) /\ ages \subseteq Int
    <2>1. PICK q \in Seq(Int) : q = a.ages
      BY DRAssumption
    <2>2. q \in Surjection(DOMAIN q, ages) /\ ages \subseteq Int
      BY <1>5, <2>1 DEF Surjection
    <2>3. IsFiniteSet(DOMAIN q)
      BY FS_Interval, DOMAIN q = 1 .. Len(q), Len(q) \in Int
    <2>4. QED
      BY <2>2, <2>3, FS_Surjection
  <1>9. DrawnUp(d)
    BY <1>6, <1>8, DRAssumption DEF DrawnUp
  <1>10. UNCHANGED <<source, stored, catalog, attempts, verdict, restored>>
    BY DEF Assess
  <1>11. QED
    BY <1>6, <1>7, <1>9, <1>10 DEF DRInv

\* Every step of backup and recovery keeps it.
LEMMA DRInvStep == DRInv /\ [DRNext]_drVars => DRInv'
  <1> SUFFICES ASSUME DRInv, [DRNext]_drVars PROVE DRInv'
    OBVIOUS
  <1>1. CASE \E f \in Files : EditSource(f)
    BY <1>1 DEF EditSource, DRInv, Directory
  <1>2. CASE \E i \in BackupIds : CreateBackup(i) \/ CrashBackup(i) \/ \E f \in Files : Damage(i, f)
    BY <1>2, CreateKeeps, CrashKeeps, DamageKeeps
  <1>3. CASE \E m \in catalog : VerifyBackup(m)
    <2>1. PICK m \in catalog : VerifyBackup(m)
      BY <1>3
    <2>2. PICK v \in BOOLEAN : verdict' = [meta |-> m, verified |-> v]
      BY <2>1 DEF VerifyBackup, Verified
    <2>3. verdict'.verified \in BOOLEAN
      BY <2>2
    <2>4. UNCHANGED <<source, stored, catalog, attempts, restored, drill>>
      BY <2>1 DEF VerifyBackup
    <2>5. QED
      BY <2>3, <2>4 DEF DRInv
  <1>4. CASE \E m \in catalog, checked \in BOOLEAN, into \in {NoFiles, source} :
                Restore(m, checked, into)
    BY <1>4, RestoreKeeps
  <1>5. CASE \E m \in catalog : Assess(m)
    BY <1>5, AssessKeeps
  <1>6. CASE UNCHANGED drVars
    BY <1>6 DEF drVars, DRInv
  <1>7. QED
    BY <1>1, <1>2, <1>3, <1>4, <1>5, <1>6 DEF DRNext, CopyNext

\* It holds throughout.
LEMMA DRInvAlways == DRSpec => []DRInv
  BY DRInvInit, DRInvStep, PTL DEF DRSpec

\* RestoreGivesBack and RestoreCovers, of one restore.
LEMMA RestoresGiveBack ==
    ASSUME DRInv, NEW m \in catalog, Restore(m, TRUE, NoFiles), restored'.success,
           m.attempt = 1
    PROVE  target' = m.of
  <1>1. Verified(m) /\ target' = Merge(NoFiles, stored[m.id])
    BY DEF Restore
  <1>2. stored[m.id] = m.sum /\ m.sum \in Directory /\ m.sum = m.of
    BY <1>1 DEF Verified, Checksum, DRInv, Recorded
  <1>3. QED
    BY <1>1, <1>2, MergeFacts

\* A verified restore over the source leaves what the manifest lists as it was then,
\* and the rest alone.
LEMMA RestoresCover ==
    ASSUME DRInv, NEW m \in catalog, Restore(m, TRUE, source), restored'.success,
           NEW f \in Files
    PROVE  source'[f] = IF m.sum[f] # Absent THEN m.sum[f] ELSE source[f]
  <1>1. Verified(m) /\ target' = Merge(source, stored[m.id]) /\ source' = target'
    BY DEF Restore
  <1>2. stored[m.id] = m.sum
    BY <1>1 DEF Verified, Checksum
  <1>3. QED
    BY <1>1, <1>2 DEF Merge

\* Twenty points for each of five checks are a hundred when all of them pass.
LEMMA FiveOfFive ==
    ASSUME NEW five \in [1 .. 5 -> BOOLEAN]
    PROVE  /\ 20 * Cardinality({i \in 1 .. 5 : five[i]}) = 100 <=> \A i \in 1 .. 5 : five[i]
           /\ 20 * Cardinality({i \in 1 .. 5 : five[i]}) \in Nat
  <1>1. PICK S : S = {i \in 1 .. 5 : five[i]}
    OBVIOUS
  <1>2. IsFiniteSet(1 .. 5) /\ Cardinality(1 .. 5) = 5
    <2>1. 1 \in Int /\ 5 \in Int
      OBVIOUS
    <2>2. IsFiniteSet(1 .. 5) /\ Cardinality(1 .. 5) = IF 1 > 5 THEN 0 ELSE 5 - 1 + 1
      BY <2>1, FS_Interval, Zenon
    <2>3. QED
      BY <2>2
  <1>3. S \in SUBSET (1 .. 5)
    BY <1>1
  <1>4. IsFiniteSet(S) /\ (Cardinality(1 .. 5) = Cardinality(S) => 1 .. 5 = S)
    BY <1>2, <1>3, FS_Subset
  <1>5. Cardinality(S) \in Nat
    BY <1>4, FS_CardinalityType
  <1>6. 20 * Cardinality(S) = 100 <=> S = 1 .. 5
    BY <1>2, <1>4, <1>5
  <1>7. QED
    BY <1>1, <1>5, <1>6

\* The continuity report says READY exactly when its five five pass.
LEMMA ContinuityMeans ==
    ASSUME NEW d, DrawnUp(d)
    PROVE  Continuity(d) = "READY_FOR_MANUAL_REVIEW" <=>
             /\ d.verified /\ d.restored /\ NotReady(d) = {}
             /\ Retained(d.ages) /\ d.drills # {} /\ \A r \in d.drills : r
  <1>1. PICK p \in BOOLEAN : p = (NotReady(d) = {})
    OBVIOUS
  <1>2. PICK q \in BOOLEAN : q = Retained(d.ages)
    BY DEF Retained
  <1>3. PICK r \in BOOLEAN : r = (d.drills # {} /\ \A x \in d.drills : x)
    OBVIOUS
  <1>4. PICK v \in BOOLEAN, w \in BOOLEAN : v = d.verified /\ w = d.restored
    BY DEF DrawnUp
  <1>5. PICK five : five = <<v, w, p, q, r>>
    OBVIOUS
  <1>6. /\ five \in [1 .. 5 -> BOOLEAN]
        /\ (\A i \in 1 .. 5 : five[i]) <=> v /\ w /\ p /\ q /\ r
    BY <1>5
  <1>7. ContinuityScore(d) = 20 * Cardinality({i \in 1 .. 5 : five[i]})
    BY <1>1, <1>2, <1>3, <1>4, <1>5 DEF ContinuityScore
  <1>8. ContinuityScore(d) = 100 <=> v /\ w /\ p /\ q /\ r
    BY <1>6, <1>7, FiveOfFive
  <1>9. Continuity(d) = "READY_FOR_MANUAL_REVIEW" <=> ContinuityScore(d) = 100
    BY DEF Continuity
  <1>10. QED
    BY <1>1, <1>2, <1>3, <1>4, <1>8, <1>9

\* GateAgreesWithContinuity from the invariant.
LEMMA ReadersAgree == DRInv => GateAgreesWithContinuity
  <1> SUFFICES ASSUME DRInv, drill.asked
               PROVE  /\ GateAccepts(drill) <=> Continuity(drill) = "READY_FOR_MANUAL_REVIEW"
                      /\ GateAccepts(drill) =>
                           /\ drill.run # {}
                           /\ drill.run \cap {"missing_backup", "snapshot_corruption"} = {}
                           /\ HAState(drill) \in {"HEALTHY", "DISASTER_RECOVERY_MODE"}
                           /\ \A a \in drill.ages : a <= 372
    BY DEF GateAgreesWithContinuity
  <1>1. PICK d : d = drill
    OBVIOUS
  <1>2. DrawnUp(d)
    BY <1>1 DEF DRInv
  <1>3. NotReady(d) = {} => d.exists /\ d.chain
    BY DEF NotReady
  <1>4. GateAccepts(d) <=> Continuity(d) = "READY_FOR_MANUAL_REVIEW"
    BY <1>2, <1>3, ContinuityMeans DEF GateAccepts
  <1>5. ASSUME GateAccepts(d)
        PROVE  /\ d.run # {} /\ d.run \cap {"missing_backup", "snapshot_corruption"} = {}
               /\ HAState(d) \in {"HEALTHY", "DISASTER_RECOVERY_MODE"}
               /\ \A a \in d.ages : a <= 372
    <2>1. d.restored /\ NotReady(d) = {} /\ Retained(d.ages)
      BY <1>5 DEF GateAccepts
    <2>2. d.drills # {} /\ \A x \in d.drills : x
      BY <1>5 DEF GateAccepts
    <2>3. d.drills = {Recovered(s, d.exists, d.verified) : s \in d.run}
      BY <1>2 DEF DrawnUp
    <2>4. d.run # {} /\ \A s \in d.run : Recovered(s, d.exists, d.verified)
      BY <2>2, <2>3
    <2>5. d.run \cap {"missing_backup", "snapshot_corruption"} = {}
      BY <2>4 DEF Recovered
    <2>6. HAState(d) \in {"HEALTHY", "DISASTER_RECOVERY_MODE"}
      BY <1>3, <2>1 DEF HAState
    <2>7. Max({7, 4 * 7, 12 * 31}) = 372
      BY DEF Max
    <2>8. \A a \in d.ages : Max(d.ages) >= a /\ Max(d.ages) \in Int /\ a \in Int
      BY <1>2, <2>1, GreatestOfFinite DEF DrawnUp, Retained
    <2>9. \A a \in d.ages : a <= 372
      BY <2>1, <2>7, <2>8 DEF Retained
    <2>10. QED
      BY <2>4, <2>5, <2>6, <2>9
  <1>6. QED
    BY <1>1, <1>4, <1>5

\* Whatever the files, their contents, the ids and the faults: a verified restore brings
\* back what was backed up, alone or merged, and the two readers of a drill's reports
\* agree on whether the site could continue.
THEOREM RestoreIsSound == DRSpec => RestoreSound
  <1>1. DRInv /\ [DRNext]_drVars =>
          [\A m \in catalog : Restore(m, TRUE, NoFiles) /\ restored'.success /\ m.attempt = 1
             => target' = m.of]_drVars
    BY RestoresGiveBack
  <1>2. DRInv /\ [DRNext]_drVars =>
          [\A m \in catalog : Restore(m, TRUE, source) /\ restored'.success
             => \A f \in Files : source'[f] = IF m.sum[f] # Absent THEN m.sum[f]
                                              ELSE source[f]]_drVars
    BY RestoresCover
  <1>3. QED
    BY <1>1, <1>2, ReadersAgree, DRInvAlways, PTL
       DEF DRSpec, RestoreSound, RestoreGivesBack, RestoreCovers

(***************************************************************************)
(* The audit chain.                                                        *)
(***************************************************************************)
\* A list of entries, whatever their hashes are.
IsEntry(x) == x = [event |-> x.event, previous |-> x.previous, index |-> x.index, hash |-> x.hash]
IsChain(c) ==
    /\ c \in Seq({c[i] : i \in DOMAIN c})
    /\ \A i \in DOMAIN c : IsEntry(c[i])

\* Entry i is where it belongs, names the one before, and has its own hash.
Holds(c, i) ==
    /\ c[i].index = i - 1
    /\ c[i].previous = IF i = 1 THEN Genesis ELSE c[i - 1].hash
    /\ c[i].hash = Hash(c[i].event, c[i].previous, c[i].index)

Valid(c) == \A i \in 1 .. Len(c) : Holds(c, i)

ChainInv ==
    /\ IsChain(chain) /\ altered \in {"none", "tail", "inside"}
    /\ Valid(chain) <=> altered # "inside"

\* The lesser of two is what Min gives.
LEMMA LesserOfTwo ==
    ASSUME NEW a \in Int, NEW b \in Int, a <= b
    PROVE  Min({a, b}) = a
  BY DEF Min

\* The failures of a range inside the chain are those of its entries, each judged by
\* the entry before it, in the range or not.
LEMMA FailuresAre ==
    ASSUME NEW c, IsChain(c), NEW a \in Nat, NEW b \in Nat, a <= b, b <= Len(c)
    PROVE  \A x : x \in Failures(c, a, b) <=>
              \E j \in a .. b - 1 :
                  \/ x = <<"index", j>> /\ c[j + 1].index # j
                  \/ x = <<"previous", j>> /\ c[j + 1].previous # HashBefore(c, j)
                  \/ x = <<"hash", j>> /\ c[j + 1].hash #
                        Hash(c[j + 1].event, c[j + 1].previous, c[j + 1].index)
  <1>1. Len(c) \in Nat
    BY DEF IsChain
  <1>2. Min({b, Len(c)}) = b
    BY <1>1, LesserOfTwo
  <1>3. ~(b > Len(c))
    BY <1>1
  <1>4. ASSUME NEW j \in a .. b - 1
        PROVE  (IF j = a THEN HashBefore(c, a) ELSE c[j].hash) = HashBefore(c, j)
    BY <1>1 DEF HashBefore
  <1>5. QED
    BY <1>2, <1>3, <1>4 DEF Failures

\* RangesCompose, of any list of entries.
LEMMA RangesDoCompose ==
    ASSUME NEW c, IsChain(c), NEW k \in 0 .. Len(c)
    PROVE  Failures(c, 0, k) \cup Failures(c, k, Len(c)) = FullFailures(c)
  <1>1. Len(c) \in Nat /\ k \in Nat /\ 0 <= k /\ k <= Len(c) /\ 0 <= Len(c) /\ 0 \in Nat
    BY DEF IsChain
  <1>2. \A j : j \in 0 .. Len(c) - 1 <=> j \in 0 .. k - 1 \/ j \in k .. Len(c) - 1
    BY <1>1
  <1> DEFINE Shows(x, j) ==
                  \/ x = <<"index", j>> /\ c[j + 1].index # j
                  \/ x = <<"previous", j>> /\ c[j + 1].previous # HashBefore(c, j)
                  \/ x = <<"hash", j>> /\ c[j + 1].hash #
                        Hash(c[j + 1].event, c[j + 1].previous, c[j + 1].index)
  <1>3. \A x : x \in Failures(c, 0, k) <=> \E j \in 0 .. k - 1 : Shows(x, j)
    BY <1>1, FailuresAre
  <1>4. \A x : x \in Failures(c, k, Len(c)) <=> \E j \in k .. Len(c) - 1 : Shows(x, j)
    BY <1>1, FailuresAre
  <1>5. \A x : x \in FullFailures(c) <=> \E j \in 0 .. Len(c) - 1 : Shows(x, j)
    BY <1>1, FailuresAre DEF FullFailures
  <1> HIDE DEF Shows
  <1>6. \A x : x \in Failures(c, 0, k) \cup Failures(c, k, Len(c)) <=> x \in FullFailures(c)
    BY <1>2, <1>3, <1>4, <1>5
  <1>7. QED
    BY <1>6

\* The chain verifies when every entry holds.
LEMMA VerifiesIfValid ==
    ASSUME NEW c, IsChain(c)
    PROVE  FullFailures(c) = {} <=> Valid(c)
  <1>1. Len(c) \in Nat /\ 0 \in Nat /\ 0 <= Len(c) /\ Len(c) <= Len(c)
    BY DEF IsChain
  <1>2. \A x : x \in FullFailures(c) <=>
              \E j \in 0 .. Len(c) - 1 :
                  \/ x = <<"index", j>> /\ c[j + 1].index # j
                  \/ x = <<"previous", j>> /\ c[j + 1].previous # HashBefore(c, j)
                  \/ x = <<"hash", j>> /\ c[j + 1].hash #
                        Hash(c[j + 1].event, c[j + 1].previous, c[j + 1].index)
    BY <1>1, FailuresAre DEF FullFailures
  <1>3. ASSUME NEW j \in 0 .. Len(c) - 1
        PROVE  Holds(c, j + 1) <=>
                 /\ c[j + 1].index = j /\ c[j + 1].previous = HashBefore(c, j)
                 /\ c[j + 1].hash = Hash(c[j + 1].event, c[j + 1].previous, c[j + 1].index)
    BY <1>1 DEF Holds, HashBefore
  <1>4. FullFailures(c) = {} <=> \A j \in 0 .. Len(c) - 1 : Holds(c, j + 1)
    BY <1>2, <1>3
  <1>5. (\A j \in 0 .. Len(c) - 1 : Holds(c, j + 1)) <=> \A i \in 1 .. Len(c) : Holds(c, i)
    <2>1. \A i \in 1 .. Len(c) : i - 1 \in 0 .. Len(c) - 1 /\ (i - 1) + 1 = i
      BY <1>1
    <2>2. \A j \in 0 .. Len(c) - 1 : j + 1 \in 1 .. Len(c)
      BY <1>1
    <2>3. QED
      BY <2>1, <2>2
  <1>6. QED
    BY <1>4, <1>5 DEF Valid

\* An entry's standing does not depend on what comes after it.
LEMMA HoldsBelow ==
    ASSUME NEW c, NEW d, NEW i, d[i] = c[i] /\ (i # 1 => d[i - 1] = c[i - 1])
    PROVE  Holds(d, i) <=> Holds(c, i)
  BY DEF Holds

\* Every function over 1 .. n is a list.
LEMMA ListsAreFunctions ==
    ASSUME NEW n \in Nat, NEW S, NEW d \in [1 .. n -> S], \A i \in 1 .. n : IsEntry(d[i])
    PROVE  IsChain(d) /\ Len(d) = n
  <1>1. PICK T : T = {d[i] : i \in DOMAIN d}
    OBVIOUS
  <1>2. DOMAIN d = 1 .. n /\ d \in [1 .. n -> T]
    BY <1>1
  <1>3. d \in Seq(T) /\ Len(d) = n
    BY <1>2
  <1>4. QED
    BY <1>1, <1>2, <1>3 DEF IsChain

\* A sequence is a function on its indices.
LEMMA SequencesAreFunctions ==
    ASSUME NEW R, NEW q \in Seq(R)
    PROVE  q \in [1 .. Len(q) -> R]
  OBVIOUS

\* An entry whose event is replaced and hashed anew keeps its place.
LEMMA RewrittenEntry ==
    ASSUME NEW y, IsEntry(y), NEW e, NEW h
    PROVE  [[y EXCEPT !.event = e] EXCEPT !.hash = h]
             = [event |-> e, previous |-> y.previous, index |-> y.index, hash |-> h]
  <1>1. y = [event |-> y.event, previous |-> y.previous, index |-> y.index, hash |-> y.hash]
    BY DEF IsEntry
  <1>2. PICK p, q, r : p = y.previous /\ q = y.index /\ r = [y EXCEPT !.event = e]
    OBVIOUS
  <1>3. r = [event |-> e, previous |-> p, index |-> q, hash |-> y.hash]
    BY <1>1, <1>2
  <1>4. [r EXCEPT !.hash = h] = [event |-> e, previous |-> p, index |-> q, hash |-> h]
    BY <1>3
  <1>5. QED
    BY <1>2, <1>4

\* What a chain is, for its indices and its entries.
LEMMA ChainFacts ==
    ASSUME NEW c, IsChain(c)
    PROVE  /\ Len(c) \in Nat /\ DOMAIN c = 1 .. Len(c)
           /\ \A i \in 1 .. Len(c) : IsEntry(c[i])
           /\ c \in [1 .. Len(c) -> {c[i] : i \in DOMAIN c}]
  BY DEF IsChain

\* A new entry changes nothing in what is shown of the others, and holds itself.
LEMMA AppendKeeps ==
    ASSUME NEW c, IsChain(c), NEW e, NEW d, d = Append(c, Linked(c, e))
    PROVE  IsChain(d) /\ (Valid(d) <=> Valid(c))
  <1>1. PICK n \in Nat : n = Len(c)
    BY ChainFacts
  <1>2. PICK S : c \in Seq(S)
    BY DEF IsChain
  <1>3. PICK x : x = Linked(c, e)
    OBVIOUS
  <1>4. d \in Seq(S \cup {x}) /\ Len(d) = n + 1 /\ d[n + 1] = x /\ \A i \in 1 .. n : d[i] = c[i]
    <2>1. PICK R : R = S \cup {x}
      OBVIOUS
    <2>2. c \in Seq(R) /\ x \in R
      BY <1>2, <2>1
    <2>3. d \in Seq(R)
      BY <1>3, <2>2
    <2>4. QED
      BY <1>1, <1>2, <1>3, <2>1, <2>3
  <1>5. x.event = e /\ x.index = n /\ x.hash = Hash(e, x.previous, n) /\ IsEntry(x)
        /\ x.previous = IF n = 0 THEN Genesis ELSE c[n].hash
    BY <1>1, <1>2, <1>3 DEF Linked, IsEntry, Last
  <1>6. \A i \in 1 .. n + 1 : i \in 1 .. n \/ i = n + 1
    OBVIOUS
  <1>7. \A i \in 1 .. n + 1 : IsEntry(d[i])
    BY <1>1, <1>4, <1>5, <1>6, ChainFacts
  <1>8. IsChain(d)
    <2>1. n + 1 \in Nat
      OBVIOUS
    <2>2. PICK R : R = S \cup {x}
      OBVIOUS
    <2>3. d \in Seq(R) /\ Len(d) = n + 1
      BY <1>4, <2>2
    <2>4. d \in [1 .. n + 1 -> R]
      BY <2>3, SequencesAreFunctions
    <2>5. QED
      BY <1>7, <2>1, <2>4, ListsAreFunctions
  <1>9. Holds(d, n + 1)
    BY <1>4, <1>5 DEF Holds
  <1>10. ASSUME NEW i \in 1 .. n PROVE Holds(d, i) <=> Holds(c, i)
    <2>1. d[i] = c[i] /\ (i # 1 => d[i - 1] = c[i - 1])
      BY <1>4
    <2>2. QED
      BY <2>1, HoldsBelow
  <1>11. Valid(d) <=> Valid(c)
    BY <1>1, <1>4, <1>6, <1>9, <1>10 DEF Valid
  <1>12. QED
    BY <1>8, <1>11

\* An entry whose event was replaced has the wrong hash.
LEMMA ContentShows ==
    ASSUME NEW c, IsChain(c), Valid(c), NEW i \in 1 .. Len(c), NEW e, e # c[i].event,
           NEW d, d = [c EXCEPT ![i].event = e]
    PROVE  IsChain(d) /\ ~Valid(d)
  <1>1. PICK n \in Nat : n = Len(c)
    BY ChainFacts
  <1>2. PICK x : x = [c[i] EXCEPT !.event = e]
    OBVIOUS
  <1>3. IsEntry(c[i])
    BY ChainFacts
  <1>4. /\ x.event = e /\ x.previous = c[i].previous /\ x.index = c[i].index
        /\ x.hash = c[i].hash /\ IsEntry(x)
    BY <1>2, <1>3 DEF IsEntry
  <1>5. PICK S : S = {c[j] : j \in DOMAIN c} \cup {x}
    OBVIOUS
  <1>6. d = [c EXCEPT ![i] = x]
    BY <1>2
  <1>7. d \in [1 .. n -> S] /\ d[i] = x /\ \A j \in 1 .. n : j # i => d[j] = c[j]
    BY <1>1, <1>5, <1>6, ChainFacts
  <1>8. \A j \in 1 .. n : IsEntry(d[j])
    BY <1>1, <1>4, <1>7, ChainFacts
  <1>9. IsChain(d) /\ Len(d) = n
    BY <1>7, <1>8, ListsAreFunctions
  <1>10. c[i].hash = Hash(c[i].event, c[i].previous, c[i].index)
    BY DEF Valid, Holds
  <1>11. ~Holds(d, i)
    BY <1>4, <1>7, <1>10 DEF Holds, Hash
  <1>12. QED
    BY <1>1, <1>9, <1>11 DEF Valid

\* An entry that was rewritten is not the one that the next entry names; the last one
\* is named by none.
LEMMA RewriteShows ==
    ASSUME NEW c, IsChain(c), Valid(c), NEW i \in 1 .. Len(c), NEW e, e # c[i].event,
           NEW d, d = [c EXCEPT ![i].event = e, ![i].hash = Hash(e, c[i].previous, c[i].index)]
    PROVE  IsChain(d) /\ (Valid(d) <=> i = Len(c))
  <1>1. PICK n \in Nat : n = Len(c)
    BY ChainFacts
  <1>2. PICK h : h = Hash(e, c[i].previous, c[i].index)
    OBVIOUS
  <1>3. PICK x : x = [event |-> e, previous |-> c[i].previous, index |-> c[i].index, hash |-> h]
    OBVIOUS
  <1>4. x.event = e /\ x.previous = c[i].previous /\ x.index = c[i].index /\ x.hash = h /\ IsEntry(x)
    BY <1>3 DEF IsEntry
  <1>5. d = [c EXCEPT ![i] = x]
    <2>1. [[c[i] EXCEPT !.event = e] EXCEPT !.hash = h] = x
      <3>1. PICK y : y = c[i]
        OBVIOUS
      <3>2. IsEntry(y)
        BY <3>1, ChainFacts
      <3>3. QED
        BY <1>3, <3>1, <3>2, RewrittenEntry
    <2>2. PICK b : b = [c EXCEPT ![i].event = e]
      OBVIOUS
    <2>3. b[i] = [c[i] EXCEPT !.event = e] /\ d = [b EXCEPT ![i].hash = h]
      BY <1>1, <1>2, <2>2, ChainFacts
    <2>4. QED
      BY <1>1, <2>1, <2>2, <2>3, ChainFacts
  <1>6. PICK S : S = {c[j] : j \in DOMAIN c} \cup {x}
    OBVIOUS
  <1>7. d \in [1 .. n -> S] /\ d[i] = x /\ \A j \in 1 .. n : j # i => d[j] = c[j]
    BY ZenonT(40), <1>1, <1>5, <1>6, ChainFacts
  <1>8. \A j \in 1 .. n : IsEntry(d[j])
    BY <1>1, <1>4, <1>7, ChainFacts
  <1>9. IsChain(d) /\ Len(d) = n
    BY <1>7, <1>8, ListsAreFunctions
  <1>10. \A j \in 1 .. n : Holds(c, j)
    BY <1>1 DEF Valid
  <1>11. ASSUME i = n PROVE Valid(d)
    <2>1. \A j \in 1 .. n : j # i => Holds(d, j)
      <3>1. SUFFICES ASSUME NEW j \in 1 .. n, j # i PROVE Holds(d, j)
        OBVIOUS
      <3>2. d[j] = c[j] /\ (j # 1 => d[j - 1] = c[j - 1])
        BY <1>7, <1>11, <3>1
      <3>3. QED
        BY <1>10, <3>2, HoldsBelow
    <2>2. Holds(d, i)
      <3>1. i > 1 => d[i - 1] = c[i - 1]
        BY <1>1, <1>7
      <3>2. c[i].index = i - 1 /\ c[i].previous = IF i = 1 THEN Genesis ELSE c[i - 1].hash
        BY <1>10, <1>1 DEF Holds
      <3>3. QED
        BY <1>2, <1>4, <1>7, <3>1, <3>2 DEF Holds
    <2>3. QED
      BY <1>9, <2>1, <2>2 DEF Valid
  <1>12. ASSUME i # n PROVE ~Valid(d)
    <2>1. i + 1 \in 1 .. n /\ i + 1 # 1 /\ (i + 1) - 1 = i /\ i + 1 # i
      BY <1>1, <1>12
    <2>2. c[i + 1].previous = c[i].hash
      BY <1>10, <2>1 DEF Holds
    <2>3. c[i].hash = Hash(c[i].event, c[i].previous, c[i].index)
      BY <1>1, <1>10 DEF Holds
    <2>4. d[i].hash # c[i].hash
      BY <1>2, <1>4, <1>7, <2>3 DEF Hash
    <2>5. d[i + 1] = c[i + 1]
      BY <1>7, <2>1
    <2>6. ~Holds(d, i + 1)
      BY <2>1, <2>2, <2>4, <2>5 DEF Holds
    <2>7. QED
      BY <1>9, <2>1, <2>6 DEF Valid
  <1>13. QED
    BY <1>1, <1>9, <1>11, <1>12

\* Entries that changed places have the wrong index.
LEMMA SwapShows ==
    ASSUME NEW c, IsChain(c), Valid(c), NEW i \in 1 .. Len(c) - 1,
           NEW d, d = [c EXCEPT ![i] = c[i + 1], ![i + 1] = c[i]]
    PROVE  IsChain(d) /\ ~Valid(d)
  <1>1. PICK n \in Nat : n = Len(c)
    BY ChainFacts
  <1>2. i \in 1 .. n /\ i + 1 \in 1 .. n /\ i + 1 # i
    BY <1>1
  <1>3. PICK S : S = {c[j] : j \in DOMAIN c}
    OBVIOUS
  <1>4. /\ d \in [1 .. n -> S] /\ d[i] = c[i + 1] /\ d[i + 1] = c[i]
        /\ \A j \in 1 .. n : j # i /\ j # i + 1 => d[j] = c[j]
    BY <1>1, <1>2, <1>3, ChainFacts
  <1>5. \A j \in 1 .. n : IsEntry(d[j])
    BY <1>1, <1>2, <1>4, ChainFacts
  <1>6. IsChain(d) /\ Len(d) = n
    BY <1>4, <1>5, ListsAreFunctions
  <1>7. c[i + 1].index = i
    BY <1>1, <1>2 DEF Valid, Holds
  <1>8. ~Holds(d, i)
    BY <1>4, <1>7 DEF Holds
  <1>9. QED
    BY <1>2, <1>6, <1>8 DEF Valid

\* Two lists joined.
LEMMA JoinedLists ==
    ASSUME NEW T, NEW p \in Seq(T), NEW q \in Seq(T)
    PROVE  /\ p \o q \in Seq(T) /\ Len(p \o q) = Len(p) + Len(q)
           /\ \A j \in 1 .. Len(p) + Len(q) : (p \o q)[j] = IF j <= Len(p) THEN p[j] ELSE q[j - Len(p)]
  OBVIOUS

\* Where an entry was taken out, the next one has the wrong index; without its last
\* entry a chain is valid.
LEMMA RemovalShows ==
    ASSUME NEW c, IsChain(c), Valid(c), NEW i \in 1 .. Len(c), NEW d, d = RemoveAt(c, i)
    PROVE  IsChain(d) /\ (Valid(d) <=> i = Len(c))
  <1>1. PICK n \in Nat : n = Len(c)
    BY ChainFacts
  <1>2. PICK S : S = {c[j] : j \in DOMAIN c}
    OBVIOUS
  <1>3. c \in Seq(S)
    BY <1>2 DEF IsChain
  <1>4. PICK a : a = SubSeq(c, 1, i - 1)
    OBVIOUS
  <1>5. PICK b : b = SubSeq(c, i + 1, n)
    OBVIOUS
  <1>6. a \in Seq(S) /\ Len(a) = i - 1 /\ \A j \in 1 .. i - 1 : a[j] = c[j]
    BY <1>1, <1>3, <1>4
  <1>7. b \in Seq(S) /\ Len(b) = n - i /\ \A j \in 1 .. n - i : b[j] = c[i + j]
    BY <1>1, <1>3, <1>5
  <1>8. d = a \o b
    BY <1>1, <1>4, <1>5 DEF RemoveAt
  <1>9. d \in Seq(S) /\ Len(d) = n - 1
    <2>1. d \in Seq(S) /\ Len(d) = Len(a) + Len(b)
      BY <1>6, <1>7, <1>8, JoinedLists
    <2>2. i \in Nat /\ (i - 1) + (n - i) = n - 1
      BY <1>1
    <2>3. QED
      BY <1>6, <1>7, <2>1, <2>2
  <1>10. ASSUME NEW j \in 1 .. n - 1
         PROVE  d[j] = IF j < i THEN c[j] ELSE c[j + 1]
    <2>1. d[j] = IF j <= Len(a) THEN a[j] ELSE b[j - Len(a)]
      <3>1. Len(a) + Len(b) = n - 1
        BY <1>1, <1>6, <1>7
      <3>2. a \in Seq(S) /\ b \in Seq(S) /\ j \in 1 .. Len(a) + Len(b)
        BY <1>6, <1>7, <3>1
      <3>3. QED
        BY <1>8, <3>2, JoinedLists
    <2>2. CASE j < i
      <3>1. j \in 1 .. i - 1 /\ j <= Len(a)
        BY <1>1, <1>6, <2>2
      <3>2. QED
        BY <1>6, <2>1, <2>2, <3>1
    <2>3. CASE ~(j < i)
      <3>1. j - (i - 1) \in 1 .. n - i /\ ~(j <= Len(a)) /\ i + (j - (i - 1)) = j + 1
        BY <1>1, <1>6, <2>3
      <3>2. QED
        BY <1>6, <1>7, <2>1, <2>3, <3>1
    <2>4. QED
      BY <2>2, <2>3
  <1>11. n - 1 \in Nat /\ d \in [1 .. n - 1 -> S]
    BY <1>1, <1>9
  <1>12. \A j \in 1 .. n - 1 : IsEntry(d[j])
    BY <1>1, <1>10, ChainFacts
  <1>13. IsChain(d)
    BY <1>11, <1>12, ListsAreFunctions
  <1>14. \A j \in 1 .. n : Holds(c, j)
    BY <1>1 DEF Valid
  <1>15. ASSUME i = n PROVE Valid(d)
    <2>1. SUFFICES ASSUME NEW j \in 1 .. n - 1 PROVE Holds(d, j)
      BY <1>9 DEF Valid
    <2>2. d[j] = c[j] /\ (j # 1 => d[j - 1] = c[j - 1])
      BY <1>10, <1>15
    <2>3. Holds(c, j)
      BY <1>14
    <2>4. QED
      BY <2>2, <2>3, HoldsBelow
  <1>16. ASSUME i # n PROVE ~Valid(d)
    <2>1. i \in 1 .. n - 1 /\ i + 1 \in 1 .. n /\ (i + 1) - 1 = i
      BY <1>1, <1>16
    <2>2. d[i] = c[i + 1] /\ c[i + 1].index = i
      BY <1>10, <1>14, <2>1 DEF Holds
    <2>3. ~Holds(d, i)
      BY <2>2 DEF Holds
    <2>4. QED
      BY <1>9, <2>1, <2>3 DEF Valid
  <1>17. QED
    BY <1>1, <1>13, <1>15, <1>16

\* An appended event keeps the chain valid; an alteration is noted for what it shows.
LEMMA ChainInvStep == ChainInv /\ [ChainNext]_chainVars => ChainInv'
  <1> SUFFICES ASSUME ChainInv, [ChainNext]_chainVars PROVE ChainInv'
    OBVIOUS
  <1>1. IsChain(chain) /\ altered \in {"none", "tail", "inside"} /\ (Valid(chain) <=> altered # "inside")
    BY DEF ChainInv
  <1>2. CASE \E e \in GovernanceEvents : AppendEvent(e)
    <2>1. PICK e : chain' = Append(chain, Linked(chain, e)) /\ altered' = altered
      BY <1>2 DEF AppendEvent
    <2>2. IsChain(chain') /\ (Valid(chain') <=> Valid(chain))
      BY <1>1, <2>1, AppendKeeps
    <2>3. QED
      BY <1>1, <2>1, <2>2 DEF ChainInv
  <1>3. CASE AlterChain
    <2>1. altered = "none" /\ Valid(chain)
      BY <1>1, <1>3 DEF AlterChain
    <2>2. CASE AlterContent
      <3>1. PICK i \in 1 .. Len(chain) : \E e \in GovernanceEvents \ {chain[i].event} :
                 chain' = [chain EXCEPT ![i].event = e] /\ altered' = "inside"
        BY <2>2 DEF AlterContent
      <3>2. PICK e : e # chain[i].event /\ chain' = [chain EXCEPT ![i].event = e]
        BY <3>1
      <3>3. IsChain(chain') /\ ~Valid(chain')
        BY <1>1, <2>1, <3>2, ContentShows
      <3>4. QED
        BY <3>1, <3>3 DEF ChainInv
    <2>3. CASE RewriteEntry
      <3>1. PICK i \in 1 .. Len(chain) : \E e \in GovernanceEvents \ {chain[i].event} :
                 /\ chain' = [chain EXCEPT ![i].event = e,
                                           ![i].hash = Hash(e, chain[i].previous, chain[i].index)]
                 /\ altered' = IF i = Len(chain) THEN "tail" ELSE "inside"
        BY <2>3 DEF RewriteEntry
      <3>2. PICK e : /\ e # chain[i].event
                     /\ chain' = [chain EXCEPT ![i].event = e,
                                               ![i].hash = Hash(e, chain[i].previous, chain[i].index)]
        BY <3>1
      <3>3. IsChain(chain') /\ (Valid(chain') <=> i = Len(chain))
        BY <1>1, <2>1, <3>2, RewriteShows
      <3>4. QED
        BY <3>1, <3>3 DEF ChainInv
    <2>4. CASE SwapEntries
      <3>1. PICK i \in 1 .. Len(chain) - 1 :
                 /\ chain' = [chain EXCEPT ![i] = chain[i + 1], ![i + 1] = chain[i]]
                 /\ altered' = "inside"
        BY <2>4 DEF SwapEntries
      <3>2. IsChain(chain') /\ ~Valid(chain')
        BY <1>1, <2>1, <3>1, SwapShows
      <3>3. QED
        BY <3>1, <3>2 DEF ChainInv
    <2>5. CASE RemoveEntry
      <3>1. PICK i \in 1 .. Len(chain) :
                 /\ chain' = RemoveAt(chain, i)
                 /\ altered' = IF i = Len(chain) THEN "tail" ELSE "inside"
        BY <2>5 DEF RemoveEntry
      <3>2. IsChain(chain') /\ (Valid(chain') <=> i = Len(chain))
        BY <1>1, <2>1, <3>1, RemovalShows
      <3>3. QED
        BY <3>1, <3>2 DEF ChainInv
    <2>6. QED
      BY <1>3, <2>2, <2>3, <2>4, <2>5 DEF AlterChain
  <1>4. CASE UNCHANGED chainVars
    BY <1>1, <1>4 DEF chainVars, ChainInv
  <1>5. QED
    BY <1>2, <1>3, <1>4 DEF ChainNext

(***************************************************************************)
(* The log.                                                                *)
(***************************************************************************)
\* The log after w writes, of which those in done returned: its readable lines are in
\* the order of the writes, and an acknowledged event that cannot be read came right
\* after a write that failed.  The last line, when it is open, was begun by such a one.
LogHolds(lines, open, done, w) ==
    /\ lines \in Seq(Seq(Nat)) /\ open \in BOOLEAN /\ w \in Nat
    /\ done \subseteq 1 .. w
    /\ \A i \in 1 .. Len(lines) :
          Len(lines[i]) >= 1 /\ (Readable(lines[i]) => lines[i][1] <= w)
    /\ open => /\ Len(lines) >= 1 /\ w >= 1 /\ w \notin done
               /\ Readable(lines[Len(lines)]) => lines[Len(lines)][1] \notin done
    /\ \A i, j \in 1 .. Len(lines) :
          i < j /\ Readable(lines[i]) /\ Readable(lines[j]) => lines[i][1] < lines[j][1]
    /\ \A n \in done : \/ \E i \in 1 .. Len(lines) : Readable(lines[i]) /\ lines[i][1] = n
                       \/ n > 1 /\ n - 1 \notin done

LogInv == failed \in Nat /\ LogHolds(logLines, logOpen, acked, Cardinality(acked) + failed)

\* A list with one element added, or one replaced.
LEMMA AppendFacts ==
    ASSUME NEW T, NEW q \in Seq(T), NEW x \in T
    PROVE  /\ Append(q, x) \in Seq(T) /\ Len(Append(q, x)) = Len(q) + 1
           /\ \A i \in 1 .. Len(q) : Append(q, x)[i] = q[i]
           /\ Append(q, x)[Len(q) + 1] = x
  OBVIOUS

\* What replacing an element of a list leaves.
LEMMA ExceptFacts ==
    ASSUME NEW T, NEW q \in Seq(T), NEW x \in T, NEW n \in 1 .. Len(q)
    PROVE  /\ [q EXCEPT ![n] = x] \in Seq(T) /\ Len([q EXCEPT ![n] = x]) = Len(q)
           /\ \A i \in 1 .. Len(q) : [q EXCEPT ![n] = x][i] = IF i = n THEN x ELSE q[i]
  OBVIOUS

\* What is written to a closed log is a line of its own, to an open one the last line's.
LEMMA PutClosed ==
    ASSUME NEW lines \in Seq(Seq(Nat)), NEW piece \in Nat
    PROVE  /\ Put(lines, FALSE, piece) \in Seq(Seq(Nat))
           /\ Len(Put(lines, FALSE, piece)) = Len(lines) + 1
           /\ \A i \in 1 .. Len(lines) : Put(lines, FALSE, piece)[i] = lines[i]
           /\ Put(lines, FALSE, piece)[Len(lines) + 1] = <<piece>>
  <1>1. PICK T : T = Seq(Nat)
    OBVIOUS
  <1>2. PICK x : x = <<piece>>
    OBVIOUS
  <1>3. x \in T /\ lines \in Seq(T)
    BY <1>1, <1>2
  <1>4. Put(lines, FALSE, piece) = Append(lines, x)
    BY <1>2 DEF Put
  <1>5. /\ Append(lines, x) \in Seq(T) /\ Len(Append(lines, x)) = Len(lines) + 1
        /\ \A i \in 1 .. Len(lines) : Append(lines, x)[i] = lines[i]
        /\ Append(lines, x)[Len(lines) + 1] = x
    BY <1>3, AppendFacts
  <1>6. QED
    BY <1>1, <1>2, <1>4, <1>5

\* A piece put onto an unfinished line makes a line that no reader can parse.
LEMMA PutOpen ==
    ASSUME NEW lines \in Seq(Seq(Nat)), NEW piece \in Nat, Len(lines) >= 1,
           Len(lines[Len(lines)]) >= 1
    PROVE  /\ Put(lines, TRUE, piece) \in Seq(Seq(Nat))
           /\ Len(Put(lines, TRUE, piece)) = Len(lines)
           /\ \A i \in 1 .. Len(lines) : i # Len(lines) => Put(lines, TRUE, piece)[i] = lines[i]
           /\ Len(Put(lines, TRUE, piece)[Len(lines)]) >= 1
           /\ ~Readable(Put(lines, TRUE, piece)[Len(lines)])
  <1>1. PICK T : T = Seq(Nat)
    OBVIOUS
  <1>2. PICK n : n = Len(lines)
    OBVIOUS
  <1>3. lines \in Seq(T) /\ n \in 1 .. Len(lines) /\ n \in Nat
    BY <1>1, <1>2
  <1>4. PICK y \in T : y = lines[n]
    BY <1>3
  <1>5. PICK x : x = Append(y, piece)
    OBVIOUS
  <1>6. y \in Seq(Nat) /\ Len(y) >= 1
    BY <1>1, <1>2, <1>4
  <1>7. x \in T /\ Len(x) = Len(y) + 1
    BY <1>1, <1>5, <1>6
  <1>8. Put(lines, TRUE, piece) = [lines EXCEPT ![n] = x]
    BY <1>2, <1>4, <1>5 DEF Put
  <1>9. ~Readable(x) /\ Len(x) >= 1
    BY <1>6, <1>7 DEF Readable
  <1>10. PICK new : new = [lines EXCEPT ![n] = x]
    OBVIOUS
  <1>11. /\ new \in Seq(T) /\ Len(new) = Len(lines)
         /\ \A i \in 1 .. Len(lines) : new[i] = IF i = n THEN x ELSE lines[i]
    BY <1>3, <1>7, <1>10, ExceptFacts
  <1>12. Put(lines, TRUE, piece) = new /\ new[Len(lines)] = x
    BY <1>2, <1>3, <1>8, <1>10, <1>11
  <1>13. QED
    BY <1>1, <1>2, <1>9, <1>11, <1>12

\* A line of one piece is read as that piece, unless it is torn.
LEMMA OnePiece ==
    ASSUME NEW n \in Nat
    PROVE  Len(<<n>>) = 1 /\ <<n>>[1] = n /\ (Readable(<<n>>) <=> n # 0)
  BY DEF Readable

\* A write that returns.
LEMMA WriteHolds ==
    ASSUME NEW lines, NEW open, NEW done, NEW w, LogHolds(lines, open, done, w)
    PROVE  LogHolds(Put(lines, open, w + 1), FALSE, done \cup {w + 1}, w + 1)
  <1>1. w + 1 \in Nat /\ w + 1 \notin done /\ lines \in Seq(Seq(Nat)) /\ w \in Nat
        /\ Len(lines) \in Nat
    BY DEF LogHolds
  <1>2. PICK new : new = Put(lines, open, w + 1)
    OBVIOUS
  <1>3. done \cup {w + 1} \subseteq 1 .. w + 1 /\ \A n \in done : n \in 1 .. w
    BY <1>1 DEF LogHolds
  <1>4. CASE open = FALSE
    <2>1. /\ new \in Seq(Seq(Nat)) /\ Len(new) = Len(lines) + 1
          /\ \A i \in 1 .. Len(lines) : new[i] = lines[i]
          /\ new[Len(lines) + 1] = <<w + 1>>
      BY <1>1, <1>2, <1>4, PutClosed
    <2>2. Readable(new[Len(lines) + 1]) /\ new[Len(lines) + 1][1] = w + 1 /\ Len(new[Len(lines) + 1]) = 1
      BY <1>1, <2>1, OnePiece
    <2>3. \A i \in 1 .. Len(new) : i = Len(lines) + 1 \/ i \in 1 .. Len(lines)
      BY <1>1, <2>1
    <2>4. \A i \in 1 .. Len(new) : Len(new[i]) >= 1 /\ (Readable(new[i]) => new[i][1] <= w + 1)
      <3>1. SUFFICES ASSUME NEW i \in 1 .. Len(lines)
                     PROVE  Len(new[i]) >= 1 /\ (Readable(new[i]) => new[i][1] <= w + 1)
        BY <1>1, <2>2, <2>3
      <3>2. Len(new[i]) >= 1 /\ (Readable(new[i]) => new[i][1] <= w)
        BY <2>1 DEF LogHolds
      <3>3. Readable(new[i]) => new[i][1] \in Nat
        BY SMTT(20), <2>1, <2>3, <1>1 DEF Readable
      <3>4. QED
        BY <1>1, <3>2, <3>3
    <2>5. ASSUME NEW i \in 1 .. Len(new), NEW j \in 1 .. Len(new), i < j,
                 Readable(new[i]), Readable(new[j])
          PROVE  new[i][1] < new[j][1]
      <3>1. i \in 1 .. Len(lines)
        BY <1>1, <2>1, <2>5
      <3>2. new[i] = lines[i] /\ lines[i][1] <= w /\ lines[i][1] \in Nat
        <4>1. new[i] = lines[i] /\ Readable(lines[i])
          BY <2>1, <2>5, <3>1
        <4>2. lines[i][1] <= w
          BY <3>1, <4>1 DEF LogHolds
        <4>3. lines[i] \in Seq(Nat) /\ Len(lines[i]) = 1
          BY <1>1, <3>1, <4>1 DEF Readable
        <4>4. lines[i][1] \in Nat
          BY <4>3
        <4>5. QED
          BY <4>1, <4>2, <4>4
      <3>3. CASE j \in 1 .. Len(lines)
        BY <2>1, <2>5, <3>1, <3>3 DEF LogHolds
      <3>4. CASE j = Len(lines) + 1
        BY <1>1, <2>2, <3>2, <3>4
      <3>5. QED
        BY <2>3, <3>3, <3>4
    <2>6. ASSUME NEW n \in done \cup {w + 1}
          PROVE  \/ \E i \in 1 .. Len(new) : Readable(new[i]) /\ new[i][1] = n
                 \/ n > 1 /\ n - 1 \notin done \cup {w + 1}
      <3>1. CASE n = w + 1
        <4>1. Len(lines) + 1 \in 1 .. Len(new)
          BY <1>1, <2>1
        <4>2. QED
          BY <2>2, <3>1, <4>1
      <3>2. CASE n \in done
        <4>1. CASE \E i \in 1 .. Len(lines) : Readable(lines[i]) /\ lines[i][1] = n
          <5>1. PICK i \in 1 .. Len(lines) : Readable(lines[i]) /\ lines[i][1] = n
            BY <4>1
          <5>2. i \in 1 .. Len(new) /\ new[i] = lines[i]
            BY <1>1, <2>1
          <5>3. QED
            BY <5>1, <5>2
        <4>2. CASE n > 1 /\ n - 1 \notin done
          BY <1>1, <1>3, <3>2, <4>2
        <4>3. QED
          BY <3>2, <4>1, <4>2 DEF LogHolds
      <3>3. QED
        BY <3>1, <3>2
    <2>7. QED
      BY <1>1, <1>2, <1>3, <2>1, <2>4, <2>5, <2>6 DEF LogHolds
  <1>5. CASE open = TRUE
    <2>1. Len(lines) >= 1 /\ w >= 1 /\ w \notin done /\ Len(lines) \in 1 .. Len(lines)
          /\ (Readable(lines[Len(lines)]) => lines[Len(lines)][1] \notin done)
      BY <1>1, <1>5 DEF LogHolds
    <2>2. Len(lines[Len(lines)]) >= 1
      BY <2>1 DEF LogHolds
    <2>3. /\ new \in Seq(Seq(Nat)) /\ Len(new) = Len(lines)
          /\ \A i \in 1 .. Len(lines) : i # Len(lines) => new[i] = lines[i]
          /\ Len(new[Len(lines)]) >= 1 /\ ~Readable(new[Len(lines)])
      BY <1>1, <1>2, <1>5, <2>1, <2>2, PutOpen
    <2>4. ASSUME NEW i \in 1 .. Len(new)
          PROVE  Len(new[i]) >= 1 /\ (Readable(new[i]) => new[i][1] <= w + 1)
      <3>1. Readable(new[i]) => new[i][1] \in Nat
        BY <2>3 DEF Readable
      <3>2. i # Len(lines) => Len(new[i]) >= 1 /\ (Readable(new[i]) => new[i][1] <= w)
        BY <2>3 DEF LogHolds
      <3>3. QED
        BY SMTT(20), <1>1, <2>3, <3>1, <3>2
    <2>5. ASSUME NEW i \in 1 .. Len(new), NEW j \in 1 .. Len(new), i < j,
                 Readable(new[i]), Readable(new[j])
          PROVE  new[i][1] < new[j][1]
      BY <2>3, <2>5 DEF LogHolds
    <2>6. ASSUME NEW n \in done \cup {w + 1}
          PROVE  \/ \E i \in 1 .. Len(new) : Readable(new[i]) /\ new[i][1] = n
                 \/ n > 1 /\ n - 1 \notin done \cup {w + 1}
      <3>1. CASE n = w + 1
        BY <1>1, <2>1, <3>1
      <3>2. CASE n \in done
        <4>1. CASE \E i \in 1 .. Len(lines) : Readable(lines[i]) /\ lines[i][1] = n
          <5>1. PICK i \in 1 .. Len(lines) : Readable(lines[i]) /\ lines[i][1] = n
            BY <4>1
          <5>2. i # Len(lines)
            BY <2>1, <3>2, <5>1
          <5>3. i \in 1 .. Len(new) /\ new[i] = lines[i]
            BY <2>3, <5>2
          <5>4. QED
            BY <5>1, <5>3
        <4>2. CASE n > 1 /\ n - 1 \notin done
          BY <1>1, <1>3, <3>2, <4>2
        <4>3. QED
          BY <3>2, <4>1, <4>2 DEF LogHolds
      <3>3. QED
        BY <3>1, <3>2
    <2>7. QED
      BY <1>1, <1>2, <1>3, <2>3, <2>4, <2>5, <2>6 DEF LogHolds
  <1>6. QED
    BY <1>4, <1>5 DEF LogHolds

\* A write that fails and leaves nothing in the file.
LEMMA NothingHolds ==
    ASSUME NEW lines, NEW open, NEW done, NEW w, LogHolds(lines, open, done, w)
    PROVE  LogHolds(lines, open, done, w + 1)
  <1>1. /\ w \in Nat /\ w + 1 \in Nat /\ lines \in Seq(Seq(Nat)) /\ open \in BOOLEAN
        /\ done \subseteq 1 .. w
    BY DEF LogHolds
  <1>2. done \subseteq 1 .. w + 1 /\ w + 1 \notin done /\ w + 1 >= 1
    BY <1>1
  <1>3. \A i \in 1 .. Len(lines) :
          Len(lines[i]) >= 1 /\ (Readable(lines[i]) => lines[i][1] <= w + 1)
    <2>1. SUFFICES ASSUME NEW i \in 1 .. Len(lines)
                   PROVE  Len(lines[i]) >= 1 /\ (Readable(lines[i]) => lines[i][1] <= w + 1)
      OBVIOUS
    <2>2. Len(lines[i]) >= 1 /\ (Readable(lines[i]) => lines[i][1] <= w)
      BY DEF LogHolds
    <2>3. Readable(lines[i]) => lines[i][1] \in Nat
      BY <1>1 DEF Readable
    <2>4. QED
      BY <1>1, <2>2, <2>3
  <1>4. QED
    BY <1>1, <1>2, <1>3 DEF LogHolds

\* A write that fails and leaves its text, or some of it, without a newline.
LEMMA TearHolds ==
    ASSUME NEW lines, NEW open, NEW done, NEW w, LogHolds(lines, open, done, w),
           NEW piece \in {w + 1, 0}
    PROVE  LogHolds(Put(lines, open, piece), TRUE, done, w + 1)
  <1>1. /\ w + 1 \in Nat /\ lines \in Seq(Seq(Nat)) /\ w \in Nat /\ piece \in Nat
        /\ Len(lines) \in Nat /\ piece <= w + 1
    BY DEF LogHolds
  <1>2. PICK new : new = Put(lines, open, piece)
    OBVIOUS
  <1>3. done \subseteq 1 .. w + 1 /\ w + 1 \notin done /\ w + 1 >= 1 /\ piece \notin done
    BY <1>1 DEF LogHolds
  <1>4. CASE open = FALSE
    <2>1. /\ new \in Seq(Seq(Nat)) /\ Len(new) = Len(lines) + 1
          /\ \A i \in 1 .. Len(lines) : new[i] = lines[i]
          /\ new[Len(lines) + 1] = <<piece>>
      BY <1>1, <1>2, <1>4, PutClosed
    <2>2. /\ Len(new[Len(lines) + 1]) = 1 /\ new[Len(lines) + 1][1] = piece
          /\ Readable(new[Len(lines) + 1]) <=> piece # 0
      BY <1>1, <2>1, OnePiece
    <2>3. \A i \in 1 .. Len(new) : i = Len(lines) + 1 \/ i \in 1 .. Len(lines)
      BY <1>1, <2>1
    <2>4. \A i \in 1 .. Len(new) : Len(new[i]) >= 1 /\ (Readable(new[i]) => new[i][1] <= w + 1)
      <3>1. SUFFICES ASSUME NEW i \in 1 .. Len(lines)
                     PROVE  Len(new[i]) >= 1 /\ (Readable(new[i]) => new[i][1] <= w + 1)
        BY <1>1, <2>2, <2>3
      <3>2. Len(new[i]) >= 1 /\ (Readable(new[i]) => new[i][1] <= w)
        BY <2>1 DEF LogHolds
      <3>3. Readable(new[i]) => new[i][1] \in Nat
        BY SMTT(20), <2>1, <2>3, <1>1 DEF Readable
      <3>4. QED
        BY <1>1, <3>2, <3>3
    <2>5. ASSUME NEW i \in 1 .. Len(new), NEW j \in 1 .. Len(new), i < j,
                 Readable(new[i]), Readable(new[j])
          PROVE  new[i][1] < new[j][1]
      <3>1. i \in 1 .. Len(lines)
        BY <1>1, <2>1, <2>5
      <3>2. new[i] = lines[i] /\ lines[i][1] <= w /\ lines[i][1] \in Nat
        <4>1. new[i] = lines[i] /\ Readable(lines[i])
          BY <2>1, <2>5, <3>1
        <4>2. lines[i][1] <= w
          BY <3>1, <4>1 DEF LogHolds
        <4>3. lines[i] \in Seq(Nat) /\ Len(lines[i]) = 1
          BY <1>1, <3>1, <4>1 DEF Readable
        <4>4. lines[i][1] \in Nat
          BY <4>3
        <4>5. QED
          BY <4>1, <4>2, <4>4
      <3>3. CASE j \in 1 .. Len(lines)
        BY <2>1, <2>5, <3>1, <3>3 DEF LogHolds
      <3>4. CASE j = Len(lines) + 1
        <4>1. piece = w + 1
          BY <2>2, <2>5, <3>4
        <4>2. QED
          BY <1>1, <2>2, <3>2, <3>4, <4>1
      <3>5. QED
        BY <2>3, <3>3, <3>4
    <2>6. ASSUME NEW n \in done
          PROVE  \/ \E i \in 1 .. Len(new) : Readable(new[i]) /\ new[i][1] = n
                 \/ n > 1 /\ n - 1 \notin done
      <3>1. CASE \E i \in 1 .. Len(lines) : Readable(lines[i]) /\ lines[i][1] = n
        <4>1. PICK i \in 1 .. Len(lines) : Readable(lines[i]) /\ lines[i][1] = n
          BY <3>1
        <4>2. i \in 1 .. Len(new) /\ new[i] = lines[i]
          BY <1>1, <2>1
        <4>3. QED
          BY <4>1, <4>2
      <3>2. QED
        BY <3>1 DEF LogHolds
    <2>7. Len(new) >= 1 /\ (Readable(new[Len(new)]) => new[Len(new)][1] \notin done)
      BY <1>1, <1>3, <2>1, <2>2
    <2>8. QED
      BY <1>1, <1>2, <1>3, <2>1, <2>4, <2>5, <2>6, <2>7 DEF LogHolds
  <1>5. CASE open = TRUE
    <2>1. Len(lines) >= 1 /\ Len(lines) \in 1 .. Len(lines)
          /\ (Readable(lines[Len(lines)]) => lines[Len(lines)][1] \notin done)
      BY <1>1, <1>5 DEF LogHolds
    <2>2. Len(lines[Len(lines)]) >= 1
      BY <2>1 DEF LogHolds
    <2>3. /\ new \in Seq(Seq(Nat)) /\ Len(new) = Len(lines)
          /\ \A i \in 1 .. Len(lines) : i # Len(lines) => new[i] = lines[i]
          /\ Len(new[Len(lines)]) >= 1 /\ ~Readable(new[Len(lines)])
      BY <1>1, <1>2, <1>5, <2>1, <2>2, PutOpen
    <2>4. ASSUME NEW i \in 1 .. Len(new)
          PROVE  Len(new[i]) >= 1 /\ (Readable(new[i]) => new[i][1] <= w + 1)
      <3>1. Readable(new[i]) => new[i][1] \in Nat
        BY <2>3 DEF Readable
      <3>2. i # Len(lines) => Len(new[i]) >= 1 /\ (Readable(new[i]) => new[i][1] <= w)
        BY <2>3 DEF LogHolds
      <3>3. QED
        BY SMTT(20), <1>1, <2>3, <3>1, <3>2
    <2>5. ASSUME NEW i \in 1 .. Len(new), NEW j \in 1 .. Len(new), i < j,
                 Readable(new[i]), Readable(new[j])
          PROVE  new[i][1] < new[j][1]
      BY <2>3, <2>5 DEF LogHolds
    <2>6. ASSUME NEW n \in done
          PROVE  \/ \E i \in 1 .. Len(new) : Readable(new[i]) /\ new[i][1] = n
                 \/ n > 1 /\ n - 1 \notin done
      <3>1. CASE \E i \in 1 .. Len(lines) : Readable(lines[i]) /\ lines[i][1] = n
        <4>1. PICK i \in 1 .. Len(lines) : Readable(lines[i]) /\ lines[i][1] = n
          BY <3>1
        <4>2. i # Len(lines)
          BY <2>1, <4>1
        <4>3. i \in 1 .. Len(new) /\ new[i] = lines[i]
          BY <2>3, <4>2
        <4>4. QED
          BY <4>1, <4>3
      <3>2. QED
        BY <3>1 DEF LogHolds
    <2>7. Len(new) >= 1 /\ ~Readable(new[Len(new)])
      BY <2>1, <2>3
    <2>8. QED
      BY <1>1, <1>2, <1>3, <2>3, <2>4, <2>5, <2>6, <2>7 DEF LogHolds
  <1>6. QED
    BY <1>4, <1>5 DEF LogHolds

\* Every write, whole, torn or lost, keeps it.
LEMMA LogInvStep == LogInv /\ [LogNext]_logVars => LogInv'
  <1> SUFFICES ASSUME LogInv, [LogNext]_logVars PROVE LogInv'
    OBVIOUS
  <1>1. PICK w : w = Cardinality(acked) + failed
    OBVIOUS
  <1>2. LogHolds(logLines, logOpen, acked, w) /\ failed \in Nat
    BY <1>1 DEF LogInv
  <1>3. w \in Nat /\ acked \subseteq 1 .. w
    BY <1>2 DEF LogHolds
  <1>4. IsFiniteSet(acked)
    <2>1. IsFiniteSet(1 .. w)
      BY <1>3, FS_Interval
    <2>2. QED
      BY <1>3, <2>1, FS_Subset
  <1>5. Cardinality(acked) \in Nat
    BY <1>4, FS_CardinalityType
  <1>6. CASE WriteEvent
    <2>1. NextWrite = w + 1
      BY <1>1 DEF NextWrite
    <2>2. /\ logLines' = Put(logLines, logOpen, w + 1) /\ logOpen' = FALSE
          /\ acked' = acked \cup {w + 1} /\ failed' = failed
      BY <1>6, <2>1 DEF WriteEvent
    <2>3. w + 1 \notin acked
      BY <1>3
    <2>4. Cardinality(acked \cup {w + 1}) = Cardinality(acked) + 1
      BY <1>4, <2>3, FS_AddElement
    <2>5. Cardinality(acked') + failed' = w + 1
      BY <1>1, <1>2, <1>5, <2>2, <2>4
    <2>6. LogHolds(logLines', logOpen', acked', w + 1)
      BY <1>2, <2>2, WriteHolds
    <2>7. QED
      BY <1>2, <2>2, <2>5, <2>6 DEF LogInv
  <1>7. CASE WriteFails
    <2>1. NextWrite = w + 1
      BY <1>1 DEF NextWrite
    <2>2. failed' = failed + 1 /\ acked' = acked
      BY <1>7 DEF WriteFails
    <2>3. Cardinality(acked') + failed' = w + 1 /\ failed' \in Nat
      BY <1>1, <1>2, <1>5, <2>2
    <2>4. LogHolds(logLines', logOpen', acked', w + 1)
      <3>1. CASE UNCHANGED <<logLines, logOpen>>
        BY <1>2, <2>2, <3>1, NothingHolds
      <3>2. CASE \E piece \in {NextWrite, 0} : /\ logLines' = Put(logLines, logOpen, piece)
                                               /\ logOpen' = TRUE
        BY <1>2, <2>1, <2>2, <3>2, TearHolds
      <3>3. QED
        BY <1>7, <3>1, <3>2 DEF WriteFails
    <2>5. QED
      BY <2>3, <2>4 DEF LogInv
  <1>8. CASE UNCHANGED logVars
    BY <1>8 DEF logVars, LogInv
  <1>9. QED
    BY <1>6, <1>7, <1>8 DEF LogNext

\* TornCostsOne from the invariant: the lost events are as many as the writes that
\* failed right before them.
LEMMA TornDoesCostOne == LogInv => TornCostsOne
  <1> SUFFICES ASSUME LogInv PROVE TornCostsOne
    OBVIOUS
  <1>1. PICK w : w = Cardinality(acked) + failed
    OBVIOUS
  <1>2. LogHolds(logLines, logOpen, acked, w) /\ failed \in Nat
    BY <1>1 DEF LogInv
  <1>3. w \in Nat /\ acked \subseteq 1 .. w /\ Len(logLines) \in Nat
    BY <1>2 DEF LogHolds
  <1>4. PICK lost : lost = acked \ {Exported[i] : i \in DOMAIN Exported}
    OBVIOUS
  <1>5. /\ DOMAIN Exported = 1 .. Len(logLines)
        /\ \A i \in 1 .. Len(logLines) :
              Exported[i] = IF Readable(logLines[i]) THEN logLines[i][1] ELSE 0
    BY DEF Exported
  <1>6. \A n \in lost : n \in 1 .. w /\ n > 1 /\ n - 1 \notin acked
    <2>1. SUFFICES ASSUME NEW n \in lost PROVE n \in 1 .. w /\ n > 1 /\ n - 1 \notin acked
      OBVIOUS
    <2>2. n \in acked /\ \A i \in 1 .. Len(logLines) : Exported[i] # n
      BY <1>4, <1>5
    <2>3. ~\E i \in 1 .. Len(logLines) : Readable(logLines[i]) /\ logLines[i][1] = n
      BY <1>5, <2>2
    <2>4. QED
      BY <1>2, <1>3, <2>2, <2>3 DEF LogHolds
  <1>7. Cardinality(lost) <= failed
    <2>1. PICK fails : fails = (1 .. w) \ acked
      OBVIOUS
    <2>2. IsFiniteSet(1 .. w) /\ Cardinality(1 .. w) = w
      <3>1. 1 \in Int /\ w \in Int
        BY <1>3
      <3>2. IsFiniteSet(1 .. w) /\ Cardinality(1 .. w) = IF 1 > w THEN 0 ELSE w - 1 + 1
        BY <3>1, FS_Interval, Zenon
      <3>3. QED
        BY <1>3, <3>2
    <2>3. IsFiniteSet(acked)
      BY <1>3, <2>2, FS_Subset
    <2>4. IsFiniteSet(fails)
      BY <2>1, <2>2, FS_Difference
    <2>5. Cardinality(acked) \in Nat
      BY <2>3, FS_CardinalityType
    <2>6. Cardinality(fails) \in Nat
      BY <2>4, FS_CardinalityType
    <2>7. acked \cup fails = 1 .. w /\ acked \cap fails = {}
      BY <1>3, <2>1
    <2>8. Cardinality(acked \cup fails)
            = Cardinality(acked) + Cardinality(fails) - Cardinality(acked \cap fails)
      BY <2>3, <2>4, FS_Union
    <2>9. Cardinality(acked \cap fails) = 0
      BY <2>7, FS_EmptySet
    <2>10. Cardinality(fails) = failed
      <3>1. PICK a, b \in Nat : a = Cardinality(acked) /\ b = Cardinality(fails)
        BY <2>5, <2>6
      <3>2. w = a + failed /\ w = a + b - 0
        BY <1>1, <2>2, <2>7, <2>8, <2>9, <3>1
      <3>3. failed \in Nat
        BY <1>2
      <3>4. failed = b
        BY <3>1, <3>2, <3>3
      <3>5. QED
        BY <3>1, <3>4
    <2>11. PICK before : before = [n \in lost |-> n - 1]
      OBVIOUS
    <2>12. before \in Injection(lost, fails)
      <3>1. \A n \in lost : before[n] = n - 1 /\ before[n] \in fails
        BY <1>3, <1>6, <2>1, <2>11
      <3>2. \A m, n \in lost : before[m] = before[n] => m = n
        BY <1>6, <3>1
      <3>3. QED
        BY <2>11, <3>1, <3>2 DEF Injection, IsInjective
    <2>13. QED
      BY <2>4, <2>10, <2>12, FS_Injection
  <1>8. ASSUME NEW i \in DOMAIN Exported, NEW j \in DOMAIN Exported,
               i < j, Exported[i] # 0, Exported[j] # 0
        PROVE  Exported[i] < Exported[j]
    BY <1>2, <1>5, <1>8 DEF LogHolds
  <1>9. QED
    BY <1>4, <1>6, <1>7, <1>8 DEF TornCostsOne

\* Whatever the events and however many: the audit chain shows every alteration but a
\* lost tail, however it is verified; the log loses at most the event behind a failed
\* write.
THEOREM AuditIsSound == AuditSpec => []AuditSound
  <1>1. AuditInit => ChainInv /\ LogInv
    <2>1. SUFFICES ASSUME AuditInit PROVE ChainInv /\ LogInv
      OBVIOUS
    <2>2. /\ chain = <<>> /\ altered = "none"
          /\ logLines = <<>> /\ logOpen = FALSE /\ acked = {} /\ failed = 0
      BY <2>1 DEF AuditInit
    <2>3. ChainInv
      <3>1. PICK S : S = {chain[i] : i \in DOMAIN chain}
        OBVIOUS
      <3>2. chain \in Seq(S) /\ Len(chain) = 0 /\ DOMAIN chain = 1 .. 0 /\ 1 .. 0 = {}
        BY <2>2
      <3>3. IsChain(chain) /\ Valid(chain)
        BY <3>1, <3>2 DEF IsChain, Valid
      <3>4. QED
        BY <2>2, <3>3 DEF ChainInv
    <2>4. Cardinality(acked) + failed = 0
      BY <2>2, FS_EmptySet
    <2>5. LogHolds(<<>>, FALSE, {}, 0)
      BY DEF LogHolds
    <2>6. QED
      BY <2>2, <2>3, <2>4, <2>5 DEF LogInv
  <1>2. ChainInv /\ LogInv /\ [ChainNext \/ LogNext]_<<chainVars, logVars>>
          => (ChainInv /\ LogInv)'
    <2>1. [ChainNext \/ LogNext]_<<chainVars, logVars>> => [ChainNext]_chainVars /\ [LogNext]_logVars
      BY DEF ChainNext, LogNext, AppendEvent, AlterChain, WriteEvent, WriteFails, chainVars, logVars
    <2>2. QED
      BY <2>1, ChainInvStep, LogInvStep
  <1>3. ChainInv /\ LogInv => AuditSound
    <2>1. ChainInv => AlterationsShow
      BY VerifiesIfValid DEF ChainInv, AlterationsShow
    <2>2. ChainInv => RangesCompose
      BY RangesDoCompose DEF ChainInv, RangesCompose
    <2>3. QED
      BY <2>1, <2>2, TornDoesCostOne DEF AuditSound
  <1>4. QED
    BY <1>1, <1>2, <1>3, PTL DEF AuditSpec

(***************************************************************************)
(* The shadow run.                                                         *)
(***************************************************************************)
Kinds  == Happenings \cup {"alert", "shut"}
Days   == 1 .. LastDay
Logged == [kind : Kinds, day : Days]

One(b) == IF b THEN 1 ELSE 0

\* What the daily counts of some kinds add up to.
DaySum(log, kinds) == SumFunction([d \in Days |-> CountOn(log, d, kinds)])

\* The counters of the metrics, and the kinds that each of them counts.
Fields == {"ticks", "candles", "signals", "approvals", "previews", "realOrders", "passes", "fails",
           "stale"}
CountedBy(f) == {k \in DOMAIN Counter : Counter[k] = f}

\* The sets of kinds that the daily reports count.
Reported == {Ticks, {"signal"}, {"realOrder"}, {"drift"}, {"stale"}, BadData}

RunInv ==
    /\ events \in Seq(Logged) /\ today \in Days
    /\ DOMAIN metrics = Fields \cup {"kill"}
    /\ \A f \in Fields : metrics[f] = CountIn(events, CountedBy(f))
    /\ metrics["kill"] = TRUE \/ metrics["kill"] = FALSE
    /\ metrics["kill"] = TRUE <=> CountIn(events, {"killSwitch"}) > 0
    /\ AlertedOnce /\ TicksAccountedFor
    /\ \A kinds \in Reported : DaySum(events, kinds) = CountIn(events, kinds)

\* Counting indices of a list, after one more element.
LEMMA OneMoreIndex ==
    ASSUME NEW n \in Nat, NEW S \in SUBSET (1 .. n)
    PROVE  Cardinality(S) \in Nat /\ Cardinality(S \cup {n + 1}) = Cardinality(S) + 1
  <1>1. IsFiniteSet(1 .. n)
    BY FS_Interval
  <1>2. IsFiniteSet(S)
    BY <1>1, FS_Subset
  <1>3. Cardinality(S) \in Nat
    BY <1>2, FS_CardinalityType
  <1>4. n + 1 \notin S
    OBVIOUS
  <1>5. QED
    BY <1>2, <1>3, <1>4, FS_AddElement

\* The counts of a list with one more event.
LEMMA CountAppended ==
    ASSUME NEW log \in Seq(Logged), NEW e \in Logged, NEW kinds
    PROVE  /\ CountIn(log, kinds) \in Nat
           /\ CountIn(Append(log, e), kinds) = CountIn(log, kinds) + One(e.kind \in kinds)
  <1>1. PICK n \in Nat : n = Len(log)
    OBVIOUS
  <1>2. PICK S : S = {i \in DOMAIN log : log[i].kind \in kinds}
    OBVIOUS
  <1>3. PICK more : more = Append(log, e)
    OBVIOUS
  <1>4. PICK T : T = {i \in DOMAIN more : more[i].kind \in kinds}
    OBVIOUS
  <1>5. /\ more \in Seq(Logged) /\ DOMAIN more = 1 .. n + 1 /\ DOMAIN log = 1 .. n
        /\ more[n + 1] = e /\ \A i \in 1 .. n : more[i] = log[i]
    BY <1>1, <1>3
  <1>6. \A i : i \in 1 .. n + 1 <=> i \in 1 .. n \/ i = n + 1
    OBVIOUS
  <1>7. S \in SUBSET (1 .. n)
    BY <1>2, <1>5
  <1>8. Cardinality(S) \in Nat /\ Cardinality(S \cup {n + 1}) = Cardinality(S) + 1
    BY <1>7, OneMoreIndex
  <1>9. CASE e.kind \in kinds
    <2>1. T = S \cup {n + 1}
      BY <1>2, <1>4, <1>5, <1>6, <1>9
    <2>2. QED
      BY <1>2, <1>3, <1>4, <1>8, <1>9, <2>1 DEF CountIn, One
  <1>10. CASE ~(e.kind \in kinds)
    <2>1. T = S
      BY <1>2, <1>4, <1>5, <1>6, <1>10
    <2>2. CountIn(log, kinds) = Cardinality(S) /\ CountIn(more, kinds) = Cardinality(S)
      BY <1>2, <1>4, <2>1 DEF CountIn
    <2>3. PICK c \in Nat : c = Cardinality(S)
      BY <1>8
    <2>4. QED
      BY <1>3, <1>10, <2>2, <2>3 DEF One
  <1>11. QED
    BY <1>9, <1>10

\* The same of one day.
LEMMA CountOnAppended ==
    ASSUME NEW log \in Seq(Logged), NEW e \in Logged, NEW d, NEW kinds
    PROVE  /\ CountOn(log, d, kinds) \in Nat
           /\ CountOn(Append(log, e), d, kinds)
                = CountOn(log, d, kinds) + One(e.day = d /\ e.kind \in kinds)
  <1>1. PICK n \in Nat : n = Len(log)
    OBVIOUS
  <1>2. PICK S : S = {i \in DOMAIN log : log[i].day = d /\ log[i].kind \in kinds}
    OBVIOUS
  <1>3. PICK more : more = Append(log, e)
    OBVIOUS
  <1>4. PICK T : T = {i \in DOMAIN more : more[i].day = d /\ more[i].kind \in kinds}
    OBVIOUS
  <1>5. /\ more \in Seq(Logged) /\ DOMAIN more = 1 .. n + 1 /\ DOMAIN log = 1 .. n
        /\ more[n + 1] = e /\ \A i \in 1 .. n : more[i] = log[i]
    BY <1>1, <1>3
  <1>6. \A i : i \in 1 .. n + 1 <=> i \in 1 .. n \/ i = n + 1
    OBVIOUS
  <1>7. S \in SUBSET (1 .. n)
    BY <1>2, <1>5
  <1>8. Cardinality(S) \in Nat /\ Cardinality(S \cup {n + 1}) = Cardinality(S) + 1
    BY <1>7, OneMoreIndex
  <1>9. CASE e.day = d /\ e.kind \in kinds
    <2>1. T = S \cup {n + 1}
      BY <1>2, <1>4, <1>5, <1>6, <1>9
    <2>2. QED
      BY <1>2, <1>3, <1>4, <1>8, <1>9, <2>1 DEF CountOn, One
  <1>10. CASE ~(e.day = d /\ e.kind \in kinds)
    <2>1. T = S
      BY <1>2, <1>4, <1>5, <1>6, <1>10
    <2>2. CountOn(log, d, kinds) = Cardinality(S) /\ CountOn(more, d, kinds) = Cardinality(S)
      BY <1>2, <1>4, <2>1 DEF CountOn
    <2>3. PICK c \in Nat : c = Cardinality(S)
      BY <1>8
    <2>4. QED
      BY <1>3, <1>10, <2>2, <2>3 DEF One
  <1>11. QED
    BY <1>9, <1>10

\* The days' counts go up together with the count of all.
LEMMA DaysAppended ==
    ASSUME NEW log \in Seq(Logged), NEW e \in Logged, NEW kinds
    PROVE  /\ DaySum(log, kinds) \in Int
           /\ DaySum(Append(log, e), kinds) = DaySum(log, kinds) + One(e.kind \in kinds)
  <1>1. PICK more : more = Append(log, e)
    OBVIOUS
  <1>2. PICK f : f = [d \in Days |-> CountOn(log, d, kinds)]
    OBVIOUS
  <1>3. PICK g : g = [d \in Days |-> CountOn(more, d, kinds)]
    OBVIOUS
  <1>4. PICK x \in Days : x = e.day
    BY DEF Logged
  <1>5. PICK r : r = [d \in Days \ {x} |-> CountOn(log, d, kinds)]
    OBVIOUS
  <1>6. more \in Seq(Logged)
    BY <1>1
  <1>7. IsFiniteSet(Days)
    <2>1. 1 \in Int /\ LastDay \in Int
      BY RunAssumption
    <2>2. QED
      BY <2>1, FS_Interval DEF Days
  <1>8. \A d \in Days : CountOn(log, d, kinds) \in Nat /\ CountOn(more, d, kinds) \in Nat
    BY <1>6, CountOnAppended
  <1>9. Summable(f, Days) /\ Summable(g, Days)
    BY <1>2, <1>3, <1>7, <1>8 DEF Summable
  <1>10. IsFiniteSet(Days \ {x})
    BY <1>7, FS_RemoveElement
  <1>11. Summable(r, Days \ {x})
    BY <1>5, <1>8, <1>10 DEF Summable
  <1>12. Agree(f, r, Days \ {x})
    BY <1>2, <1>5 DEF Agree
  <1>13. Agree(g, r, Days \ {x})
    <2>1. SUFFICES ASSUME NEW d \in Days \ {x} PROVE g[d] = r[d]
      BY DEF Agree
    <2>2. g[d] = CountOn(log, d, kinds) + One(e.day = d /\ e.kind \in kinds)
      BY <1>1, <1>3, CountOnAppended
    <2>3. One(e.day = d /\ e.kind \in kinds) = 0
      BY <1>4 DEF One
    <2>4. QED
      BY <1>5, <1>8, <2>2, <2>3
  <1>14. SumFunction(f) = SumFunction(r) + f[x]
    BY <1>9, <1>11, <1>12, SumWithout
  <1>15. SumFunction(g) = SumFunction(r) + g[x]
    BY <1>9, <1>11, <1>13, SumWithout
  <1>16. SumFunction(r) \in Int /\ SumFunction(f) \in Int
    BY <1>9, <1>11, SumType
  <1>17. f[x] \in Nat /\ g[x] = f[x] + One(e.kind \in kinds)
    <2>1. g[x] = CountOn(log, x, kinds) + One(e.day = x /\ e.kind \in kinds)
      BY <1>1, <1>3, CountOnAppended
    <2>2. QED
      BY <1>2, <1>4, <1>8, <2>1 DEF One
  <1>18. One(e.kind \in kinds) \in Nat
    BY DEF One
  <1>19. SumFunction(g) = SumFunction(f) + One(e.kind \in kinds)
    BY <1>14, <1>15, <1>16, <1>17, <1>18
  <1>20. QED
    BY <1>1, <1>2, <1>3, <1>16, <1>19 DEF DaySum

\* A list of two elements is the pair of them.
LEMMA PairIs ==
    ASSUME NEW T, NEW r \in Seq(T), NEW x, NEW y, Len(r) = 2, r[1] = x, r[2] = y
    PROVE  r = <<x, y>>
  OBVIOUS

\* Two lists of one element make a pair.
LEMMA TwoPieces ==
    ASSUME NEW x, NEW y
    PROVE  <<x>> \o <<y>> = <<x, y>>
  <1>1. PICK T : x \in T /\ y \in T
    <2>1. x \in {x, y} /\ y \in {x, y}
      OBVIOUS
    <2>2. QED
      BY <2>1
  <1>2. <<x>> \in Seq(T) /\ <<y>> \in Seq(T)
    BY <1>1
  <1>3. PICK p \in Seq(T), q \in Seq(T) : p = <<x>> /\ q = <<y>>
    BY <1>2
  <1>4. Len(p) = 1 /\ Len(q) = 1 /\ p[1] = x /\ q[1] = y
    BY <1>3
  <1>5. PICK r : r = p \o q /\ r \in Seq(T)
    <2>1. p \o q \in Seq(T)
      OBVIOUS
    <2>2. QED
      BY <2>1
  <1>6. /\ Len(r) = Len(p) + Len(q)
        /\ \A i \in 1 .. Len(p) + Len(q) : r[i] = IF i <= Len(p) THEN p[i] ELSE q[i - Len(p)]
    BY <1>5
  <1>7. Len(r) = 2
    BY <1>4, <1>6
  <1>8. r[1] = p[1] /\ r[2] = q[2 - 1]
    BY <1>4, <1>6
  <1>9. r[1] = x /\ r[2] = y
    BY <1>4, <1>8
  <1>10. r = <<x, y>>
    BY <1>5, <1>7, <1>9, PairIs
  <1>11. QED
    BY <1>3, <1>5, <1>10

\* What is stored of an event: it, and its alert when it calls for one.
LEMMA StoredIs ==
    ASSUME NEW log \in Seq(Logged), NEW kind \in Kinds, today \in Days
    PROVE  /\ [kind |-> kind, day |-> today] \in Logged
           /\ [kind |-> "alert", day |-> today] \in Logged
           /\ kind \notin Alerting => Stored(log, kind) = Append(log, [kind |-> kind, day |-> today])
           /\ kind \in Alerting =>
                Stored(log, kind) = Append(Append(log, [kind |-> kind, day |-> today]),
                                           [kind |-> "alert", day |-> today])
  <1>1. PICK e \in Logged : e = [kind |-> kind, day |-> today]
    BY DEF Logged
  <1>2. PICK a \in Logged : a = [kind |-> "alert", day |-> today]
    BY DEF Logged, Kinds
  <1>3. ASSUME kind \notin Alerting PROVE Stored(log, kind) = Append(log, e)
    <2>1. <<kind>> \o Alerted(log, wired, kind) = <<kind>>
      BY <1>3 DEF Alerted
    <2>2. [i \in DOMAIN <<kind>> |-> [kind |-> <<kind>>[i], day |-> today]] = <<e>>
      BY <1>1
    <2>3. Stored(log, kind) = log \o <<e>>
      BY <2>1, <2>2 DEF Stored
    <2>4. QED
      BY <2>3
  <1>4. ASSUME kind \in Alerting PROVE Stored(log, kind) = Append(Append(log, e), a)
    <2>1. <<kind>> \o Alerted(log, wired, kind) = <<kind, "alert">>
      <3>1. Alerted(log, wired, kind) = <<"alert">>
        BY <1>4 DEF Alerted
      <3>2. <<kind>> \o <<"alert">> = <<kind, "alert">>
        BY TwoPieces
      <3>3. QED
        BY <3>1, <3>2
    <2>2. [i \in DOMAIN <<kind, "alert">> |-> [kind |-> <<kind, "alert">>[i], day |-> today]] = <<e, a>>
      BY <1>1, <1>2
    <2>3. Stored(log, kind) = log \o <<e, a>>
      BY <2>1, <2>2 DEF Stored
    <2>4. log \o <<e, a>> = Append(Append(log, e), a)
      OBVIOUS
    <2>5. QED
      BY <2>3, <2>4
  <1>5. QED
    BY <1>1, <1>2, <1>3, <1>4

\* How much more of some kinds there is then.
LEMMA CountStored ==
    ASSUME NEW log \in Seq(Logged), NEW kind \in Kinds, today \in Days, NEW kinds
    PROVE  /\ Stored(log, kind) \in Seq(Logged)
           /\ CountIn(log, kinds) \in Nat
           /\ CountIn(Stored(log, kind), kinds)
                = CountIn(log, kinds) + One(kind \in kinds) + One(kind \in Alerting /\ "alert" \in kinds)
           /\ DaySum(log, kinds) = CountIn(log, kinds)
                => DaySum(Stored(log, kind), kinds) = CountIn(Stored(log, kind), kinds)
  <1>1. PICK e \in Logged : e = [kind |-> kind, day |-> today]
    BY StoredIs
  <1>2. PICK a \in Logged : a = [kind |-> "alert", day |-> today]
    BY StoredIs
  <1>3. e.kind = kind /\ a.kind = "alert"
    BY <1>1, <1>2
  <1>4. PICK more : more = Append(log, e)
    OBVIOUS
  <1>5. more \in Seq(Logged)
    BY <1>4
  <1>6. PICK c \in Nat, p \in Nat, q \in Nat :
             c = CountIn(log, kinds) /\ p = One(kind \in kinds) /\ q = One("alert" \in kinds)
    BY CountAppended DEF One
  <1>7. CountIn(more, kinds) = c + p
    BY <1>3, <1>4, <1>6, CountAppended
  <1>8. DaySum(log, kinds) = c => DaySum(more, kinds) = c + p
    BY <1>3, <1>4, <1>6, DaysAppended
  <1>9. CASE kind \notin Alerting
    <2>1. Stored(log, kind) = more
      BY <1>1, <1>4, <1>9, StoredIs
    <2>2. One(kind \in Alerting /\ "alert" \in kinds) = 0
      BY <1>9 DEF One
    <2>3. QED
      BY <1>5, <1>6, <1>7, <1>8, <2>1, <2>2
  <1>10. CASE kind \in Alerting
    <2>1. Stored(log, kind) = Append(more, a)
      BY <1>1, <1>2, <1>4, <1>10, StoredIs
    <2>2. One(kind \in Alerting /\ "alert" \in kinds) = q
      BY <1>6, <1>10 DEF One
    <2>3. CountIn(Append(more, a), kinds) = c + p + q
      BY <1>3, <1>5, <1>6, <1>7, CountAppended
    <2>4. DaySum(log, kinds) = c => DaySum(Append(more, a), kinds) = c + p + q
      BY <1>3, <1>5, <1>6, <1>8, DaysAppended
    <2>5. Append(more, a) \in Seq(Logged)
      BY <1>5
    <2>6. QED
      BY <1>6, <2>1, <2>2, <2>3, <2>4, <2>5
  <1>11. QED
    BY <1>9, <1>10

\* Alerts are in no counter and in no report of the others; an alert raises none.
LEMMA AlertsApart ==
    /\ "alert" \notin Alerting
    /\ \A f \in Fields : "alert" \notin CountedBy(f) /\ "killSwitch" \notin CountedBy(f)
    /\ "alert" \notin Ticks /\ "shut" \notin Ticks /\ "killSwitch" \notin DOMAIN Counter
  BY DEF Alerting, Blocks, Down, Fields, CountedBy, Counter, Ticks

\* What an observed event does to the counters.
LEMMA ObserveCounts ==
    ASSUME NEW m, DOMAIN m = Fields \cup {"kill"}, NEW kind,
           \A f \in Fields : m[f] \in Nat
    PROVE  /\ DOMAIN Observe(m, kind) = Fields \cup {"kill"}
           /\ \A f \in Fields : Observe(m, kind)[f] = m[f] + One(kind \in CountedBy(f))
           /\ kind = "killSwitch" => Observe(m, kind)["kill"] = TRUE
           /\ kind # "killSwitch" => Observe(m, kind)["kill"] = m["kill"]
  <1>1. \A k \in DOMAIN Counter : Counter[k] \in Fields
    BY DEF Counter, Fields
  <1>2. "kill" \notin Fields
    BY DEF Fields
  <1>3. CASE kind = "killSwitch"
    <2>1. PICK n : n = Observe(m, kind)
      OBVIOUS
    <2>2. DOMAIN n = DOMAIN m /\ n["kill"] = TRUE /\ \A f \in Fields : n[f] = m[f]
      BY <1>2, <1>3, <2>1 DEF Observe
    <2>3. \A f \in Fields : One(kind \in CountedBy(f)) = 0
      BY <1>3, AlertsApart DEF One
    <2>4. \A f \in Fields : n[f] = m[f] + One(kind \in CountedBy(f))
      BY <2>2, <2>3
    <2>5. QED
      BY <1>3, <2>1, <2>2, <2>4
  <1>4. CASE kind # "killSwitch" /\ kind \in DOMAIN Counter
    <2>1. PICK c \in Fields : c = Counter[kind]
      BY <1>1, <1>4
    <2>2. PICK n : n = Observe(m, kind)
      OBVIOUS
    <2>3. n = [m EXCEPT ![c] = m[c] + 1]
      BY <1>4, <2>1, <2>2 DEF Observe
    <2>4. DOMAIN n = DOMAIN m /\ n["kill"] = m["kill"]
          /\ \A f \in Fields : n[f] = IF f = c THEN m[c] + 1 ELSE m[f]
      BY <1>2, <2>1, <2>3
    <2>5. \A f \in Fields : kind \in CountedBy(f) <=> f = c
      BY <1>4, <2>1 DEF CountedBy
    <2>6. \A f \in Fields : n[f] = m[f] + One(kind \in CountedBy(f))
      BY <2>1, <2>4, <2>5 DEF One
    <2>7. QED
      BY <1>4, <2>2, <2>4, <2>6
  <1>5. CASE kind # "killSwitch" /\ kind \notin DOMAIN Counter
    <2>1. Observe(m, kind) = m
      BY <1>5 DEF Observe
    <2>2. \A f \in Fields : kind \notin CountedBy(f)
      BY <1>5 DEF CountedBy
    <2>3. \A f \in Fields : One(kind \in CountedBy(f)) = 0
      BY <2>2 DEF One
    <2>4. QED
      BY <1>5, <2>1, <2>3
  <1>6. QED
    BY <1>3, <1>4, <1>5

\* Everything but the count of the ticks, of one event.
LEMMA HappenKeeps ==
    ASSUME RunInv, NEW kind \in Happenings \cup {"shut"}, Happen(kind)
    PROVE  /\ events' \in Seq(Logged)
           /\ DOMAIN metrics' = Fields \cup {"kill"}
           /\ \A f \in Fields : metrics'[f] = CountIn(events', CountedBy(f))
           /\ metrics'["kill"] = TRUE \/ metrics'["kill"] = FALSE
           /\ metrics'["kill"] = TRUE <=> CountIn(events', {"killSwitch"}) > 0
           /\ AlertedOnce'
           /\ \A kinds \in Reported : DaySum(events', kinds) = CountIn(events', kinds)
           /\ CountIn(events', Ticks) = CountIn(events, Ticks) + One(kind \in Ticks)
           /\ CountIn(events', {"shut"}) = CountIn(events, {"shut"}) + One(kind = "shut")
           /\ CountIn(events, Ticks) \in Nat /\ CountIn(events, {"shut"}) \in Nat
  <1>1. events \in Seq(Logged) /\ today \in Days /\ kind \in Kinds /\ kind # "alert"
    BY RunAssumption DEF RunInv, Kinds
  <1>2. events' = Stored(events, kind) /\ metrics' = Observe(metrics, kind)
    BY DEF Happen
  <1>3. \A kinds :
          /\ events' \in Seq(Logged) /\ CountIn(events, kinds) \in Nat
          /\ CountIn(events', kinds) = CountIn(events, kinds) + One(kind \in kinds)
                                         + One(kind \in Alerting /\ "alert" \in kinds)
          /\ DaySum(events, kinds) = CountIn(events, kinds)
               => DaySum(events', kinds) = CountIn(events', kinds)
    BY <1>1, <1>2, CountStored
  <1>4. ASSUME NEW kinds, "alert" \notin kinds
        PROVE  /\ CountIn(events, kinds) \in Nat
               /\ CountIn(events', kinds) = CountIn(events, kinds) + One(kind \in kinds)
    <2>1. One(kind \in Alerting /\ "alert" \in kinds) = 0
      BY <1>4 DEF One
    <2>2. One(kind \in kinds) \in Nat
      BY DEF One
    <2>3. QED
      BY <1>3, <2>1, <2>2
  <1>5. \A f \in Fields : metrics[f] \in Nat /\ metrics[f] = CountIn(events, CountedBy(f))
    BY <1>3 DEF RunInv
  <1>6. /\ DOMAIN metrics' = Fields \cup {"kill"}
        /\ \A f \in Fields : metrics'[f] = metrics[f] + One(kind \in CountedBy(f))
        /\ kind = "killSwitch" => metrics'["kill"] = TRUE
        /\ kind # "killSwitch" => metrics'["kill"] = metrics["kill"]
    <2>1. PICK m : m = metrics
      OBVIOUS
    <2>2. DOMAIN m = Fields \cup {"kill"} /\ \A f \in Fields : m[f] \in Nat
      BY <1>5, <2>1 DEF RunInv
    <2>3. /\ DOMAIN Observe(m, kind) = Fields \cup {"kill"}
          /\ \A f \in Fields : Observe(m, kind)[f] = m[f] + One(kind \in CountedBy(f))
          /\ kind = "killSwitch" => Observe(m, kind)["kill"] = TRUE
          /\ kind # "killSwitch" => Observe(m, kind)["kill"] = m["kill"]
      BY <2>2, ObserveCounts
    <2>4. QED
      BY <1>2, <2>1, <2>3
  <1>7. \A f \in Fields : metrics'[f] = CountIn(events', CountedBy(f))
    BY <1>4, <1>5, <1>6, AlertsApart
  <1>8. /\ metrics'["kill"] = TRUE \/ metrics'["kill"] = FALSE
        /\ metrics'["kill"] = TRUE <=> CountIn(events', {"killSwitch"}) > 0
    <2>1. PICK c \in Nat : c = CountIn(events, {"killSwitch"})
      BY <1>3
    <2>2. "alert" \notin {"killSwitch"} /\ (kind \in {"killSwitch"} <=> kind = "killSwitch")
      OBVIOUS
    <2>3. CountIn(events', {"killSwitch"}) = c + One(kind \in {"killSwitch"})
      BY <1>4, <2>1, <2>2
    <2>4. /\ metrics["kill"] = TRUE \/ metrics["kill"] = FALSE
          /\ metrics["kill"] = TRUE <=> c > 0
      BY <2>1 DEF RunInv
    <2>5. CASE kind = "killSwitch"
      <3>1. CountIn(events', {"killSwitch"}) = c + 1
        BY <2>2, <2>3, <2>5 DEF One
      <3>2. CountIn(events', {"killSwitch"}) > 0 /\ metrics'["kill"] = TRUE
        BY <1>6, <2>5, <3>1
      <3>3. QED
        BY <3>2
    <2>6. CASE kind # "killSwitch"
      <3>1. CountIn(events', {"killSwitch"}) = c
        BY <2>2, <2>3, <2>6 DEF One
      <3>2. metrics'["kill"] = metrics["kill"]
        BY <1>6, <2>6
      <3>3. QED
        BY <2>4, <3>1, <3>2
    <2>7. QED
      BY <2>5, <2>6
  <1>9. AlertedOnce'
    <2>1. PICK p \in Nat : p = CountIn(events, Alerting) /\ p = CountIn(events, {"alert"})
      BY <1>3 DEF RunInv, AlertedOnce
    <2>2. CountIn(events', Alerting) = p + One(kind \in Alerting)
      BY <1>4, <2>1, AlertsApart
    <2>3. "alert" \in {"alert"} /\ kind \notin {"alert"}
      BY <1>1
    <2>4. One(kind \in {"alert"}) = 0
      BY <2>3 DEF One
    <2>5. One(kind \in Alerting /\ "alert" \in {"alert"}) = One(kind \in Alerting)
      BY DEF One
    <2>6. CountIn(events', {"alert"}) = p + 0 + One(kind \in Alerting)
      BY <1>3, <2>1, <2>4, <2>5
    <2>7. One(kind \in Alerting) \in Nat
      BY DEF One
    <2>8. QED
      BY <2>2, <2>6, <2>7 DEF AlertedOnce
  <1>10. \A kinds \in Reported : DaySum(events', kinds) = CountIn(events', kinds)
    BY <1>3 DEF RunInv
  <1>11. CountIn(events', Ticks) = CountIn(events, Ticks) + One(kind \in Ticks)
    BY <1>4, AlertsApart
  <1>12. CountIn(events', {"shut"}) = CountIn(events, {"shut"}) + One(kind = "shut")
    <2>1. "alert" \notin {"shut"}
      OBVIOUS
    <2>2. One(kind \in {"shut"}) = One(kind = "shut")
      BY DEF One
    <2>3. QED
      BY <1>4, <2>1, <2>2
  <1>13. QED
    BY <1>3, <1>6, <1>7, <1>8, <1>9, <1>10, <1>11, <1>12

\* Every step of the shadow run keeps it.
LEMMA RunInvStep == RunInv /\ [RunNext]_runVars => RunInv'
  <1> SUFFICES ASSUME RunInv, [RunNext]_runVars PROVE RunInv'
    OBVIOUS
  <1>1. CASE RunEvent
    <2>1. PICK kind \in Happenings \ Ticks : Happen(kind) /\ UNCHANGED <<today, ingested>>
      BY <1>1 DEF RunEvent
    <2>2. One(kind \in Ticks) = 0 /\ One(kind = "shut") = 0
      BY RunAssumption DEF One
    <2>3. TicksAccountedFor'
      <3>1. PICK t \in Nat, u \in Nat :
                 t = CountIn(events, Ticks) /\ u = CountIn(events, {"shut"})
        BY <2>1, HappenKeeps
      <3>2. CountIn(events', Ticks) = t + 0 /\ CountIn(events', {"shut"}) = u + 0
        BY <2>1, <2>2, <3>1, HappenKeeps
      <3>3. t + u = ingested
        BY <3>1 DEF RunInv, TicksAccountedFor
      <3>4. QED
        BY <2>1, <3>2, <3>3 DEF TicksAccountedFor
    <2>4. QED
      BY <2>1, <2>3, HappenKeeps DEF RunInv
  <1>2. CASE IngestTick
    <2>1. PICK kind \in Ticks \cap Happenings :
               /\ ingested' = ingested + 1 /\ today' = today
               /\ IF sessions = "RUNNING" THEN Happen(kind) ELSE Happen("shut")
      BY <1>2 DEF IngestTick
    <2>2. PICK k \in Happenings \cup {"shut"} : Happen(k) /\ (k \in Ticks \/ k = "shut")
      BY <2>1
    <2>3. One(k \in Ticks) + One(k = "shut") = 1
      BY <2>2, AlertsApart DEF One
    <2>4. TicksAccountedFor'
      <3>1. PICK t \in Nat, u \in Nat, a \in Nat, b \in Nat :
                 /\ t = CountIn(events, Ticks) /\ u = CountIn(events, {"shut"})
                 /\ a = One(k \in Ticks) /\ b = One(k = "shut")
        BY <2>2, HappenKeeps DEF One
      <3>2. CountIn(events', Ticks) = t + a /\ CountIn(events', {"shut"}) = u + b
        BY <2>2, <3>1, HappenKeeps
      <3>3. a + b = 1 /\ t + u = ingested
        BY <2>3, <3>1 DEF RunInv, TicksAccountedFor
      <3>4. (t + a) + (u + b) = ingested + 1
        BY <3>3
      <3>5. QED
        BY <2>1, <3>2, <3>4 DEF TicksAccountedFor
    <2>5. QED
      BY <2>1, <2>2, <2>4, HappenKeeps DEF RunInv
  <1>3. CASE NextDay
    <2>1. today' \in Days /\ UNCHANGED <<events, metrics, ingested>>
      BY <1>3, RunAssumption DEF NextDay, RunInv, Days
    <2>2. QED
      BY <2>1 DEF RunInv, AlertedOnce, TicksAccountedFor
  <1>4. CASE ChangeChecks \/ Start \/ UNCHANGED runVars
    <2>1. UNCHANGED <<events, today, metrics, ingested>>
      BY <1>4 DEF ChangeChecks, Start, runVars
    <2>2. QED
      BY <2>1 DEF RunInv, AlertedOnce, TicksAccountedFor
  <1>5. QED
    BY <1>1, <1>2, <1>3, <1>4 DEF RunNext

\* With no event, every count is 0.
LEMMA RunInvInit == RunInit => RunInv
  <1> SUFFICES ASSUME RunInit PROVE RunInv
    OBVIOUS
  <1>1. events = <<>> /\ today = 1 /\ metrics = NoMetrics /\ ingested = 0
    BY DEF RunInit
  <1>2. events \in Seq(Logged) /\ today \in Days
    BY <1>1, RunAssumption DEF Days
  <1>3. ASSUME NEW kinds PROVE CountIn(<<>>, kinds) = 0
    <2>1. {i \in DOMAIN <<>> : <<>>[i].kind \in kinds} = {}
      OBVIOUS
    <2>2. QED
      BY <2>1, FS_EmptySet DEF CountIn
  <1>4. ASSUME NEW kinds PROVE DaySum(<<>>, kinds) = 0
    <2>1. ASSUME NEW d PROVE CountOn(<<>>, d, kinds) = 0
      <3>1. {i \in DOMAIN <<>> : <<>>[i].day = d /\ <<>>[i].kind \in kinds} = {}
        OBVIOUS
      <3>2. QED
        BY <3>1, FS_EmptySet DEF CountOn
    <2>2. PICK f : f = [d \in Days |-> CountOn(<<>>, d, kinds)]
      OBVIOUS
    <2>3. IsFiniteSet(Days)
      <3>1. 1 \in Int /\ LastDay \in Int
        BY RunAssumption
      <3>2. QED
        BY <3>1, FS_Interval DEF Days
    <2>4. Summable(f, Days) /\ \A i \in Days : f[i] = 0
      BY <2>1, <2>2, <2>3 DEF Summable
    <2>5. QED
      BY <2>2, <2>4, SumZeros DEF DaySum
  <1>5. DOMAIN metrics = Fields \cup {"kill"} /\ metrics["kill"] = FALSE
        /\ \A f \in Fields : metrics[f] = 0
    BY <1>1 DEF NoMetrics, Fields
  <1>6. AlertedOnce /\ TicksAccountedFor
    BY <1>1, <1>3 DEF AlertedOnce, TicksAccountedFor
  <1>7. \A f \in Fields : metrics[f] = CountIn(events, CountedBy(f))
    BY <1>1, <1>3, <1>5
  <1>8. CountIn(events, {"killSwitch"}) = 0
    BY <1>1, <1>3
  <1>9. metrics["kill"] = TRUE <=> CountIn(events, {"killSwitch"}) > 0
    BY <1>5, <1>8
  <1>10. \A kinds \in Reported : DaySum(events, kinds) = CountIn(events, kinds)
    BY <1>1, <1>3, <1>4
  <1>11. QED
    BY <1>2, <1>5, <1>6, <1>7, <1>9, <1>10 DEF RunInv

\* The last index of some kinds is an index that has one, or 0 when there is none.
LEMMA LastIs ==
    ASSUME NEW log \in Seq(Logged), NEW kinds
    PROVE  /\ LastOne(log, kinds) \in Nat /\ CountIn(log, kinds) \in Nat
           /\ LastOne(log, kinds) > 0 <=> CountIn(log, kinds) > 0
  <1>1. PICK S : S = {i \in DOMAIN log : log[i].kind \in kinds}
    OBVIOUS
  <1>2. PICK n \in Nat : n = Len(log) /\ DOMAIN log = 1 .. n
    OBVIOUS
  <1>3. IsFiniteSet(S)
    <2>1. 1 \in Int /\ n \in Int
      OBVIOUS
    <2>2. IsFiniteSet(1 .. n)
      BY <2>1, FS_Interval
    <2>3. S \subseteq 1 .. n
      BY <1>1, <1>2
    <2>4. QED
      BY <2>2, <2>3, FS_Subset
  <1>4. \A i \in S : i \in Nat /\ i > 0
    BY <1>1, <1>2
  <1>5. PICK T : T = {0} \cup S
    OBVIOUS
  <1>6. IsFiniteSet(T)
    BY <1>3, <1>5, FS_AddElement
  <1>7. 0 \in T /\ T \subseteq Nat
    BY <1>4, <1>5
  <1>8. PICK x : x = LastOne(log, kinds)
    OBVIOUS
  <1>9. x \in T /\ \A y \in T : x >= y
    <2>1. x = Max(T)
      BY <1>1, <1>5, <1>8 DEF LastOne
    <2>2. T \subseteq Int /\ T # {}
      BY <1>7
    <2>3. Max(T) \in T /\ \A y \in T : Max(T) >= y
      BY <1>6, <2>2, GreatestOfFinite
    <2>4. QED
      BY <2>1, <2>3
  <1>10. x > 0 <=> S # {}
    BY <1>4, <1>5, <1>7, <1>9
  <1>11. PICK c \in Nat : c = Cardinality(S)
    BY <1>3, FS_CardinalityType
  <1>12. c = 0 <=> S = {}
    BY <1>3, <1>11, FS_EmptySet
  <1>13. CountIn(log, kinds) = c
    BY <1>1, <1>11 DEF CountIn
  <1>14. QED
    BY <1>7, <1>8, <1>9, <1>10, <1>11, <1>12, <1>13

\* The kinds that each counter counts.
LEMMA FieldsAre ==
    /\ CountedBy("ticks") = Ticks /\ CountedBy("candles") = {"candle"}
    /\ CountedBy("signals") = {"signal"} /\ CountedBy("approvals") = {"approval"}
    /\ CountedBy("previews") = {"preview"} /\ CountedBy("realOrders") = {"realOrder"}
    /\ CountedBy("passes") = {"reconciled"} /\ CountedBy("fails") = {"drift"}
    /\ CountedBy("stale") = {"stale"}
  BY DEF CountedBy, Counter, Ticks

\* Counts kept and counts taken anew are the same numbers, the last index of a kind
\* being past 0 just when there is one.
LEMMA MetricsDoAgree == RunInv => MetricsAgree
  <1> SUFFICES ASSUME RunInv PROVE MetricsAgree
    OBVIOUS
  <1>1. events \in Seq(Logged) /\ \A f \in Fields : metrics[f] = CountIn(events, CountedBy(f))
    BY DEF RunInv
  <1>2. /\ metrics.ticks = CountIn(events, Ticks) /\ metrics.candles = CountIn(events, {"candle"})
        /\ metrics.signals = CountIn(events, {"signal"})
        /\ metrics.approvals = CountIn(events, {"approval"})
        /\ metrics.previews = CountIn(events, {"preview"})
        /\ metrics.realOrders = CountIn(events, {"realOrder"})
        /\ metrics.passes = CountIn(events, {"reconciled"})
        /\ metrics.fails = CountIn(events, {"drift"}) /\ metrics.stale = CountIn(events, {"stale"})
    BY <1>1, FieldsAre DEF Fields
  <1>3. PICK d : d = Dashboard(events)
    OBVIOUS
  <1>4. /\ d.candles = CountIn(events, {"candle"}) /\ d.signals = CountIn(events, {"signal"})
        /\ d.approvals = CountIn(events, {"approval"}) /\ d.previews = CountIn(events, {"preview"})
        /\ d.realOrders = CountIn(events, {"realOrder"})
        /\ d.staleFeed = (CountIn(events, {"stale"}) > 0)
        /\ d.kill = (CountIn(events, {"killSwitch"}) > 0)
        /\ d.reconciliation =
              IF LastOne(events, {"reconciled"}) = 0 /\ LastOne(events, {"drift"}) = 0 THEN "UNKNOWN"
              ELSE IF LastOne(events, {"reconciled"}) > LastOne(events, {"drift"})
                   THEN "PASSED" ELSE "FAILED"
    BY <1>3 DEF Dashboard
  <1>5. metrics.kill = d.kill
    <2>1. /\ metrics["kill"] = TRUE \/ metrics["kill"] = FALSE
          /\ metrics["kill"] = TRUE <=> CountIn(events, {"killSwitch"}) > 0
      BY DEF RunInv
    <2>2. CASE CountIn(events, {"killSwitch"}) > 0
      BY <1>4, <2>1, <2>2
    <2>3. CASE ~(CountIn(events, {"killSwitch"}) > 0)
      <3>1. metrics["kill"] = FALSE
        BY <2>1, <2>3
      <3>2. (CountIn(events, {"killSwitch"}) > 0) = FALSE
        BY <2>3
      <3>3. QED
        BY <1>4, <3>1, <3>2
    <2>4. QED
      BY <2>2, <2>3
  <1>6. PICK p \in Nat, q \in Nat, a \in Nat, b \in Nat :
             /\ p = LastOne(events, {"reconciled"}) /\ q = LastOne(events, {"drift"})
             /\ a = CountIn(events, {"reconciled"}) /\ b = CountIn(events, {"drift"})
             /\ (p > 0 <=> a > 0) /\ (q > 0 <=> b > 0)
    BY <1>1, LastIs
  <1>7. d.reconciliation = "PASSED" => metrics.passes > 0
    <2>1. d.reconciliation = "PASSED" => p > q
      BY <1>4, <1>6
    <2>2. QED
      BY <1>2, <1>6, <2>1
  <1>8. metrics.passes + metrics.fails > 0 <=> d.reconciliation # "UNKNOWN"
    <2>1. d.reconciliation = "UNKNOWN" <=> p = 0 /\ q = 0
      BY <1>4, <1>6
    <2>2. a + b > 0 <=> ~(p = 0 /\ q = 0)
      BY <1>6
    <2>3. QED
      BY <1>2, <1>6, <2>1, <2>2
  <1>9. QED
    BY <1>2, <1>3, <1>4, <1>5, <1>7, <1>8 DEF MetricsAgree

\* Each kind that the reports count is counted day by day.
LEMMA DaysDoAddUp == RunInv => DaysAddUp
  <1> SUFFICES ASSUME RunInv PROVE DaysAddUp
    OBVIOUS
  <1>1. \A kinds \in Reported : DaySum(events, kinds) = CountIn(events, kinds)
    BY DEF RunInv
  <1>2. DEFINE sum(f) == SumFunction([d \in 1 .. LastDay |-> DailyReport(events, d)[f]])
  <1>3. \A d : /\ DailyReport(events, d)["ticks"] = CountOn(events, d, Ticks)
               /\ DailyReport(events, d)["signals"] = CountOn(events, d, {"signal"})
               /\ DailyReport(events, d)["realOrders"] = CountOn(events, d, {"realOrder"})
               /\ DailyReport(events, d)["drifts"] = CountOn(events, d, {"drift"})
               /\ DailyReport(events, d)["stale"] = CountOn(events, d, {"stale"})
               /\ DailyReport(events, d)["badData"] = CountOn(events, d, BadData)
    BY DEF DailyReport
  <1>4. ASSUME NEW f, NEW kinds \in Reported,
               \A d : DailyReport(events, d)[f] = CountOn(events, d, kinds)
        PROVE  sum(f) = CountIn(events, kinds)
    <2>1. [d \in 1 .. LastDay |-> DailyReport(events, d)[f]]
            = [d \in Days |-> CountOn(events, d, kinds)]
      BY <1>4 DEF Days
    <2>2. sum(f) = DaySum(events, kinds)
      BY <2>1 DEF DaySum
    <2>3. QED
      BY <1>1, <2>2
  <1>5. sum("ticks") = CountIn(events, Ticks)
    BY <1>3, <1>4 DEF Reported
  <1>6. sum("signals") = CountIn(events, {"signal"})
    BY <1>3, <1>4 DEF Reported
  <1>7. sum("realOrders") = CountIn(events, {"realOrder"})
    BY <1>3, <1>4 DEF Reported
  <1>8. sum("drifts") = CountIn(events, {"drift"})
    BY <1>3, <1>4 DEF Reported
  <1>9. sum("stale") = CountIn(events, {"stale"})
    BY <1>3, <1>4 DEF Reported
  <1>10. sum("badData") = CountIn(events, BadData)
    BY <1>3, <1>4 DEF Reported
  <1>11. PICK s : s = Status(events)
    OBVIOUS
  <1>12. /\ s.signals = CountIn(events, {"signal"}) /\ s.realOrders = CountIn(events, {"realOrder"})
         /\ s.drifts = CountIn(events, {"drift"}) /\ s.stale = CountIn(events, {"stale"})
         /\ s.badData = CountIn(events, BadData)
    BY <1>11 DEF Status
  <1>13. metrics.ticks = CountIn(events, Ticks)
    BY FieldsAre DEF RunInv, Fields
  <1>14. QED
    BY <1>5, <1>6, <1>7, <1>8, <1>9, <1>10, <1>11, <1>12, <1>13 DEF DaysAddUp

\* The numbers of the status that the two judges compare; a stale feed is bad data.
LEMMA StatusNumbers ==
    ASSUME events \in Seq(Logged)
    PROVE  LET s == Status(events)
           IN  /\ s.days \in Nat /\ s.signals \in Nat /\ s.realOrders \in Nat /\ s.drifts \in Nat
               /\ s.badData \in Nat /\ s.stale \in Nat /\ s.stale <= s.badData
               /\ s.drawdown \in Nat
  <1>1. PICK n \in Nat : n = Len(events) /\ DOMAIN events = 1 .. n
    OBVIOUS
  <1>2. \A i \in DOMAIN events : events[i].day \in Days
    <2>1. \A i \in DOMAIN events : events[i] \in Logged
      OBVIOUS
    <2>2. \A e \in Logged : e.day \in Days
      BY DEF Logged
    <2>3. QED
      BY <2>1, <2>2
  <1>3. PICK s : s = Status(events)
    OBVIOUS
  <1>4. \A kinds : CountIn(events, kinds) \in Nat
    BY LastIs
  <1>5. s.signals \in Nat /\ s.realOrders \in Nat /\ s.drifts \in Nat
        /\ s.badData \in Nat /\ s.stale \in Nat
    BY <1>3, <1>4 DEF Status
  <1>6. s.stale <= s.badData
    <2>1. PICK S : S = {i \in DOMAIN events : events[i].kind \in {"stale"}}
      OBVIOUS
    <2>2. PICK T : T = {i \in DOMAIN events : events[i].kind \in BadData}
      OBVIOUS
    <2>3. IsFiniteSet(T)
      <3>1. 1 \in Int /\ n \in Int
        OBVIOUS
      <3>2. IsFiniteSet(1 .. n)
        BY <3>1, FS_Interval
      <3>3. T \subseteq 1 .. n
        BY <1>1, <2>2
      <3>4. QED
        BY <3>2, <3>3, FS_Subset
    <2>4. S \subseteq T
      BY <2>1, <2>2 DEF BadData
    <2>5. Cardinality(S) <= Cardinality(T)
      BY <2>3, <2>4, FS_Subset
    <2>6. s.stale = Cardinality(S) /\ s.badData = Cardinality(T)
      BY <1>3, <2>1, <2>2 DEF Status, CountIn
    <2>7. QED
      BY <2>5, <2>6
  <1>7. s.days \in Nat
    <2>1. PICK D : D = {e.day : e \in {events[i] : i \in {j \in DOMAIN events :
                                              events[j].kind \in Ticks \cup {"signal"}}}}
      OBVIOUS
    <2>2. D \subseteq Days
      BY <1>2, <2>1
    <2>3. IsFiniteSet(Days)
      <3>1. 1 \in Int /\ LastDay \in Int
        BY RunAssumption
      <3>2. QED
        BY <3>1, FS_Interval DEF Days
    <2>4. IsFiniteSet(D)
      BY <2>2, <2>3, FS_Subset
    <2>5. Cardinality(D) \in Nat
      BY <2>4, FS_CardinalityType
    <2>6. s.days = Cardinality(D)
      BY <1>3, <2>1 DEF Status
    <2>7. QED
      BY <2>5, <2>6
  <1>8. s.drawdown \in Nat
    <2>1. PICK D : D = {0} \cup {Drawdown[events[i].kind] :
                                 i \in {j \in DOMAIN events : events[j].kind \in PnlUpdates}}
      OBVIOUS
    <2>2. \A k \in PnlUpdates : Drawdown[k] \in {0, 16}
      BY DEF PnlUpdates, Drawdown
    <2>3. D \subseteq {0, 16} /\ 0 \in D
      BY <2>1, <2>2
    <2>4. IsFiniteSet({0, 16})
      <3>1. IsFiniteSet({0})
        BY FS_Singleton
      <3>2. IsFiniteSet({0} \cup {16})
        BY <3>1, FS_AddElement
      <3>3. {0} \cup {16} = {0, 16}
        OBVIOUS
      <3>4. QED
        BY <3>2, <3>3
    <2>5. IsFiniteSet(D)
      BY <2>3, <2>4, FS_Subset
    <2>6. D \subseteq Int /\ D # {}
      BY <2>3
    <2>7. Max(D) \in D
      BY <2>5, <2>6, GreatestOfFinite
    <2>8. s.drawdown = Max(D)
      BY <1>3, <2>1 DEF Status
    <2>9. s.drawdown \in {0, 16}
      BY <2>3, <2>7, <2>8
    <2>10. QED
      BY <2>9
  <1>9. QED
    BY <1>3, <1>5, <1>6, <1>7, <1>8

\* Each failure of the shadow run but two is a demand of the gate.
LEMMA ShadowDoesAgree == RunInv => ShadowAgreesWithGate
  <1> SUFFICES ASSUME RunInv PROVE ShadowAgreesWithGate
    OBVIOUS
  <1>1. PICK s : s = Status(events)
    OBVIOUS
  <1>2. /\ s.days \in Nat /\ s.signals \in Nat /\ s.realOrders \in Nat /\ s.drifts \in Nat
        /\ s.badData \in Nat /\ s.stale \in Nat /\ s.stale <= s.badData /\ s.drawdown \in Nat
    <2>1. events \in Seq(Logged)
      BY DEF RunInv
    <2>2. QED
      BY <1>1, <2>1, StatusNumbers
  <1>3. /\ MinDays \in Int /\ MinSignals \in Int /\ MaxBadData \in Int /\ MaxDrawdown \in Int
    BY RunAssumption
  <1>4. ShadowFailures(s) \subseteq {"uptime", "blocks"} <=>
          /\ ~(s.days < MinDays) /\ ~(s.signals < MinSignals)
          /\ s.realOrders = 0 /\ s.drifts = 0 /\ ~(s.badData > MaxBadData)
          /\ ~(s.drawdown > MaxDrawdown) /\ ProfitEnough(s) /\ WinsEnough(s)
    <2>1. ASSUME ShadowFailures(s) \subseteq {"uptime", "blocks"}
          PROVE  /\ ~(s.days < MinDays) /\ ~(s.signals < MinSignals)
                 /\ s.realOrders = 0 /\ s.drifts = 0 /\ ~(s.badData > MaxBadData)
                 /\ ~(s.drawdown > MaxDrawdown) /\ ProfitEnough(s) /\ WinsEnough(s)
      <3>1. "days" \notin ShadowFailures(s) /\ "samples" \notin ShadowFailures(s)
            /\ "realOrders" \notin ShadowFailures(s) /\ "drift" \notin ShadowFailures(s)
            /\ "data" \notin ShadowFailures(s) /\ "drawdown" \notin ShadowFailures(s)
            /\ "profit" \notin ShadowFailures(s) /\ "wins" \notin ShadowFailures(s)
        BY <2>1
      <3>2. QED
        BY <3>1 DEF ShadowFailures
    <2>2. ASSUME /\ ~(s.days < MinDays) /\ ~(s.signals < MinSignals)
                 /\ s.realOrders = 0 /\ s.drifts = 0 /\ ~(s.badData > MaxBadData)
                 /\ ~(s.drawdown > MaxDrawdown) /\ ProfitEnough(s) /\ WinsEnough(s)
          PROVE  ShadowFailures(s) \subseteq {"uptime", "blocks"}
      BY <2>2 DEF ShadowFailures
    <2>3. QED
      BY <2>1, <2>2
  <1>5. /\ ~(s.days < MinDays) <=> s.days >= MinDays
        /\ ~(s.signals < MinSignals) <=> s.signals >= MinSignals
        /\ ~(s.badData > MaxBadData) <=> s.badData <= MaxBadData
        /\ ~(s.drawdown > MaxDrawdown) <=> s.drawdown <= MaxDrawdown
        /\ s.badData <= MaxBadData => s.stale <= MaxBadData
    BY <1>2, <1>3
  <1>6. GateStatus(s) <=> ShadowFailures(s) \subseteq {"uptime", "blocks"}
    BY <1>4, <1>5 DEF GateStatus
  <1>7. QED
    BY <1>1, <1>6 DEF ShadowAgreesWithGate

\* However long the shadow run: its metrics, its dashboard, its daily reports, its status
\* and the gate that accepts it say the same of its log, with one alert for each event
\* that calls for one, and no tick lost without a RISK_BLOCKED.
THEOREM ShadowIsSound == RunSpec => []ShadowSound
  <1>1. RunInv => ShadowSound
    BY MetricsDoAgree, DaysDoAddUp, ShadowDoesAgree DEF ShadowSound, RunInv
  <1>2. QED
    BY <1>1, RunInvInit, RunInvStep, PTL DEF RunSpec
=============================================================================
