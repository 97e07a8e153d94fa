----------------------- MODULE WorkloadManagerProofs -----------------------
(* Theorems about WorkloadManager, for every set of Pods, policies, addresses *)
(* and bounds.                                                               *)
EXTENDS WorkloadManager, WellFoundedInduction, TLAPS

\* A journal written from memory that has its types has the type of a journal.
LEMMA JournalType ==
  ASSUME NEW m \in SUBSET Pods, NEW w \in [Pods -> Record],
         NEW r \in SUBSET Pods, NEW l \in SUBSET Pods
  PROVE  JournalOf(m, w, r, l) \in Journals
<1>1. [p \in Pods |-> [w[p] EXCEPT !.retry = FALSE]] \in [Pods -> Record]
  BY DEF Record
<1> QED
  BY <1>1 DEF JournalOf, Journals

LEMMA NoRecordType == NoRecord \in Record /\ NoReport \in Report /\ NoWl \in [Pods -> Record]
BY DEF NoRecord, NoReport, NoWl, Record, Report, AnyIP, Phases

\* The updates of a record, and of the records of all Pods, that the actions make.
LEMMA RecordUpdates ==
  ASSUME NEW r \in Record, NEW b \in BOOLEAN
  PROVE  /\ Later(r) \in Record
         /\ [r EXCEPT !.retry = FALSE] \in Record
         /\ [r EXCEPT !.log = @ \/ b] \in Record
         /\ [r EXCEPT !.nfs = @ \/ b] \in Record
         /\ [r EXCEPT !.log = @ \/ b, !.nfs = FALSE] \in Record
         /\ [r EXCEPT !.restarts = @ + 1] \in Record
<1>1. Later(r) \in Record /\ [r EXCEPT !.retry = FALSE] \in Record
  BY DEF Later, Record
<1>2. [r EXCEPT !.log = @ \/ b] \in Record
  BY DEF Record
<1>3. [r EXCEPT !.nfs = @ \/ b] \in Record
  BY DEF Record
<1>4. [r EXCEPT !.log = @ \/ b, !.nfs = FALSE] \in Record
  BY DEF Record
<1>5. [r EXCEPT !.restarts = @ + 1] \in Record
  BY DEF Record
<1> QED
  BY <1>1, <1>2, <1>3, <1>4, <1>5

LEMMA TableSet ==
  ASSUME NEW w \in [Pods -> Record], NEW q \in Pods, NEW r \in Record
  PROVE  [w EXCEPT ![q] = r] \in [Pods -> Record]
OBVIOUS

LEMMA ArchivedType == ASSUME NEW p, NEW F PROVE Archived(p, F) \in BOOLEAN
BY DEF Archived

LEMMA TornType == ASSUME NEW p, NEW F, NEW r \in Record PROVE Torn(p, r, F) \in Record
BY ArchivedType, RecordUpdates, Zenon DEF Torn

\* What those updates leave alone: the address always, the restart count and the mount
\* unless they are what is updated.
LEMMA RecordFields ==
  ASSUME NEW r \in Record, NEW b \in BOOLEAN
  PROVE  /\ Later(r).ip = r.ip /\ Later(r).restarts = r.restarts /\ Later(r).nfs = r.nfs
         /\ LET u == [r EXCEPT !.retry = FALSE]
            IN u.ip = r.ip /\ u.restarts = r.restarts /\ u.nfs = r.nfs
         /\ LET u == [r EXCEPT !.log = @ \/ b]
            IN u.ip = r.ip /\ u.restarts = r.restarts /\ u.nfs = r.nfs
         /\ LET u == [r EXCEPT !.nfs = @ \/ b]
            IN u.ip = r.ip /\ u.restarts = r.restarts /\ u.nfs = (r.nfs \/ b)
         /\ LET u == [r EXCEPT !.restarts = @ + 1]
            IN u.ip = r.ip /\ u.restarts = r.restarts + 1 /\ u.nfs = r.nfs
<1>1. Later(r).ip = r.ip /\ Later(r).restarts = r.restarts /\ Later(r).nfs = r.nfs
  BY DEF Later, Record
<1>2. LET u == [r EXCEPT !.nfs = @ \/ b]
      IN u.ip = r.ip /\ u.restarts = r.restarts /\ u.nfs = (r.nfs \/ b)
  BY Zenon DEF Record
<1> QED
  BY <1>1, <1>2 DEF Record

\* writePrivateFile leaves the new file, or the one there was.
LEMMA FileOutcome ==
  ASSUME NEW F, NEW new, NEW file \in FileAfter(F, new) PROVE file \in {journal, new}
BY DEF FileAfter

\* persistJournalLocked writes a journal, or leaves the one there was.
LEMMA PersistType ==
  ASSUME NEW F, journal \in Journals, managed' \in SUBSET Pods, wl' \in [Pods -> Record],
         retained' \in SUBSET Pods, retLog' \in SUBSET Pods, Persist(F)
  PROVE  journal' \in Journals
BY JournalType, FileOutcome DEF Persist

LEMMA InitType == Init => TypeOK
<1> SUFFICES ASSUME Init PROVE TypeOK
  OBVIOUS
<1>1. journal \in Journals
  BY JournalType, NoRecordType DEF Init
<1>2. dirty \in BOOLEAN
  BY Zenon DEF Init
<1> QED
  BY <1>1, <1>2, NoRecordType
     DEF Init, TypeOK, Phases, AnyIP, Boxes, Stages

\* While an address is free, the allocator returns one: the lowest.
LEMMA FirstFreeType ==
  ASSUME assignable \subseteq Addresses, Free # {} PROVE FirstFree \in Free
<1>1. Free \subseteq Nat
  BY AddressesAssumption DEF Free
<1>2. PICK a \in Free : \A b \in Free : <<b, a>> \notin OpToRel(<, Nat)
  BY <1>1, NatLessThanWellFounded, WFMin
<1>3. \A b \in Free : ~(b < a)
  BY <1>1, <1>2, Zenon DEF OpToRel
<1>4. \A b \in Free : a <= b
  BY <1>1, <1>3
<1> QED
  BY <1>4 DEF FirstFree

\* The shared parts of the actions keep the types.
LEMMA StopType ==
  ASSUME TypeOK, NEW p \in Pods, NEW F, StopContainer(p, F)
  PROVE  box' \in [Pods -> Boxes] /\ boxIP' \in [Pods -> AnyIP]
<1>1. \A s \in StopLeaves(p, F) : s \in Boxes
  BY DEF StopLeaves, Exited, Boxes, TypeOK
<1> QED
  BY <1>1 DEF StopContainer, TypeOK

LEMMA ArchiveType ==
  ASSUME TypeOK, NEW p \in Pods, NEW F, ArchiveLogs(p, F) PROVE logs' \in SUBSET Pods
BY DEF ArchiveLogs, TypeOK

LEMMA RemoveType ==
  ASSUME TypeOK, NEW p \in Pods, NEW F, NEW r, RemoveWorkload(p, r, F)
  PROVE  /\ logs' \in SUBSET Pods /\ box' \in [Pods -> Boxes] /\ boxIP' \in [Pods -> AnyIP]
         /\ aliases' \in SUBSET Addresses /\ mounts' \in SUBSET Pods
<1>1. StopContainer(p, F) /\ ArchiveLogs(p, F)
  BY DEF RemoveWorkload
<1>2. aliases' \in SUBSET Addresses /\ mounts' \in SUBSET Pods
  BY DEF RemoveWorkload, TypeOK
<1> QED
  BY <1>1, <1>2, StopType, ArchiveType

LEMMA RetainType ==
  ASSUME TypeOK, NEW p \in Pods, NEW log, Retain(p, log)
  PROVE  /\ managed' \in SUBSET Pods /\ wl' \in [Pods -> Record]
         /\ retained' \in SUBSET Pods /\ retLog' \in SUBSET Pods
BY NoRecordType DEF Retain, TypeOK

LEMMA RemoveManagedType ==
  ASSUME TypeOK, NEW p \in Pods, NEW F, RemoveManaged(p, F) PROVE TypeOK'
<1>1. RemoveWorkload(p, wl[p], F) /\ wl[p] \in Record
  BY DEF RemoveManaged, TypeOK
<1>2. /\ managed' \in SUBSET Pods /\ wl' \in [Pods -> Record]
      /\ retained' \in SUBSET Pods /\ retLog' \in SUBSET Pods
  <2>1. CASE RemoveFailed(F)
    BY <1>1, <2>1, TornType DEF RemoveManaged, TypeOK
  <2>2. CASE ~RemoveFailed(F)
    <3>1. Retain(p, Torn(p, wl[p], F).log)
      BY <2>2, Zenon DEF RemoveManaged
    <3> QED
      BY <3>1, RetainType
  <2> QED
    BY <2>1, <2>2
<1>3. dirty' \in BOOLEAN
  BY Zenon DEF RemoveManaged, TypeOK
<1>4. faults' \in Int
  BY DEF RemoveManaged, Meet, TypeOK
<1> QED
  BY <1>1, <1>2, <1>3, <1>4, RemoveType DEF RemoveManaged, TypeOK, api

LEMMA StepType == TypeOK /\ [Next]_vars => TypeOK'
<1> SUFFICES ASSUME TypeOK, [Next]_vars PROVE TypeOK'
  OBVIOUS
<1> USE DEF TypeOK
<1>1. CASE StartSession
  <2>1. PICK X \in SUBSET journal.retained, F \in Faulty({"persist"}) :
          StartSession!2!(X, F)
    BY <1>1 DEF StartSession
  <2>2. CASE F = {}
    <3>1. managed' \in SUBSET Pods /\ wl' \in [Pods -> Record]
          /\ retained' \in SUBSET Pods /\ retLog' \in SUBSET Pods
      BY <2>1, <2>2 DEF Prune, Journals
    <3>2. journal' \in Journals
      BY <2>1, <2>2, <3>1, JournalType
    <3> QED
      BY <1>1, <2>1, <2>2, <3>1, <3>2 DEF StartSession, Prune, Meet, Stages, api, pass
  <2>3. CASE F # {}
    <3>1. JournalOf(journal.managed, journal.wl, journal.retained \ X, journal.retLog \ X)
            \in Journals
      BY JournalType DEF Journals
    <3>2. journal' \in Journals
      BY <2>1, <2>3, <3>1, FileOutcome
    <3> QED
      BY <1>1, <2>1, <2>3, <3>2 DEF StartSession, Journals, Meet, Stages, api, memory, pass
  <2> QED
    BY <2>2, <2>3
<1>2. CASE BeginPass
  BY <1>2, PersistType DEF BeginPass, Prune, Meet, Stages, AnyIP, ReportedIPs, api, host
<1>3. CASE BeginSweep
  BY <1>3 DEF BeginSweep, Stages, api, memory, disk, host
<1>4. CASE EndPass
  <2>1. journal' \in Journals
    BY <1>4, PersistType DEF EndPass, memory
  <2>2. dirty' \in BOOLEAN
    BY <1>4, Zenon DEF EndPass
  <2> QED
    BY <1>4, <2>1, <2>2 DEF EndPass, Meet, Stages, api, memory, host
<1>5. CASE DrainAgain
  <2>1. journal' \in Journals
    BY <1>5, PersistType DEF DrainAgain, PersistDrained, memory
  <2>2. dirty' \in BOOLEAN
    BY <1>5, Zenon DEF DrainAgain
  <2> QED
    BY <1>5, <2>1, <2>2 DEF DrainAgain, Meet, Stages, api, memory, host
<1>6. CASE EndSession
  <2>1. journal' \in Journals
    BY <1>6, JournalType, FileOutcome DEF EndSession
  <2>2. dirty' \in BOOLEAN
    BY <1>6, Zenon DEF EndSession
  <2> QED
    BY <1>6, <2>1, <2>2, NoRecordType DEF EndSession, Meet, Stages, api
<1>7. ASSUME NEW p \in Pods, PodStep(p) PROVE TypeOK'
  <2>1. CASE RemoveDeleted(p)
    <3> DEFINE r == DeletedRecord(p)
    <3>1. PICK F \in Faulty(TearKinds(p, r)) :
            /\ Meet(F)
            /\ RemoveWorkload(p, r, F)
            /\ IF RemoveFailed(F)
               THEN /\ managed' = managed \cup {p}
                    /\ wl' = [wl EXCEPT ![p] = Torn(p, r, F)]
                    /\ UNCHANGED <<retained, retLog>>
                    /\ Continue(p)
               ELSE /\ Retain(p, Torn(p, r, F).log)
                    /\ pc' = "deleted" /\ UNCHANGED todo
                    /\ report' = [phase |-> "Failed", ip |-> podIP[p], restarts |-> r.restarts]
      BY <2>1, Zenon DEF RemoveDeleted
    <3>2. r \in Record
      BY NoRecordType DEF DeletedRecord, Record
    <3> HIDE DEF r
    <3>3. /\ managed' \in SUBSET Pods /\ wl' \in [Pods -> Record]
          /\ retained' \in SUBSET Pods /\ retLog' \in SUBSET Pods
      BY <3>1, <3>2, TornType, RetainType
    <3>4. pc' \in Stages /\ todo' \in SUBSET Pods /\ report' \in Report
      BY <3>1, <3>2 DEF Continue, Stages, Report, Record, Phases
    <3>5. /\ logs' \in SUBSET Pods /\ box' \in [Pods -> Boxes] /\ boxIP' \in [Pods -> AnyIP]
          /\ aliases' \in SUBSET Addresses /\ mounts' \in SUBSET Pods
      BY <3>1, RemoveType
    <3> QED
      BY <2>1, <3>1, <3>3, <3>4, <3>5 DEF RemoveDeleted, Meet, api, pass
  <2>2. CASE PersistRetained(p)
    BY <2>2, PersistType DEF PersistRetained, Meet, Goto, Stages, api, memory, host, pass
  <2>3. CASE SkipForeign(p)
    BY <2>3 DEF SkipForeign, Continue, Stages, api, memory, disk, host, pass
  <2>4. CASE RejectUnsupported(p)
    BY <2>4 DEF RejectUnsupported, ReportStatus, Stages, Report, Phases, api, memory, disk, host,
        pass
  <2>5. CASE AdmitNew(p)
    <3>1. FirstRecord(p) \in Record
      BY NoRecordType DEF FirstRecord, Record
    <3>2. wl' \in [Pods -> Record]
      <4>1. \/ wl' = [wl EXCEPT ![p] = Later(FirstRecord(p))]
            \/ wl' = [wl EXCEPT ![p] = FirstRecord(p)]
        BY <2>5, Zenon DEF AdmitNew
      <4>2. Later(FirstRecord(p)) \in Record
        BY <3>1, RecordUpdates
      <4> QED
        BY <3>1, <4>1, <4>2
    <3>3. journal' \in Journals
      BY <2>5, <3>2, PersistType DEF AdmitNew
    <3> QED
      BY <2>5, <3>2, <3>3 DEF AdmitNew, Meet, Continue, Goto, Stages, api, host, pass
  <2>6. CASE AdmitKnown(p)
    BY <2>6 DEF AdmitKnown, Goto, Stages, api, memory, disk, host, pass
  <2>7. CASE NoAddressLeft(p)
    BY <2>7 DEF NoAddressLeft, ReportStatus, Stages, Report, Record, Phases, AnyIP, api, memory,
        disk, host, pass
  <2>8. CASE AssignAddress(p)
    <3> DEFINE r == [wl[p] EXCEPT !.ip = ChosenIP(p)]
    <3>1. ChosenIP(p) \in AnyIP
      BY <2>8, FirstFreeType DEF AssignAddress, ChosenIP, NeedsAddress, Free, AnyIP
    <3>2. r \in Record /\ Later(r) \in Record
      <4>1. r \in Record
        BY <3>1 DEF Record
      <4> HIDE DEF r
      <4> QED
        BY <4>1, RecordUpdates
    <3>3. wl' = wl \/ wl' = [wl EXCEPT ![p] = Later(r)] \/ wl' = [wl EXCEPT ![p] = r]
      BY <2>8, Zenon DEF AssignAddress
    <3>4. wl' \in [Pods -> Record]
      BY <3>2, <3>3
    <3>5. UNCHANGED <<managed, retained, retLog, logs>>
      BY <2>8 DEF AssignAddress
    <3>6. journal' \in Journals
      <4>1. journal' = journal \/ \E F : Persist(F)
        BY <2>8, Zenon DEF AssignAddress
      <4> QED
        BY <3>4, <3>5, <4>1, PersistType
    <3>7. pc' \in Stages /\ todo' \in SUBSET Pods /\ report' = report
            /\ aliases' \in SUBSET Addresses
          /\ used' \in SUBSET AnyIP /\ faults' \in Int
      BY <2>8, <3>1 DEF AssignAddress, Continue, Goto, Meet, Stages
    <3> QED
      BY <2>8, <3>4, <3>5, <3>6, <3>7 DEF AssignAddress, api
  <2>9. CASE AddAlias(p)
    BY <2>9 DEF AddAlias, ReportStatus, Goto, Meet, Stages, Report, Record, Phases, AnyIP, api,
        memory, disk, pass
  <2>10. CASE Inspect(p)
    <3>1. Later(wl[p]) \in Record
      BY RecordUpdates
    <3>2. wl' \in [Pods -> Record]
      <4>1. wl' = wl \/ wl' = [wl EXCEPT ![p] = Later(wl[p])]
        BY <2>10, Zenon DEF Inspect, Backoff
      <4> QED
        BY <3>1, <4>1
    <3>3. pc' \in Stages /\ todo' \in SUBSET Pods /\ report' \in Report /\ faults' \in Int
      BY <2>10 DEF Inspect, Backoff, Continue, Goto, ReportStatus, Meet, Stages, Report,
                   Record, Phases
    <3> QED
      BY <2>10, <3>2, <3>3 DEF Inspect, api, disk, host, pass
  <2>11. CASE InspectUnreadable(p)
    <3>1. Later(wl[p]) \in Record
      BY RecordUpdates
    <3> QED
      BY <2>11, <3>1 DEF InspectUnreadable, Continue, Meet, Stages, api, disk, host, pass
  <2>12. CASE Complete(p)
    <3>1. PICK F : /\ ArchiveLogs(p, F) /\ StopContainer(p, F) /\ Meet(F)
                   /\ Retain(p, wl[p].log \/ Archived(p, F))
                   /\ report' = [phase |-> FinalPhase(p, F), ip |-> wl[p].ip,
                                 restarts |-> wl[p].restarts]
      BY <2>12, Zenon DEF Complete
    <3>2. report' \in Report
      BY <3>1 DEF FinalPhase, Report, Record, Phases
    <3>3. logs' \in SUBSET Pods /\ box' \in [Pods -> Boxes] /\ boxIP' \in [Pods -> AnyIP]
      BY <3>1, StopType, ArchiveType
    <3>4. /\ managed' \in SUBSET Pods /\ wl' \in [Pods -> Record]
          /\ retained' \in SUBSET Pods /\ retLog' \in SUBSET Pods
      BY <3>1, RetainType
    <3>5. UNCHANGED <<api, journal, aliases, mounts, pass, stops, exits, todo>> /\ pc' = "completed"
      BY <2>12 DEF Complete
    <3> QED
      BY <3>1, <3>2, <3>3, <3>4, <3>5 DEF Meet, Stages, api, pass
  <2>13. CASE Restart(p)
    <3>1. PICK F :
            LET r == [wl[p] EXCEPT !.log = @ \/ Archived(p, F)]
            IN /\ Meet(F)
               /\ ArchiveLogs(p, F) /\ StopContainer(p, F)
               /\ IF StopFailed(F)
                  THEN wl' = [wl EXCEPT ![p] = Later(r)] /\ Continue(p)
                  ELSE wl' = [wl EXCEPT ![p] = [r EXCEPT !.restarts = @ + 1]] /\ Goto("restarted")
      BY <2>13, Zenon DEF Restart
    <3> DEFINE r == [wl[p] EXCEPT !.log = @ \/ Archived(p, F)]
    <3>2. r \in Record
      <4>1. wl[p] \in Record
        OBVIOUS
      <4> QED
        BY <4>1, ArchivedType, RecordUpdates, Zenon
    <3>3. wl' = [wl EXCEPT ![p] = Later(r)]
            \/ wl' = [wl EXCEPT ![p] = [r EXCEPT !.restarts = @ + 1]]
      BY <3>1, Zenon
    <3>4. logs' \in SUBSET Pods /\ box' \in [Pods -> Boxes] /\ boxIP' \in [Pods -> AnyIP]
      BY <3>1, StopType, ArchiveType
    <3>5. pc' \in Stages /\ todo' \in SUBSET Pods /\ report' = report /\ faults' \in Int
      <4>1. Meet(F) /\ (Continue(p) \/ Goto("restarted"))
        BY <3>1, Zenon
      <4> QED
        BY <4>1 DEF Continue, Goto, Stages, Meet
    <3> HIDE DEF r
    <3>6. wl' \in [Pods -> Record]
      <4>1. Later(r) \in Record /\ [r EXCEPT !.restarts = @ + 1] \in Record
        BY <3>2, RecordUpdates
      <4> QED
        BY <3>3, <4>1
    <3>7. UNCHANGED <<api, managed, retained, retLog, journal, aliases, mounts, pass, stops, exits>>
      BY <2>13 DEF Restart
    <3> QED
      BY <3>4, <3>5, <3>6, <3>7 DEF api, pass
  <2>14. CASE PersistRestart(p)
    <3>1. wl' \in [Pods -> Record]
      <4>1. Later(wl[p]) \in Record
        BY RecordUpdates
      <4>2. wl' = wl \/ wl' = [wl EXCEPT ![p] = Later(wl[p])]
        BY <2>14, Zenon DEF PersistRestart
      <4> QED
        BY <4>1, <4>2
    <3>2. journal' \in Journals
      BY <2>14, <3>1, PersistType DEF PersistRestart
    <3> QED
      BY <2>14, <3>1, <3>2 DEF PersistRestart, Continue, Goto, Meet, Stages, api, host, pass
  <2>15. CASE Prepare(p)
    <3>1. PICK F : LET mounted == p \in Nfs /\ "mount" \notin F
                       r == [wl[p] EXCEPT !.nfs = @ \/ mounted]
                   IN /\ Meet(F)
                      /\ mounts' = IF mounted THEN mounts \cup {p} ELSE mounts
                      /\ IF F # {} THEN Backoff(p, r)
                         ELSE /\ wl' = [wl EXCEPT ![p] = r]
                              /\ Goto(IF r.nfs THEN "mounted" ELSE "start")
      BY <2>15, Zenon DEF Prepare
    <3> DEFINE mounted == p \in Nfs /\ "mount" \notin F
               r == [wl[p] EXCEPT !.nfs = @ \/ mounted]
    <3>2. r \in Record
      <4>1. wl[p] \in Record
        OBVIOUS
      <4>2. mounted \in BOOLEAN
        OBVIOUS
      <4> HIDE DEF mounted
      <4> QED
        BY <4>1, <4>2, RecordUpdates, Zenon
    <3>3. mounts' \in SUBSET Pods /\ faults' \in Int
      BY <3>1 DEF Meet
    <3>4. Backoff(p, r) \/ (wl' = [wl EXCEPT ![p] = r] /\ \E s \in {"mounted", "start"} : Goto(s))
      BY <3>1, Zenon
    <3> HIDE DEF r
    <3>5. wl' \in [Pods -> Record] /\ pc' \in Stages /\ todo' = todo /\ report' \in Report
      <4>1. Later(r) \in Record
        BY <3>2, RecordUpdates
      <4>2. r.ip \in AnyIP /\ r.restarts \in Int
        BY <3>2 DEF Record
      <4> QED
        BY <3>2, <3>4, <4>1, <4>2 DEF Backoff, ReportStatus, Goto, Stages, Report, Phases
    <3> QED
      BY <2>15, <3>3, <3>5 DEF Prepare, api, disk, pass
  <2>16. CASE PersistMounts(p)
    <3>1. wl' \in [Pods -> Record]
      <4>1. Later(wl[p]) \in Record
        BY RecordUpdates
      <4>2. wl' = wl \/ wl' = [wl EXCEPT ![p] = Later(wl[p])]
        BY <2>16, Zenon DEF PersistMounts, Backoff
      <4> QED
        BY <4>1, <4>2
    <3>2. journal' \in Journals
      BY <2>16, <3>1, PersistType DEF PersistMounts
    <3>3. pc' \in Stages /\ todo' = todo /\ report' \in Report /\ faults' \in Int
      BY <2>16 DEF PersistMounts, Backoff, ReportStatus, Goto, Meet, Stages, Report, Record, Phases
    <3> QED
      BY <2>16, <3>1, <3>2, <3>3 DEF PersistMounts, api, host, pass
  <2>17. CASE Start(p)
    <3>1. wl' \in [Pods -> Record]
      <4>1. Later(wl[p]) \in Record
        BY RecordUpdates
      <4>2. wl' = wl \/ wl' = [wl EXCEPT ![p] = Later(wl[p])]
        BY <2>17, Zenon DEF Start, Backoff
      <4> QED
        BY <4>1, <4>2
    <3>2. box' \in [Pods -> Boxes] /\ boxIP' \in [Pods -> AnyIP]
      BY <2>17 DEF Start, RunIP, Boxes, Record
    <3>3. pc' \in Stages /\ todo' = todo /\ report' \in Report /\ faults' \in Int
      BY <2>17 DEF Start, Backoff, ReportStatus, Goto, Meet, Stages, Report, Record, Phases
    <3> QED
      BY <2>17, <3>1, <3>2, <3>3 DEF Start, api, disk, pass
  <2>18. CASE WaitRunning(p)
    BY <2>18 DEF WaitRunning, Goto, Stages, api, memory, disk, host, pass
  <2>19. CASE WaitFailed(p)
    <3>1. PICK F : Meet(F) /\ StopContainer(p, F)
      BY <2>19 DEF WaitFailed
    <3>2. Later(wl[p]) \in Record
      BY RecordUpdates
    <3>3. pc' \in Stages /\ todo' = todo /\ report' \in Report
            /\ wl' = [wl EXCEPT ![p] = Later(wl[p])]
      BY <2>19 DEF WaitFailed, Backoff, ReportStatus, Stages, Report, Record, Phases
    <3>4. box' \in [Pods -> Boxes] /\ boxIP' \in [Pods -> AnyIP] /\ faults' \in Int
      BY <3>1, StopType DEF Meet
    <3> QED
      BY <2>19, <3>2, <3>3, <3>4 DEF WaitFailed, api, disk, pass
  <2>20. CASE PersistStarted(p)
    <3>1. CASE /\ wl' = [wl EXCEPT ![p].retry = FALSE]
               /\ Persist({})
               /\ ReportStatus("Running", wl[p].ip, wl[p].restarts)
               /\ UNCHANGED <<logs, host, faults>>
      <4>1. wl' \in [Pods -> Record]
        <5>1. [wl[p] EXCEPT !.retry = FALSE] \in Record
          BY RecordUpdates
        <5> QED
          BY <3>1, <5>1
      <4>2. journal' \in Journals
        BY <2>20, <3>1, <4>1, PersistType DEF PersistStarted
      <4> QED
        BY <2>20, <3>1, <4>1, <4>2 DEF PersistStarted, ReportStatus, Stages, Report, Record,
                                       Phases, api, host, pass
    <3>2. ASSUME NEW F, Meet(F), RemoveWorkload(p, wl[p], F), Backoff(p, Torn(p, wl[p], F)),
                 journal' \in FileAfter(F, JournalOf(managed, wl, retained, retLog))
          PROVE TypeOK'
      <4> DEFINE r == Torn(p, wl[p], F)
      <4>1. r \in Record
        BY TornType
      <4> HIDE DEF r
      <4>2. Later(r) \in Record /\ r.ip \in AnyIP /\ r.restarts \in Int
        BY <4>1, RecordUpdates DEF Record
      <4>3. Backoff(p, r)
        BY <3>2 DEF r
      <4>4. wl' \in [Pods -> Record] /\ pc' \in Stages /\ todo' = todo /\ report' \in Report
        BY <4>2, <4>3 DEF Backoff, ReportStatus, Stages, Report, Phases
      <4>5. /\ logs' \in SUBSET Pods /\ box' \in [Pods -> Boxes] /\ boxIP' \in [Pods -> AnyIP]
            /\ aliases' \in SUBSET Addresses /\ mounts' \in SUBSET Pods
        BY <3>2, RemoveType
      <4>6. journal' \in Journals
        BY <3>2, JournalType, FileOutcome
      <4> QED
        BY <2>20, <3>2, <4>4, <4>5, <4>6 DEF PersistStarted, Meet, api, pass
    <3> QED
      BY <2>20, <3>1, <3>2, Zenon DEF PersistStarted
  <2>21. CASE PutStatus(p)
    BY <2>21, NoRecordType DEF PutStatus, Meet, Stages, Report, memory, disk, host, pass
  <2>22. CASE SweepOne(p)
    BY <2>22, RemoveManagedType DEF SweepOne
  <2>23. CASE DrainOne(p)
    BY <2>23, RemoveManagedType DEF DrainOne
  <2>24. CASE RefuseAddress(p)
    BY <2>24 DEF RefuseAddress, ReportStatus, Stages, Report, Record, Phases, api, memory, disk,
       host, pass
  <2> QED
    BY <1>7, <2>1, <2>2, <2>3, <2>4, <2>5, <2>6, <2>7, <2>8, <2>9, <2>10, <2>11, <2>12, <2>13,
       <2>14, <2>15, <2>16, <2>17, <2>18, <2>19, <2>20, <2>21, <2>22, <2>23, <2>24 DEF PodStep
<1>8. CASE Environment
  <2>1. CASE Shutdown
    BY <2>1 DEF Shutdown, Stages, api, memory, disk, host, pass
  <2>2. CASE Crash
    <3>1. dirty' \in BOOLEAN
      BY <2>2, Zenon DEF Crash
    <3> QED
      BY <2>2, <3>1, NoRecordType DEF Crash, Stages, api, disk, host
  <2>3. ASSUME NEW p \in Pods, CreatePod(p) PROVE TypeOK'
    BY <2>3 DEF CreatePod, memory, disk, host, pass
  <2>4. ASSUME NEW p \in Pods, DeletePod(p) PROVE TypeOK'
    BY <2>4 DEF DeletePod, memory, disk, host, pass
  <2>5. ASSUME NEW p \in Pods, RemovePod(p) PROVE TypeOK'
    BY <2>5 DEF RemovePod, memory, disk, host, pass
  <2>6. ASSUME NEW p \in Pods, WorkloadExits(p) PROVE TypeOK'
    BY <2>6 DEF WorkloadExits, Exited, Boxes, api, memory, disk, pass
  <2>7. ASSUME NEW p \in Pods, RetryElapses(p) PROVE TypeOK'
    <3>1. [wl[p] EXCEPT !.retry = FALSE] \in Record
      BY RecordUpdates
    <3>2. wl' = [wl EXCEPT ![p] = [wl[p] EXCEPT !.retry = FALSE]]
      BY <2>7 DEF RetryElapses
    <3> QED
      BY <2>7, <3>1, <3>2 DEF RetryElapses, api, disk, host, pass
  <2>8. CASE Renumber
    BY <2>8 DEF Renumber, memory, disk, host, pass
  <2> QED
    BY <1>8, <2>1, <2>2, <2>3, <2>4, <2>5, <2>6, <2>7, <2>8 DEF Environment
<1>9. CASE UNCHANGED vars
  BY <1>9 DEF vars, api, memory, disk, host, pass
<1> QED
  BY <1>1, <1>2, <1>3, <1>4, <1>5, <1>6, <1>7, <1>8, <1>9 DEF Next, Daemon

\* Every variable keeps its type, whatever fails, crashes or is deleted.
THEOREM TypeCorrect == Spec => []TypeOK
<1>1. Init => TypeOK
  BY InitType
<1>2. TypeOK /\ [Next]_vars => TypeOK'
  BY StepType
<1> QED
  BY <1>1, <1>2, PTL DEF Spec

-----------------------------------------------------------------------------
\* Facts about faults and containers

\* Faults that cannot happen do not.
LEMMA FaultyKinds == ASSUME NEW K, NEW F \in Faulty(K) PROVE F \subseteq K \cap FaultKinds
BY DEF Faulty

\* Stopping a container never starts one, and touches no other.
LEMMA StopQuiet ==
  ASSUME TypeOK, NEW p \in Pods, NEW F, StopContainer(p, F)
  PROVE  /\ \A q \in Pods : box'[q] = "running" => box[q] = "running"
         /\ \A q \in Pods : box[q] = "none" => box'[q] = "none"
         /\ \A q \in Pods \ {p} : box'[q] = box[q]
<1>1. PICK s \in StopLeaves(p, F) : box' = [box EXCEPT ![p] = s]
  BY DEF StopContainer
<1>2. s \in {"none", box[p]} \/ (box[p] = "running" /\ s \in Exited)
  BY <1>1 DEF StopLeaves
<1> QED
  BY <1>1, <1>2 DEF TypeOK, Exited

\* Without a fault the container is gone.
LEMMA StopDone ==
  ASSUME TypeOK, "missing" \notin FaultKinds, NEW p \in Pods, NEW K, NEW F \in Faulty(K),
         "stop" \notin F, StopContainer(p, F)
  PROVE  box' = [box EXCEPT ![p] = "none"]
<1>1. "missing" \notin F
  BY FaultyKinds
<1>2. StopLeaves(p, F) = {"none"}
  BY <1>1 DEF StopLeaves
<1> QED
  BY <1>2 DEF StopContainer

-----------------------------------------------------------------------------
\* The deletion branch acknowledges what it did

LEMMA AcknowledgeInit == Init => AcknowledgeInv
BY DEF Init, AcknowledgeInv, OwnedStages, At

\* A step of the Pod loop keeps the invariant when its next stage suits its Pod.
LEMMA AcknowledgeMove ==
  ASSUME AcknowledgeInv, NEW p \in Pods, NEW s, At(s, p), terminating' = terminating,
         pc' = "next" \/ todo' = todo,
         pc' \in OwnedStages \cup {"completed"} => p \notin terminating,
         pc' = "deleted" => box'[p] = "none",
         pc' = "report" /\ p \in terminating => box'[p] = "none"
  PROVE  AcknowledgeInv'
<1> SUFFICES ASSUME NEW q \in Pods
             PROVE  /\ pc' \in OwnedStages \cup {"completed"} /\ At(pc, q)' => q \notin terminating
                    /\ At("deleted", q)' => box'[q] = "none"
                    /\ At("report", q)' /\ q \in terminating => box'[q] = "none"
  BY Zenon DEF AcknowledgeInv
<1>1. CASE pc' = "next"
  BY <1>1 DEF At, OwnedStages
<1>2. CASE pc' # "next"
  <2>1. q \in todo' /\ (\A r \in todo' : q <= r) => q = p
    BY <1>2, PodsAssumption DEF At
  <2> QED
    BY <2>1 DEF At
<1> QED
  BY <1>1, <1>2

LEMMA AcknowledgeStep ==
  ASSUME "missing" \notin FaultKinds
  PROVE  TypeOK /\ AcknowledgeInv /\ [Next]_vars => AcknowledgeInv'
<1> SUFFICES ASSUME TypeOK, AcknowledgeInv, [Next]_vars PROVE AcknowledgeInv'
  OBVIOUS
<1> USE DEF AcknowledgeInv, OwnedStages
<1>1. CASE StartSession
  BY <1>1 DEF StartSession, At
<1>2. CASE BeginPass
  BY <1>2 DEF BeginPass, At
<1>3. CASE BeginSweep
  BY <1>3 DEF BeginSweep, At
<1>4. CASE EndPass
  BY <1>4 DEF EndPass, At
<1>5. CASE DrainAgain
  BY <1>5 DEF DrainAgain, At
<1>6. CASE EndSession
  BY <1>6 DEF EndSession, At
<1>7. ASSUME NEW p \in Pods, PodStep(p) PROVE AcknowledgeInv'
  <2>1. CASE RemoveDeleted(p)
    <3>1. PICK F \in Faulty(TearKinds(p, DeletedRecord(p))) :
            /\ RemoveWorkload(p, DeletedRecord(p), F)
            /\ RemoveFailed(F) => Continue(p)
            /\ ~RemoveFailed(F) => pc' = "deleted" /\ todo' = todo
      BY <2>1 DEF RemoveDeleted
    <3>2. StopContainer(p, F)
      BY <3>1 DEF RemoveWorkload
    <3>3. CASE RemoveFailed(F)
      BY <2>1, <3>1, <3>3, AcknowledgeMove DEF RemoveDeleted, Continue, pass
    <3>4. CASE ~RemoveFailed(F)
      <4>1. "stop" \notin F
        BY <3>4, FaultyKinds DEF RemoveFailed, StopFailed
      <4>2. box'[p] = "none"
        BY <3>2, <4>1, StopDone DEF TypeOK
      <4> QED
        BY <2>1, <3>1, <3>4, <4>2, AcknowledgeMove DEF RemoveDeleted, pass
    <3> QED
      BY <3>3, <3>4
  <2>2. CASE PersistRetained(p)
    BY <2>2, AcknowledgeMove DEF PersistRetained, Goto, host, pass, At
  <2>3. CASE SkipForeign(p)
    BY <2>3, AcknowledgeMove DEF SkipForeign, Continue, pass
  <2>4. CASE RejectUnsupported(p)
    BY <2>4, AcknowledgeMove DEF RejectUnsupported, ReportStatus, pass
  <2>5. CASE AdmitNew(p)
    BY <2>5, AcknowledgeMove DEF AdmitNew, Eligible, Continue, Goto, pass
  <2>6. CASE AdmitKnown(p)
    BY <2>6, AcknowledgeMove DEF AdmitKnown, Eligible, Goto, pass
  <2>7. CASE NoAddressLeft(p)
    BY <2>7, AcknowledgeMove DEF NoAddressLeft, ReportStatus, pass, At
  <2>8. CASE AssignAddress(p)
    BY <2>8, AcknowledgeMove DEF AssignAddress, Continue, Goto, At
  <2>9. CASE AddAlias(p)
    BY <2>9, AcknowledgeMove DEF AddAlias, ReportStatus, Goto, pass, At
  <2>10. CASE Inspect(p)
    BY <2>10, AcknowledgeMove DEF Inspect, Backoff, ReportStatus, Continue, Goto, pass, At
  <2>11. CASE InspectUnreadable(p)
    BY <2>11, AcknowledgeMove DEF InspectUnreadable, Continue, pass
  <2>12. CASE Complete(p)
    BY <2>12, AcknowledgeMove DEF Complete, pass, At
  <2>13. CASE Restart(p)
    BY <2>13, AcknowledgeMove DEF Restart, Continue, Goto, pass, At
  <2>14. CASE PersistRestart(p)
    BY <2>14, AcknowledgeMove DEF PersistRestart, Continue, Goto, pass, At
  <2>15. CASE Prepare(p)
    <3>1. pc' \in {"report", "mounted", "start"} /\ todo' = todo
      BY <2>15 DEF Prepare, Backoff, ReportStatus, Goto
    <3> QED
      BY <2>15, <3>1, AcknowledgeMove DEF Prepare, pass, At
  <2>16. CASE PersistMounts(p)
    BY <2>16, AcknowledgeMove DEF PersistMounts, Backoff, ReportStatus, Goto, pass, At
  <2>17. CASE Start(p)
    BY <2>17, AcknowledgeMove DEF Start, Backoff, ReportStatus, Goto, pass, At
  <2>18. CASE WaitRunning(p)
    BY <2>18, AcknowledgeMove DEF WaitRunning, Goto, pass, At
  <2>19. CASE WaitFailed(p)
    BY <2>19, AcknowledgeMove DEF WaitFailed, Backoff, ReportStatus, pass, At
  <2>20. CASE PersistStarted(p)
    BY <2>20, AcknowledgeMove DEF PersistStarted, Backoff, ReportStatus, pass, At
  <2>21. CASE PutStatus(p)
    BY <2>21, AcknowledgeMove DEF PutStatus, pass
  <2>22. CASE SweepOne(p)
    BY <2>22 DEF SweepOne, RemoveManaged, At
  <2>23. CASE DrainOne(p)
    BY <2>23 DEF DrainOne, RemoveManaged, At
  <2>24. CASE RefuseAddress(p)
    BY <2>24, AcknowledgeMove DEF RefuseAddress, ReportStatus, pass, At
  <2> QED
    BY <1>7, <2>1, <2>2, <2>3, <2>4, <2>5, <2>6, <2>7, <2>8, <2>9, <2>10, <2>11, <2>12, <2>13,
       <2>14, <2>15, <2>16, <2>17, <2>18, <2>19, <2>20, <2>21, <2>22, <2>23, <2>24 DEF PodStep
<1>8. CASE Environment
  <2>1. CASE Shutdown
    BY <2>1 DEF Shutdown, At
  <2>2. CASE Crash
    BY <2>2 DEF Crash, At
  <2>3. ASSUME NEW p \in Pods, CreatePod(p) \/ DeletePod(p) \/ RemovePod(p) \/ RetryElapses(p)
        PROVE  AcknowledgeInv'
    BY <2>3 DEF CreatePod, DeletePod, RemovePod, RetryElapses, At, host, pass
  <2>4. ASSUME NEW p \in Pods, WorkloadExits(p) PROVE AcknowledgeInv'
    BY <2>4 DEF WorkloadExits, At, pass, TypeOK
  <2>5. CASE Renumber
    BY <2>5 DEF Renumber, At, host, pass
  <2> QED
    BY <1>8, <2>1, <2>2, <2>3, <2>4, <2>5 DEF Environment
<1>9. CASE UNCHANGED vars
  BY <1>9 DEF vars, At, host, pass
<1> QED
  BY <1>1, <1>2, <1>3, <1>4, <1>5, <1>6, <1>7, <1>8, <1>9 DEF Next, Daemon

\* As long as Macker can be executed, a deletion is acknowledged only when the Pod's
\* container is gone, however many removals fail and whatever crashes in between.
THEOREM DeletionAcknowledgedTruly ==
  ASSUME "missing" \notin FaultKinds
  PROVE  Spec => []DeletionAcknowledged
<1>1. Init => TypeOK /\ AcknowledgeInv
  BY InitType, AcknowledgeInit
<1>2. TypeOK /\ AcknowledgeInv /\ [Next]_vars => TypeOK' /\ AcknowledgeInv'
  BY StepType, AcknowledgeStep
<1>3. TypeOK /\ AcknowledgeInv => DeletionAcknowledged
  BY DEF TypeOK, AcknowledgeInv, DeletionAcknowledged
<1> QED
  BY <1>1, <1>2, <1>3, PTL DEF Spec

-----------------------------------------------------------------------------
\* Running workloads are journaled

LEMMA JournalField ==
  ASSUME NEW m, NEW w, NEW r, NEW l PROVE JournalOf(m, w, r, l).managed = m
BY DEF JournalOf

LEMMA PersistDone ==
  ASSUME "persist" \notin FaultKinds, NEW K, NEW F \in Faulty(K), Persist(F)
  PROVE  journal'.managed = managed'
BY FaultyKinds, JournalField DEF Persist, FileAfter

LEMMA OwnershipInit == Init => OwnershipInv
<1> SUFFICES ASSUME Init PROVE OwnershipInv
  OBVIOUS
<1>1. /\ live = {} /\ born = {} /\ terminating = {} /\ managed = {} /\ pc = "down"
      /\ box = [p \in Pods |-> "none"]
  BY DEF Init
<1> QED
  BY <1>1 DEF OwnershipInv, RunningJournaled, OwnedStages, PodStages

\* A step of the Pod loop keeps the invariant when every running workload stays managed
\* and journaled, no record is added to memory alone but a deleted Pod's, and the next
\* stage suits its Pod.
LEMMA OwnershipMove ==
  ASSUME TypeOK, OwnershipInv, NEW p \in Pods, NEW s \in PodStages, At(s, p),
         UNCHANGED <<live, born, deleting, terminating>>,
         todo' = todo \/ (pc' = "next" /\ todo' = todo \ {p}),
         \A q \in Pods : box'[q] = "running" => q \in managed' \cap journal'.managed,
         \A q \in managed' \ journal'.managed :
           q \in managed \ journal.managed \/ (q = p /\ p \in terminating),
         pc' \in OwnedStages => p \in managed' \cap journal'.managed,
         pc' = "exited" => box'[p] # "running"
  PROVE  OwnershipInv'
<1>1. pc = s /\ p \in todo /\ pc \in PodStages
  BY DEF At
<1>2. \A q \in terminating' : Doomed(q)'
  BY DEF OwnershipInv, Doomed
<1>3. \A q \in managed' \ journal'.managed :
        Doomed(q)' /\ (pc' \in PodStages /\ q \in todo' => q \in terminating')
  BY <1>1 DEF OwnershipInv, Doomed
<1>4. \A q \in Pods : pc' \in OwnedStages /\ At(pc, q)' => q = p
  <2> SUFFICES ASSUME NEW q \in Pods, pc' \in OwnedStages, At(pc, q)'
               PROVE  q = p
    BY Zenon
  <2>1. todo' = todo
    BY DEF OwnedStages
  <2> QED
    BY <2>1, PodsAssumption DEF At
<1>5. \A q \in Pods : pc' \in OwnedStages /\ At(pc, q)' => q \in managed' \cap journal'.managed
  BY <1>4
<1>6. \A q \in Pods : At("exited", q)' => box'[q] # "running"
  BY <1>4 DEF OwnedStages, At
<1> QED
  BY <1>2, <1>3, <1>5, <1>6 DEF OwnershipInv, RunningJournaled

\* The common case: memory keeps its workloads, and none starts.
LEMMA OwnershipQuiet ==
  ASSUME TypeOK, OwnershipInv, NEW p \in Pods, NEW s \in PodStages, At(s, p),
         UNCHANGED <<live, born, deleting, terminating, managed>>,
         todo' = todo \/ (pc' = "next" /\ todo' = todo \ {p}),
         \A q \in Pods : box'[q] = "running" => box[q] = "running",
         journal' = journal \/ journal'.managed = managed',
         pc' \in OwnedStages => s \in OwnedStages,
         pc' = "exited" => box'[p] # "running"
  PROVE  OwnershipInv'
<1>1. pc # "down" /\ pc = s
  BY DEF At, PodStages
<1>2. \A q \in Pods : box'[q] = "running" => q \in managed' \cap journal'.managed
  BY <1>1 DEF OwnershipInv, RunningJournaled
<1>3. \A q \in managed' \ journal'.managed : q \in managed \ journal.managed
  OBVIOUS
<1>4. pc' \in OwnedStages => p \in managed' \cap journal'.managed
  BY <1>1 DEF OwnershipInv
<1> QED
  BY <1>2, <1>3, <1>4, OwnershipMove

\* So do the removals of the sweep and the drain.
LEMMA OwnershipRemove ==
  ASSUME TypeOK, OwnershipInv, "missing" \notin FaultKinds, pc \in {"sweep", "drain", "drain2"},
         NEW p \in Pods, NEW K, NEW F \in Faulty(K), RemoveManaged(p, F)
  PROVE  OwnershipInv'
<1>1. /\ UNCHANGED <<live, born, deleting, terminating, journal, pc>>
      /\ StopContainer(p, F)
  BY DEF RemoveManaged, RemoveWorkload, api
<1>2. \A q \in Pods : box'[q] = "running" => box[q] = "running"
  BY <1>1, StopQuiet
<1>3. \A q \in Pods : box'[q] = "running" => q \in managed'
  <2>1. CASE RemoveFailed(F)
    BY <1>2, <2>1 DEF RemoveManaged, OwnershipInv
  <2>2. CASE ~RemoveFailed(F)
    <3>1. "stop" \notin F
      BY <2>2, FaultyKinds DEF RemoveFailed, StopFailed
    <3>2. box' = [box EXCEPT ![p] = "none"]
      BY <1>1, <3>1, StopDone
    <3>3. managed' = managed \ {p}
      BY <2>2 DEF RemoveManaged, Retain
    <3> QED
      BY <3>2, <3>3 DEF OwnershipInv, TypeOK
  <2> QED
    BY <2>1, <2>2
<1>4. managed' \subseteq managed
  BY DEF RemoveManaged, Retain
<1> QED
  BY <1>1, <1>2, <1>3, <1>4 DEF OwnershipInv, RunningJournaled, Doomed, PodStages, OwnedStages, At

LEMMA OwnershipStep ==
  ASSUME "missing" \notin FaultKinds, "persist" \notin FaultKinds
  PROVE  TypeOK /\ OwnershipInv /\ [Next]_vars => OwnershipInv'
<1> SUFFICES ASSUME TypeOK, OwnershipInv, [Next]_vars PROVE OwnershipInv'
  OBVIOUS
<1> USE DEF OwnedStages, PodStages
<1>1. CASE StartSession
  <2>1. pc = "down" /\ UNCHANGED <<api, box, pass, todo>>
    BY <1>1 DEF StartSession
  <2>2. CASE pc' = "down"
    <3>1. (journal' = journal \/ journal'.managed = journal.managed) /\ managed' = managed
      BY <1>1, <2>2, FileOutcome, JournalField DEF StartSession, memory
    <3> QED
      BY <2>1, <2>2, <3>1 DEF OwnershipInv, RunningJournaled, Doomed, At, api, pass
  <2>3. CASE pc' # "down"
    <3>1. pc' = "idle" /\ managed' = journal.managed /\ journal'.managed = managed'
      BY <1>1, <2>3, JournalField DEF StartSession
    <3> QED
      BY <2>1, <3>1 DEF OwnershipInv, RunningJournaled, Doomed, At, api, pass
  <2> QED
    BY <2>2, <2>3
<1>2. CASE BeginPass
  <2>1. /\ pc = "idle" /\ UNCHANGED <<api, host, managed>>
        /\ journal' = journal \/ journal'.managed = managed'
    BY <1>2, PersistDone DEF BeginPass
  <2>2. \/ UNCHANGED <<pc, todo, terminating>>
        \/ pc' = "next" /\ todo' = live /\ terminating' = deleting \cap live
    BY <1>2 DEF BeginPass
  <2> QED
    BY <2>1, <2>2 DEF OwnershipInv, RunningJournaled, Doomed, At, api, host
<1>3. CASE BeginSweep
  BY <1>3 DEF BeginSweep, OwnershipInv, RunningJournaled, Doomed, At, api, memory, disk, host
<1>4. CASE EndPass
  <2>1. /\ UNCHANGED <<api, host, managed>>
        /\ journal' = journal \/ journal'.managed = managed'
    BY <1>4, PersistDone DEF EndPass, memory
  <2>2. pc' \in {"idle", "drain2"} /\ (terminating' = {} \/ terminating' = terminating)
          /\ pc # "down"
    BY <1>4 DEF EndPass
  <2> QED
    BY <2>1, <2>2 DEF OwnershipInv, RunningJournaled, Doomed, At, api, host
<1>5. CASE DrainAgain
  <2>1. /\ UNCHANGED <<api, host, managed>>
        /\ journal' = journal \/ journal'.managed = managed'
    BY <1>5, PersistDone DEF DrainAgain, memory, PersistDrained
  <2>2. pc' \in {"idle", "drain2"} /\ (terminating' = {} \/ terminating' = terminating)
          /\ pc # "down"
    BY <1>5 DEF DrainAgain
  <2> QED
    BY <2>1, <2>2 DEF OwnershipInv, RunningJournaled, Doomed, At, api, host
<1>6. CASE EndSession
  <2>1. /\ UNCHANGED <<api, box, terminating>> /\ pc' = "down" /\ managed' = {} /\ pc = "drain2"
        /\ journal' = journal \/ journal'.managed = managed
    BY <1>6, JournalField, FileOutcome DEF EndSession
  <2> QED
    BY <2>1 DEF OwnershipInv, RunningJournaled, Doomed, At, api
<1>7. ASSUME NEW p \in Pods, PodStep(p) PROVE OwnershipInv'
  <2>1. CASE RemoveDeleted(p)
    <3>1. PICK F \in Faulty(TearKinds(p, DeletedRecord(p))) :
            /\ RemoveWorkload(p, DeletedRecord(p), F)
            /\ RemoveFailed(F) => managed' = managed \cup {p} /\ Continue(p)
            /\ ~RemoveFailed(F) => managed' = managed \ {p} /\ pc' = "deleted" /\ todo' = todo
      BY <2>1 DEF RemoveDeleted, Retain
    <3>2. StopContainer(p, F)
      BY <3>1 DEF RemoveWorkload
    <3>3. UNCHANGED <<live, born, deleting, terminating, journal>> /\ At("next", p)
            /\ p \in terminating
      BY <2>1 DEF RemoveDeleted, api, pass
    <3>4. \A q \in Pods : box'[q] = "running" => box[q] = "running"
            /\ q \in managed \cap journal.managed
      BY <3>2, <3>3, StopQuiet DEF OwnershipInv, RunningJournaled, At
    <3>5. CASE RemoveFailed(F)
      BY <3>1, <3>3, <3>4, <3>5, OwnershipMove DEF Continue, Stages
    <3>6. CASE ~RemoveFailed(F)
      <4>1. "stop" \notin F
        BY <3>6, FaultyKinds DEF RemoveFailed, StopFailed
      <4>2. box'[p] = "none"
        BY <3>2, <4>1, StopDone DEF TypeOK
      <4> QED
        BY <3>1, <3>3, <3>4, <3>6, <4>2, OwnershipMove DEF Stages
    <3> QED
      BY <3>5, <3>6
  <2>2. CASE PersistRetained(p)
    BY <2>2, PersistDone, OwnershipQuiet DEF PersistRetained, Goto, api, memory, host, pass, Stages
  <2>3. CASE SkipForeign(p)
    BY <2>3, OwnershipQuiet DEF SkipForeign, Continue, api, memory, host, disk, pass, At, Stages
  <2>4. CASE RejectUnsupported(p)
    BY <2>4, OwnershipQuiet DEF RejectUnsupported, ReportStatus, api, memory, host, disk, pass,
        At, Stages
  <2>5. CASE AdmitNew(p)
    <3>1. /\ UNCHANGED <<live, born, deleting, terminating, box>> /\ At("next", p)
          /\ managed' = managed \cup {p} /\ journal'.managed = managed'
      BY <2>5, PersistDone DEF AdmitNew, api, host, pass
    <3>2. (todo' = todo \/ (pc' = "next" /\ todo' = todo \ {p})) /\ pc' # "exited"
      BY <2>5 DEF AdmitNew, Continue, Goto
    <3>3. \A q \in Pods : box'[q] = "running" => q \in managed'
      BY <3>1 DEF OwnershipInv, At
    <3> QED
      BY <3>1, <3>2, <3>3, OwnershipMove DEF Stages
  <2>6. CASE AdmitKnown(p)
    <3>1. /\ UNCHANGED <<live, born, deleting, terminating, box, managed, journal, todo>>
          /\ At("next", p) /\ p \in managed \ terminating /\ pc' = "address"
      BY <2>6 DEF AdmitKnown, Eligible, Goto, api, memory, disk, host, pass
    <3>2. p \in journal.managed
      BY <3>1 DEF OwnershipInv, At, Stages
    <3>3. \A q \in Pods : box'[q] = "running" => q \in managed \cap journal.managed
      BY <3>1 DEF OwnershipInv, RunningJournaled, At
    <3> QED
      BY <3>1, <3>2, <3>3, OwnershipMove DEF Stages
  <2>7. CASE NoAddressLeft(p)
    BY <2>7, OwnershipQuiet DEF NoAddressLeft, ReportStatus, api, memory, host, disk, pass, At,
        Stages
  <2>8. CASE AssignAddress(p)
    <3>1. /\ UNCHANGED <<live, born, deleting, terminating, box, managed>> /\ At("address", p)
          /\ (todo' = todo \/ (pc' = "next" /\ todo' = todo \ {p})) /\ pc' # "exited"
      BY <2>8 DEF AssignAddress, Continue, Goto, api
    <3>2. journal' = journal \/ journal'.managed = managed'
      <4>1. \/ journal' = journal
            \/ \E F \in Faulty((IF wl[p].ip # ChosenIP(p) THEN {"persist"} ELSE {})
                 \cup (IF wl[p].ip # ChosenIP(p) /\ wl[p].ip \in aliases THEN {"alias"} ELSE {})) :
                 Persist(F)
        BY <2>8 DEF AssignAddress
      <4> QED
        BY <4>1, PersistDone
    <3> QED
      BY <3>1, <3>2, OwnershipQuiet DEF Stages
  <2>9. CASE AddAlias(p)
    BY <2>9, OwnershipQuiet DEF AddAlias, ReportStatus, Goto, api, memory, disk, pass, Stages
  <2>10. CASE Inspect(p)
    <3>1. /\ UNCHANGED <<live, born, deleting, terminating, box, managed, journal>>
          /\ At("inspect", p)
      BY <2>10 DEF Inspect, api, disk, host, pass
    <3>2. /\ todo' = todo \/ (pc' = "next" /\ todo' = todo \ {p})
          /\ pc' = "exited" => box'[p] # "running"
      BY <2>10 DEF host, Inspect, Backoff, ReportStatus, Continue, Goto
    <3> QED
      BY <3>1, <3>2, OwnershipQuiet DEF Stages
  <2>11. CASE InspectUnreadable(p)
    BY <2>11, OwnershipQuiet DEF InspectUnreadable, Continue, api, disk, host, pass, Stages
  <2>12. CASE Complete(p)
    <3>1. /\ UNCHANGED <<live, born, deleting, terminating, journal, todo>> /\ At("exited", p)
          /\ pc' = "completed" /\ managed' = managed \ {p}
          /\ \E F : StopContainer(p, F)
      BY <2>12 DEF Complete, Retain, api, pass
    <3>2. \A q \in Pods : box'[q] = "running" => box[q] = "running"
      BY <3>1, StopQuiet
    <3>3. box'[p] # "running"
      BY <3>1, <3>2 DEF OwnershipInv
    <3> QED
      BY <3>1, <3>2, <3>3, OwnershipMove DEF Stages, OwnershipInv, RunningJournaled, At
  <2>13. CASE Restart(p)
    <3>1. /\ UNCHANGED <<live, born, deleting, terminating, journal, managed>> /\ At("exited", p)
          /\ (todo' = todo \/ (pc' = "next" /\ todo' = todo \ {p})) /\ pc' # "exited"
          /\ \E F : StopContainer(p, F)
      BY <2>13 DEF Restart, Continue, Goto, api, pass
    <3>2. \A q \in Pods : box'[q] = "running" => box[q] = "running"
      BY <3>1, StopQuiet
    <3> QED
      BY <3>1, <3>2, OwnershipQuiet DEF Stages
  <2>14. CASE PersistRestart(p)
    BY <2>14, PersistDone, OwnershipQuiet DEF PersistRestart, Continue, Goto, api, host, pass,
        Stages
  <2>15. CASE Prepare(p)
    <3>1. todo' = todo /\ pc' # "exited"
      BY <2>15 DEF Prepare, Backoff, ReportStatus, Goto
    <3> QED
      BY <2>15, <3>1, OwnershipQuiet DEF Prepare, api, disk, pass, Stages
  <2>16. CASE PersistMounts(p)
    <3>1. todo' = todo /\ (journal' = journal \/ journal'.managed = managed') /\ pc' # "exited"
      BY <2>16, PersistDone DEF PersistMounts, Backoff, ReportStatus, Goto
    <3> QED
      BY <2>16, <3>1, OwnershipQuiet DEF PersistMounts, api, host, pass, Stages
  <2>17. CASE Start(p)
    <3>1. /\ UNCHANGED <<live, born, deleting, terminating, journal, managed, todo>>
          /\ At("start", p) /\ pc' # "exited"
          /\ box' = box \/ box' = [box EXCEPT ![p] = "running"]
      BY <2>17 DEF Start, Backoff, ReportStatus, Goto, api, disk, pass
    <3>2. p \in managed \cap journal.managed
      BY <3>1 DEF OwnershipInv, At
    <3>3. \A q \in Pods : box'[q] = "running" => q \in managed \cap journal.managed
      BY <3>1, <3>2 DEF OwnershipInv, RunningJournaled, At, TypeOK
    <3> QED
      BY <3>1, <3>2, <3>3, OwnershipMove DEF Stages
  <2>18. CASE WaitRunning(p)
    BY <2>18, OwnershipQuiet DEF WaitRunning, Goto, api, memory, host, disk, pass, Stages
  <2>19. CASE WaitFailed(p)
    <3>1. /\ UNCHANGED <<live, born, deleting, terminating, journal, managed, todo>>
          /\ At("wait", p) /\ pc' # "exited"
          /\ \E F : StopContainer(p, F)
      BY <2>19 DEF WaitFailed, Backoff, ReportStatus, api, disk, pass
    <3>2. \A q \in Pods : box'[q] = "running" => box[q] = "running"
      BY <3>1, StopQuiet
    <3> QED
      BY <3>1, <3>2, OwnershipQuiet DEF Stages
  <2>20. CASE PersistStarted(p)
    <3>1. /\ UNCHANGED <<live, born, deleting, terminating, managed, todo>> /\ At("started", p)
          /\ pc' # "exited"
      BY <2>20 DEF PersistStarted, Backoff, ReportStatus, api, pass
    <3>2. CASE UNCHANGED host /\ Persist({})
      BY <3>1, <3>2, JournalField, FileOutcome, OwnershipQuiet DEF Persist, host, Stages
    <3>3. CASE /\ journal' = journal \/ journal'.managed = managed
               /\ \E F : RemoveWorkload(p, wl[p], F)
      <4>1. \A q \in Pods : box'[q] = "running" => box[q] = "running"
        BY <3>3, StopQuiet DEF RemoveWorkload
      <4> QED
        BY <3>1, <3>3, <4>1, OwnershipQuiet DEF Stages
    <3> QED
      BY <2>20, <3>2, <3>3, FileOutcome, JournalField DEF PersistStarted
  <2>21. CASE PutStatus(p)
    BY <2>21, OwnershipQuiet DEF PutStatus, memory, host, disk, pass, Stages
  <2>22. CASE SweepOne(p)
    BY <2>22, OwnershipRemove DEF SweepOne
  <2>23. CASE DrainOne(p)
    BY <2>23, OwnershipRemove DEF DrainOne
  <2>24. CASE RefuseAddress(p)
    BY <2>24, OwnershipQuiet DEF RefuseAddress, ReportStatus, api, memory, disk, host, pass, Stages
  <2> QED
    BY <1>7, <2>1, <2>2, <2>3, <2>4, <2>5, <2>6, <2>7, <2>8, <2>9, <2>10, <2>11, <2>12, <2>13,
       <2>14, <2>15, <2>16, <2>17, <2>18, <2>19, <2>20, <2>21, <2>22, <2>23, <2>24 DEF PodStep
<1>8. CASE Environment
  <2>1. CASE Shutdown
    BY <2>1 DEF Shutdown, OwnershipInv, RunningJournaled, Doomed, At, api, memory, disk, host, pass
  <2>2. CASE Crash
    BY <2>2 DEF Crash, OwnershipInv, RunningJournaled, Doomed, At, api, disk, host
  <2>3. ASSUME NEW p \in Pods, CreatePod(p) PROVE OwnershipInv'
    BY <2>3 DEF CreatePod, OwnershipInv, RunningJournaled, Doomed, At, memory, disk, host, pass
  <2>4. ASSUME NEW p \in Pods, DeletePod(p) PROVE OwnershipInv'
    BY <2>4 DEF DeletePod, OwnershipInv, RunningJournaled, Doomed, At, memory, disk, host, pass
  <2>5. ASSUME NEW p \in Pods, RemovePod(p) PROVE OwnershipInv'
    BY <2>5 DEF RemovePod, OwnershipInv, RunningJournaled, Doomed, At, memory, disk, host, pass
  <2>6. ASSUME NEW p \in Pods, WorkloadExits(p) PROVE OwnershipInv'
    <3>1. /\ UNCHANGED <<api, memory, disk, pass, pc, todo>>
          /\ \A q \in Pods : box'[q] = "running" => box[q] = "running"
      BY <2>6 DEF WorkloadExits, Exited, TypeOK
    <3> QED
      BY <3>1 DEF OwnershipInv, RunningJournaled, Doomed, At, api, memory, disk, pass
  <2>7. ASSUME NEW p \in Pods, RetryElapses(p) PROVE OwnershipInv'
    BY <2>7 DEF RetryElapses, OwnershipInv, RunningJournaled, Doomed, At, api, disk, host, pass
  <2>8. CASE Renumber
    BY <2>8 DEF Renumber, OwnershipInv, RunningJournaled, Doomed, At, memory, disk, host, pass
  <2> QED
    BY <1>8, <2>1, <2>2, <2>3, <2>4, <2>5, <2>6, <2>7, <2>8 DEF Environment
<1>9. CASE UNCHANGED vars
  BY <1>9 DEF vars, api, memory, disk, host, pass, At, OwnershipInv, RunningJournaled, Doomed
<1> QED
  BY <1>1, <1>2, <1>3, <1>4, <1>5, <1>6, <1>7, <1>8, <1>9 DEF Next, Daemon

\* As long as the journal can be written and Macker executed, the daemon and the journal
\* own what runs, in the sense of OwnershipInv: whatever else fails and whenever the daemon
\* is killed, only a Pod that is gone or going can be known to memory alone (reconcile
\* persists a record before it starts its workload).
THEOREM OwnershipAlways ==
  ASSUME "missing" \notin FaultKinds, "persist" \notin FaultKinds
  PROVE  Spec => []OwnershipInv
<1>1. Init => TypeOK /\ OwnershipInv
  BY InitType, OwnershipInit
<1>2. TypeOK /\ OwnershipInv /\ [Next]_vars => TypeOK' /\ OwnershipInv'
  BY StepType, OwnershipStep
<1> QED
  BY <1>1, <1>2, PTL DEF Spec

\* So every running workload is in the journal at every moment, and the daemon that starts
\* after a crash knows it.
THEOREM RunningAlwaysJournaled ==
  ASSUME "missing" \notin FaultKinds, "persist" \notin FaultKinds
  PROVE  Spec => []RunningJournaled
<1>1. OwnershipInv => RunningJournaled
  BY DEF OwnershipInv
<1> QED
  BY <1>1, OwnershipAlways, PTL

-----------------------------------------------------------------------------
\* What a step of the Pod loop, of the sweep or of the drain can touch

\* The stages in which the record of the current Pod holds the address this pass chose,
\* and those in which its report holds the address it is about to be given
AddressStages == OwnedStages \ {"address"}
StatusStages  == {"deleted", "completed", "report"}

\* The Pod the loop is at
Current(p) == pc \in PodStages /\ At(pc, p)

\* Only one Pod is current.
LEMMA OneCurrent ==
  ASSUME TypeOK, NEW p \in Pods, NEW s, At(s, p), todo' = todo, NEW q \in Pods, Current(q)'
  PROVE  q = p
<1>1. \A r \in todo' : q <= r
  BY DEF Current, At
<1>2. p <= q /\ q <= p
  BY <1>1 DEF Current, At
<1> QED
  BY <1>2, PodsAssumption

\* What the journal says of a Pod after a write.
LEMMA JournalRecord ==
  ASSUME NEW m, NEW w \in [Pods -> Record], NEW r, NEW l, NEW q \in Pods
  PROVE  /\ JournalOf(m, w, r, l).wl[q].nfs = w[q].nfs
         /\ JournalOf(m, w, r, l).wl[q].restarts = w[q].restarts
BY DEF JournalOf, Record

LEMMA PersistRecord ==
  ASSUME wl' \in [Pods -> Record], NEW F, Persist(F), NEW q \in Pods
  PROVE  \/ journal' = journal
         \/ /\ journal'.managed = managed'
            /\ journal'.wl[q].nfs = wl'[q].nfs /\ journal'.wl[q].restarts = wl'[q].restarts
BY JournalField, JournalRecord, FileOutcome DEF Persist

\* Everything about Pod q that a step for another Pod leaves alone
Untouched(q) ==
  /\ box'[q] = box[q] /\ boxIP'[q] = boxIP[q] /\ wl'[q] = wl[q]
  /\ (q \in managed') = (q \in managed) /\ (q \in mounts') = (q \in mounts)

\* The form of an update for p alone
Touches(p) ==
  /\ box' = box \/ \E x : box' = [box EXCEPT ![p] = x]
  /\ boxIP' = boxIP \/ \E x : boxIP' = [boxIP EXCEPT ![p] = x]
  /\ wl' = wl \/ \E x : wl' = [wl EXCEPT ![p] = x]
  /\ managed' \in {managed, managed \cup {p}, managed \ {p}}
  /\ mounts' \in {mounts, mounts \cup {p}, mounts \ {p}}

LEMMA TouchesOne ==
  ASSUME TypeOK, NEW p \in Pods, Touches(p) PROVE \A q \in Pods \ {p} : Untouched(q)
<1> SUFFICES ASSUME NEW q \in Pods \ {p} PROVE Untouched(q)
  OBVIOUS
<1>1. box'[q] = box[q]
  BY DEF Touches, TypeOK
<1>2. boxIP'[q] = boxIP[q]
  BY DEF Touches, TypeOK
<1>3. wl'[q] = wl[q]
  BY DEF Touches, TypeOK
<1>4. (q \in managed') = (q \in managed) /\ (q \in mounts') = (q \in mounts)
  BY DEF Touches
<1> QED
  BY <1>1, <1>2, <1>3, <1>4 DEF Untouched

LEMMA RemoveTouches ==
  ASSUME NEW p \in Pods, NEW r, NEW F, RemoveWorkload(p, r, F)
  PROVE  /\ boxIP' = boxIP /\ \E x : box' = [box EXCEPT ![p] = x]
         /\ mounts' \in {mounts, mounts \ {p}}
BY DEF RemoveWorkload, StopContainer

LEMMA RemoveManagedTouches ==
  ASSUME NEW p \in Pods, NEW F, RemoveManaged(p, F) PROVE Touches(p)
<1>1. /\ RemoveWorkload(p, wl[p], F)
      /\ \E x : wl' = [wl EXCEPT ![p] = x]
      /\ managed' \in {managed, managed \ {p}}
  BY Zenon DEF RemoveManaged, Retain
<1> QED
  BY <1>1, RemoveTouches DEF Touches

\* Every step for Pod p leaves the other Pods and the addresses alone, and the journal it
\* leaves is the old one or the one persistJournalLocked writes, before the step removes a
\* workload or after.
LEMMA PodLocal ==
  ASSUME TypeOK, NEW p \in Pods, PodStep(p)
  PROVE  /\ \A q \in Pods \ {p} : Untouched(q)
         /\ \/ journal' = journal \/ \E F : Persist(F)
            \/ journal' = JournalOf(managed, wl, retained, retLog)
         /\ UNCHANGED <<live, born, deleting, assignable, listed, terminating>>
<1> SUFFICES /\ Touches(p)
             /\ \/ journal' = journal \/ \E F : Persist(F)
                \/ journal' = JournalOf(managed, wl, retained, retLog)
             /\ UNCHANGED <<live, born, deleting, assignable, listed, terminating>>
  BY TouchesOne
<1> USE DEF Touches, api, memory, disk, host, pass
<1>1. CASE RemoveDeleted(p)
  <2>1. /\ \E F : RemoveWorkload(p, DeletedRecord(p), F)
        /\ \E x : wl' = [wl EXCEPT ![p] = x]
        /\ managed' \in {managed \cup {p}, managed \ {p}}
    BY <1>1, Zenon DEF RemoveDeleted, Retain
  <2> QED
    BY <1>1, <2>1, RemoveTouches DEF RemoveDeleted
<1>2. CASE PersistRetained(p)
  BY <1>2 DEF PersistRetained
<1>3. CASE SkipForeign(p) \/ RejectUnsupported(p) \/ AdmitKnown(p) \/ NoAddressLeft(p)
           \/ RefuseAddress(p) \/ AddAlias(p) \/ WaitRunning(p) \/ PutStatus(p)
  BY <1>3 DEF SkipForeign, RejectUnsupported, AdmitKnown, NoAddressLeft, RefuseAddress, AddAlias,
              WaitRunning, PutStatus
<1>4. CASE AdmitNew(p)
  BY <1>4 DEF AdmitNew
<1>5. CASE AssignAddress(p)
  <2>1. /\ wl' = wl \/ \E x : wl' = [wl EXCEPT ![p] = x]
        /\ journal' = journal \/ \E F : Persist(F)
    BY <1>5, Zenon DEF AssignAddress
  <2> QED
    BY <1>5, <2>1 DEF AssignAddress
<1>6. CASE Inspect(p)
  <2>1. wl' = wl \/ \E x : wl' = [wl EXCEPT ![p] = x]
    BY <1>6, Zenon DEF Inspect, Backoff
  <2> QED
    BY <1>6, <2>1 DEF Inspect
<1>7. CASE InspectUnreadable(p)
  BY <1>7 DEF InspectUnreadable
<1>8. CASE Complete(p)
  BY <1>8 DEF Complete, StopContainer, Retain
<1>9. CASE Restart(p)
  <2>1. /\ \E x : wl' = [wl EXCEPT ![p] = x]
        /\ \E F : StopContainer(p, F)
    BY <1>9, Zenon DEF Restart
  <2> QED
    BY <1>9, <2>1 DEF Restart, StopContainer
<1>10. CASE PersistRestart(p)
  <2>1. wl' = wl \/ \E x : wl' = [wl EXCEPT ![p] = x]
    BY <1>10, Zenon DEF PersistRestart
  <2> QED
    BY <1>10, <2>1 DEF PersistRestart
<1>11. CASE Prepare(p)
  <2>1. wl' = wl \/ \E x : wl' = [wl EXCEPT ![p] = x]
    BY <1>11, Zenon DEF Prepare, Backoff
  <2>2. mounts' \in {mounts, mounts \cup {p}}
    BY <1>11, Zenon DEF Prepare
  <2> QED
    BY <1>11, <2>1, <2>2 DEF Prepare
<1>12. CASE PersistMounts(p)
  <2>1. wl' = wl \/ \E x : wl' = [wl EXCEPT ![p] = x]
    BY <1>12, Zenon DEF PersistMounts, Backoff
  <2> QED
    BY <1>12, <2>1 DEF PersistMounts
<1>13. CASE Start(p)
  BY <1>13 DEF Start, Backoff
<1>14. CASE WaitFailed(p)
  BY <1>14 DEF WaitFailed, Backoff, StopContainer
<1>15. CASE PersistStarted(p)
  <2>1. /\ \E x : wl' = [wl EXCEPT ![p] = x]
        /\ UNCHANGED host \/ \E F : RemoveWorkload(p, wl[p], F)
        /\ \/ Persist({})
           \/ \E F : journal' \in FileAfter(F, JournalOf(managed, wl, retained, retLog))
    BY <1>15, Zenon DEF PersistStarted, Backoff
  <2> QED
    BY <1>15, <2>1, RemoveTouches, FileOutcome DEF PersistStarted
<1>16. CASE SweepOne(p) \/ DrainOne(p)
  <2>1. PICK F : RemoveManaged(p, F)
    BY <1>16 DEF SweepOne, DrainOne
  <2> QED
    BY <2>1, RemoveManagedTouches DEF RemoveManaged
<1> QED
  BY <1>1, <1>2, <1>3, <1>4, <1>5, <1>6, <1>7, <1>8, <1>9, <1>10, <1>11, <1>12, <1>13, <1>14,
     <1>15, <1>16 DEF PodStep

-----------------------------------------------------------------------------
\* What the updates of a record by the larger actions leave alone

\* The address is all that AssignAddress changes of a record, beside its RetryAfter.
LEMMA AssignKeeps ==
  ASSUME TypeOK, NEW p \in Pods, AssignAddress(p)
  PROVE  wl'[p].nfs = wl[p].nfs /\ wl'[p].restarts = wl[p].restarts
<1> DEFINE r == [wl[p] EXCEPT !.ip = ChosenIP(p)]
<1>1. /\ r \in [ip : {ChosenIP(p)}, retry : BOOLEAN, restarts : Int, log : BOOLEAN, nfs : BOOLEAN]
      /\ r.nfs = wl[p].nfs /\ r.restarts = wl[p].restarts
  BY DEF TypeOK, Record
<1>2. wl' = wl \/ wl' = [wl EXCEPT ![p] = Later(r)] \/ wl' = [wl EXCEPT ![p] = r]
  BY Zenon DEF AssignAddress
<1> HIDE DEF r
<1>3. Later(r).nfs = r.nfs /\ Later(r).restarts = r.restarts
  BY <1>1 DEF Later
<1> QED
  BY <1>1, <1>2, <1>3 DEF TypeOK

\* A restart that was counted keeps the address and the mount; one that was put off keeps
\* the count as well.
LEMMA RestartKeeps ==
  ASSUME TypeOK, NEW p \in Pods, Restart(p)
  PROVE  /\ wl'[p].ip = wl[p].ip /\ wl'[p].nfs = wl[p].nfs
         /\ \/ Continue(p) /\ wl'[p].restarts = wl[p].restarts
            \/ Goto("restarted") /\ wl'[p].restarts = wl[p].restarts + 1
<1>1. PICK F : LET r == [wl[p] EXCEPT !.log = @ \/ Archived(p, F)]
               IN \/ wl' = [wl EXCEPT ![p] = Later(r)] /\ Continue(p)
                  \/ wl' = [wl EXCEPT ![p] = [r EXCEPT !.restarts = @ + 1]] /\ Goto("restarted")
  BY Zenon DEF Restart
<1> DEFINE r == [wl[p] EXCEPT !.log = @ \/ Archived(p, F)]
<1>2. /\ r \in Record
      /\ r.ip = wl[p].ip /\ r.nfs = wl[p].nfs /\ r.restarts = wl[p].restarts
  <2>1. wl[p] \in Record
    BY DEF TypeOK
  <2> QED
    BY <2>1, ArchivedType, RecordUpdates, RecordFields, Zenon
<1>3. \/ wl' = [wl EXCEPT ![p] = Later(r)] /\ Continue(p)
      \/ wl' = [wl EXCEPT ![p] = [r EXCEPT !.restarts = @ + 1]] /\ Goto("restarted")
  BY <1>1, Zenon
<1> HIDE DEF r
<1> QED
  BY <1>2, <1>3, RecordFields DEF TypeOK

\* A mount that Prepare makes, or finds, is in the record it leaves; a mount it did not
\* touch stays in it.
LEMMA PrepareRecords ==
  ASSUME TypeOK, NEW p \in Pods, Prepare(p)
  PROVE  /\ wl'[p].ip = wl[p].ip /\ wl'[p].restarts = wl[p].restarts
         /\ wl[p].nfs => wl'[p].nfs
         /\ p \in mounts' => p \in mounts \/ (p \in Nfs /\ wl'[p].nfs)
         /\ p \in mounts => p \in mounts'
<1>1. PICK F : LET mounted == p \in Nfs /\ "mount" \notin F
                   r == [wl[p] EXCEPT !.nfs = @ \/ mounted]
               IN /\ mounts' = IF mounted THEN mounts \cup {p} ELSE mounts
                  /\ wl' = [wl EXCEPT ![p] = Later(r)] \/ wl' = [wl EXCEPT ![p] = r]
  BY Zenon DEF Prepare, Backoff
<1> DEFINE mounted == p \in Nfs /\ "mount" \notin F
           r == [wl[p] EXCEPT !.nfs = @ \/ mounted]
<1>2. /\ r \in Record /\ r.ip = wl[p].ip /\ r.restarts = wl[p].restarts
      /\ r.nfs = (wl[p].nfs \/ mounted)
  <2>1. wl[p] \in Record /\ mounted \in BOOLEAN
    BY DEF TypeOK
  <2> HIDE DEF mounted
  <2> QED
    BY <2>1, RecordUpdates, RecordFields, Zenon
<1>3. /\ mounts' = IF mounted THEN mounts \cup {p} ELSE mounts
      /\ wl' = [wl EXCEPT ![p] = Later(r)] \/ wl' = [wl EXCEPT ![p] = r]
  BY <1>1, Zenon
<1> HIDE DEF r
<1>4. wl'[p] = Later(r) \/ wl'[p] = r
  BY <1>3 DEF TypeOK
<1> QED
  BY <1>2, <1>3, <1>4, RecordFields

\* What Prepare reports, when it fails.
LEMMA PrepareReports ==
  ASSUME TypeOK, NEW p \in Pods, Prepare(p)
  PROVE  /\ todo' = todo
         /\ \/ /\ pc' = "report" /\ report'.phase = "Pending"
               /\ report'.ip = wl'[p].ip /\ report'.restarts = wl'[p].restarts
            \/ pc' \in {"mounted", "start"}
<1>1. PICK F : LET mounted == p \in Nfs /\ "mount" \notin F
                   r == [wl[p] EXCEPT !.nfs = @ \/ mounted]
               IN Backoff(p, r) \/ \E s \in {"mounted", "start"} : Goto(s)
  BY Zenon DEF Prepare
<1> DEFINE mounted == p \in Nfs /\ "mount" \notin F
           r == [wl[p] EXCEPT !.nfs = @ \/ mounted]
<1>2. r \in Record
  <2>1. wl[p] \in Record /\ mounted \in BOOLEAN
    BY DEF TypeOK
  <2> HIDE DEF mounted
  <2> QED
    BY <2>1, RecordUpdates, Zenon
<1>3. Backoff(p, r) \/ \E s \in {"mounted", "start"} : Goto(s)
  BY <1>1, Zenon
<1> HIDE DEF r
<1>4. CASE Backoff(p, r)
  <2>1. wl'[p] = Later(r)
    BY <1>4 DEF Backoff, TypeOK
  <2> QED
    BY <1>2, <1>4, <2>1, RecordFields DEF Backoff, ReportStatus
<1> QED
  BY <1>3, <1>4 DEF Goto

LEMMA RetryKeeps ==
  ASSUME TypeOK, NEW p \in Pods, RetryElapses(p)
  PROVE  \A q \in Pods : /\ wl'[q].ip = wl[q].ip /\ wl'[q].nfs = wl[q].nfs
                         /\ wl'[q].restarts = wl[q].restarts
<1>1. wl' = [wl EXCEPT ![p] = [wl[p] EXCEPT !.retry = FALSE]]
  BY DEF RetryElapses
<1>2. LET u == [wl[p] EXCEPT !.retry = FALSE]
      IN u.ip = wl[p].ip /\ u.restarts = wl[p].restarts /\ u.nfs = wl[p].nfs
  BY DEF TypeOK, Record
<1> QED
  BY <1>1, <1>2 DEF TypeOK
=============================================================================
