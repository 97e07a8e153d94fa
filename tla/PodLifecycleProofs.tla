------------------------- MODULE PodLifecycleProofs -------------------------
(* WorkloadManager implements PodLifecycle, for every set of Pods, policies,   *)
(* addresses and bounds: the inductive invariants the refinement needs, and    *)
(* the step of PodLifecycle that each step of the manager is.                  *)
EXTENDS WorkloadManagerProofs

Native == Pods \ (Foreign \cup Unsupported)
Final  == {"Succeeded", "Failed"}

\* The stages after the terminal-phase check
BusyStages == AddressStages \ {"alias", "inspect"}

-----------------------------------------------------------------------------
\* Phases

\* Pod p is gone or going, and the current pass, if it still has to handle it, knows.
Leaving(p) == Doomed(p) /\ (pc \in PodStages /\ p \in todo => p \in terminating)

\* A final phase that only the acknowledgement of a deletion gives
Acknowledged(p) ==
  /\ phase[p] \in Final
  /\ \/ p \notin Native \/ Policy[p] = "Always"
     \/ p \notin HostNetwork /\ podIP[p] = NoIP

\* The four kinds of report
Acknowledging(p) == p \in terminating /\ report.phase = "Failed"

Finishing(p) ==
  /\ p \notin terminating
  /\ report.phase \in Final /\ phase[p] \notin Final
  /\ p \in Native /\ Policy[p] # "Always" /\ box[p] # "running"
  /\ p \notin HostNetwork => report.ip # NoIP

Progressing(p) ==
  /\ p \notin terminating
  /\ report.phase \in {"Pending", "Running"} /\ phase[p] \notin Final
  /\ report.phase = "Running" => p \in Native

\* The address the Pod reports is refused.
Retracting(p) == p \notin terminating /\ Refused(p) /\ report.phase = "Pending"

\* What is so of the phase of the Pod a pass is at
PhaseReady(p) ==
  /\ pc \in OwnedStages => p \in Native
  /\ pc \in AddressStages => ~Refused(p) /\ (p \notin HostNetwork => wl[p].ip # NoIP)
  /\ pc \in BusyStages => phase[p] \notin Final
  /\ pc = "completed" => Finishing(p)
  /\ pc = "deleted" => Acknowledging(p)
  /\ pc = "report" => Acknowledging(p) \/ Finishing(p) \/ Progressing(p) \/ Retracting(p)

\* Why phases change as PodLifecycle says: a Pod that finished by itself reports an
\* address, so a later pass reaches the terminal-phase check without a report unless the
\* address is refused, and one whose final phase is an acknowledgement is in the deletion
\* branch until it is gone.
PhaseInv ==
  /\ deleting \subseteq live
  /\ \A p \in Pods : Acknowledged(p) => Leaving(p)
  /\ \A p \in Pods : Current(p) => PhaseReady(p)

LEMMA PhaseInit == Init => PhaseInv
<1> SUFFICES ASSUME Init PROVE PhaseInv
  OBVIOUS
<1>1. deleting = {} /\ live = {} /\ pc = "down" /\ \A p \in Pods : phase[p] = "Pending"
  BY DEF Init
<1> QED
  BY <1>1 DEF PhaseInv, Acknowledged, Final, Current, PodStages

\* A step of the Pod loop that writes no status keeps the invariant when the next stage
\* suits its Pod.
LEMMA PhaseMove ==
  ASSUME TypeOK, PhaseInv, NEW p \in Pods, PodStep(p), NEW s \in PodStages, At(s, p),
         \/ todo' = todo /\ pc' # "next"
         \/ pc' = "next" /\ todo' = todo \ {p},
         pc' \in PodStages, UNCHANGED <<phase, podIP>>,
         PhaseReady(p)'
  PROVE  PhaseInv'
<1>1. UNCHANGED <<live, born, deleting, terminating>> /\ pc \in PodStages
  BY PodLocal DEF At
<1>2. \A q \in Pods : Acknowledged(q)' => Leaving(q)'
  BY <1>1 DEF PhaseInv, Acknowledged, Leaving, Doomed
<1>3. ASSUME NEW q \in Pods, Current(q)' PROVE PhaseReady(q)'
  <2>1. q = p \/ pc' = "next"
    BY <1>3, OneCurrent
  <2> QED
    BY <2>1
       DEF PhaseReady, OwnedStages, AddressStages, BusyStages
<1> QED
  BY <1>1, <1>2, <1>3 DEF PhaseInv

\* A listed Pod that was not listed as deleted, and whose final phase could only be an
\* acknowledgement, has not finished.
LEMMA Unfinished ==
  ASSUME PhaseInv, NEW p \in Pods, Current(p), p \notin terminating,
         \/ p \notin Native \/ Policy[p] = "Always"
         \/ p \notin HostNetwork /\ podIP[p] = NoIP
  PROVE  phase[p] \notin Final
BY DEF PhaseInv, Acknowledged, Leaving, Current, At

\* Outside the Pod loop, and at the beginning of a pass.
LEMMA PhaseAside ==
  ASSUME PhaseInv, live \subseteq born, UNCHANGED <<phase, podIP, live, born, deleting>>,
         \/ pc' \notin PodStages
         \/ pc' = "next" /\ todo' = live /\ terminating' = deleting \cap live
  PROVE  PhaseInv'
<1>1. \A q \in Pods : Acknowledged(q)' => Leaving(q)'
  BY DEF PhaseInv, Acknowledged, Leaving, Doomed
<1>2. \A q \in Pods : Current(q)' => PhaseReady(q)'
  BY DEF Current, PhaseReady, OwnedStages, AddressStages, BusyStages
<1> QED
  BY <1>1, <1>2 DEF PhaseInv

\* The status of a Pod reaches the API server: a Pod that gets a final phase without being
\* deleted has the address it needs for that.
LEMMA PhasePut ==
  ASSUME TypeOK, OwnershipInv, PhaseInv, NEW p \in Pods, PutStatus(p) PROVE PhaseInv'
<1>1. /\ At("report", p) /\ pc = "report" /\ Current(p)
      /\ UNCHANGED <<live, born, deleting, terminating>>
      /\ pc' = "next" /\ todo' = todo \ {p}
  BY DEF PutStatus, Current, PodStages, Stages, At, pass
<1>2. ASSUME NEW q \in Pods, Acknowledged(q)' PROVE Leaving(q)'
  <2>1. CASE phase'[q] = phase[q] /\ podIP'[q] = podIP[q]
    BY <1>1, <1>2, <2>1 DEF PhaseInv, Acknowledged, Leaving, Doomed, PodStages, Stages
  <2>2. CASE ~(phase'[q] = phase[q] /\ podIP'[q] = podIP[q])
    <3>1. q = p /\ phase'[p] = report.phase /\ podIP'[p] = report.ip
      BY <2>2 DEF PutStatus, TypeOK
    <3>2. p \in terminating
      BY <1>1, <1>2, <3>1 DEF PhaseInv, PhaseReady, Acknowledged, Acknowledging, Finishing,
                              Progressing, Retracting, Final
    <3> QED
      BY <1>1, <3>1, <3>2 DEF OwnershipInv, Leaving, Doomed
  <2> QED
    BY <2>1, <2>2
<1>3. \A q \in Pods : PhaseReady(q)'
  BY <1>1 DEF PhaseReady, OwnedStages, AddressStages, BusyStages
<1> QED
  BY <1>1, <1>2, <1>3 DEF PhaseInv

\* The common case: on to a later stage, or a report of a Pod that has not finished.
LEMMA PhaseQuiet ==
  ASSUME TypeOK, AcknowledgeInv, PhaseInv, NEW p \in Pods, PodStep(p), NEW s \in PodStages,
         At(s, p),
         \/ todo' = todo /\ pc' # "next"
         \/ pc' = "next" /\ todo' = todo \ {p},
         pc' \in PodStages \ {"completed", "deleted"}, UNCHANGED <<phase, podIP>>,
         pc' \in OwnedStages => s \in OwnedStages,
         pc' \in AddressStages => s \in AddressStages /\ wl'[p].ip = wl[p].ip,
         pc' \in BusyStages => s \in BusyStages,
         pc' = "report" => s \in BusyStages /\ report'.phase \in {"Pending", "Running"}
  PROVE  PhaseInv'
<1>1. pc = s /\ Current(p) /\ PhaseReady(p)
  BY DEF At, Current, PhaseInv
<1>2. s \in OwnedStages => p \notin terminating
  BY <1>1 DEF AcknowledgeInv
<1>3. UNCHANGED <<terminating, assignable>>
  BY PodLocal
<1>4. PhaseReady(p)'
  BY <1>1, <1>2, <1>3 DEF PhaseReady, Progressing, Refused, BusyStages, AddressStages
<1> QED
  BY <1>4, PhaseMove

LEMMA PhaseStep ==
  ASSUME FaultKinds \cap {"missing", "alias", "persist"} = {}
  PROVE  TypeOK /\ OwnershipInv /\ AcknowledgeInv /\ PhaseInv /\ [Next]_vars => PhaseInv'
<1> SUFFICES ASSUME TypeOK, OwnershipInv, AcknowledgeInv, PhaseInv, [Next]_vars PROVE PhaseInv'
  OBVIOUS
<1>0. live \subseteq born
  BY DEF OwnershipInv
<1>1. CASE StartSession
  <2>1. pc' \in {"down", "idle"}
    BY <1>1 DEF StartSession
  <2> QED
    BY <1>0, <1>1, <2>1, PhaseAside DEF StartSession, PodStages, api
<1>2. CASE BeginPass
  <2>1. \/ pc' = "idle"
        \/ pc' = "next" /\ todo' = live /\ terminating' = deleting \cap live
    BY <1>2 DEF BeginPass
  <2> QED
    BY <1>0, <1>2, <2>1, PhaseAside DEF BeginPass, PodStages, api
<1>3. CASE BeginSweep
  BY <1>0, <1>3, PhaseAside DEF BeginSweep, PodStages, api
<1>4. CASE EndPass
  BY <1>0, <1>4, PhaseAside DEF EndPass, PodStages, api
<1>5. CASE DrainAgain
  BY <1>0, <1>5, PhaseAside DEF DrainAgain, PodStages, api
<1>6. CASE EndSession
  BY <1>0, <1>6, PhaseAside DEF EndSession, PodStages, api
<1>7. ASSUME NEW p \in Pods, PodStep(p) PROVE PhaseInv'
  <2> USE DEF BusyStages, AddressStages, OwnedStages, PodStages, Stages
  <2>0. TypeOK /\ AcknowledgeInv /\ PhaseInv /\ PodStep(p)
        /\ UNCHANGED <<terminating, assignable>>
    BY <1>7, PodLocal
  <2>1. CASE RemoveDeleted(p)
    <3>1. /\ At("next", p) /\ p \in terminating
          /\ \/ pc' = "next" /\ todo' = todo \ {p}
             \/ pc' = "deleted" /\ todo' = todo /\ report'.phase = "Failed"
          /\ UNCHANGED <<phase, podIP, terminating>>
      BY <2>1 DEF RemoveDeleted, Continue, api, pass
    <3>2. PhaseReady(p)'
      BY <3>1 DEF PhaseReady, Acknowledging
    <3> QED
      BY <2>0, <3>1, <3>2, PhaseMove
  <2>2. CASE PersistRetained(p)
    <3>1. /\ At(pc, p) /\ pc \in {"deleted", "completed"} /\ pc' = "report"
          /\ UNCHANGED <<phase, podIP, box, terminating, report, todo>>
      BY <2>2 DEF PersistRetained, At, Goto, api, host, pass
    <3>2. PhaseReady(p)
      BY <3>1 DEF PhaseInv, Current
    <3>3. PhaseReady(p)'
      BY <3>1, <3>2 DEF PhaseReady, Acknowledging, Finishing
    <3> QED
      BY <2>0, <3>1, <3>3, PhaseMove
  <2>3. CASE SkipForeign(p)
    BY <2>0, <2>3, PhaseQuiet DEF SkipForeign, Continue, api
  <2>4. CASE RejectUnsupported(p)
    <3>1. /\ At("next", p) /\ pc' = "report" /\ todo' = todo /\ report'.phase = "Pending"
          /\ UNCHANGED <<phase, podIP>> /\ p \notin terminating /\ p \notin Native
      BY <2>4 DEF RejectUnsupported, ReportStatus, Native, api
    <3>2. phase[p] \notin Final
      BY <3>1, Unfinished DEF Current, At
    <3>3. PhaseReady(p)'
      BY <2>0, <3>1, <3>2 DEF PhaseReady, Progressing, AcknowledgeInv, At
    <3> QED
      BY <2>0, <3>1, <3>3, PhaseMove
  <2>5. CASE AdmitNew(p) \/ AdmitKnown(p)
    <3>1. /\ At("next", p) /\ p \in Native /\ UNCHANGED <<phase, podIP>>
          /\ \/ pc' = "next" /\ todo' = todo \ {p}
             \/ pc' = "address" /\ todo' = todo
      BY <2>5 DEF AdmitNew, AdmitKnown, Eligible, Native, Continue, Goto, api
    <3>2. PhaseReady(p)'
      BY <3>1 DEF PhaseReady
    <3> QED
      BY <2>0, <3>1, <3>2, PhaseMove
  <2>6. CASE NoAddressLeft(p)
    <3>1. /\ At("address", p) /\ pc' = "report" /\ todo' = todo /\ report'.phase = "Pending"
          /\ UNCHANGED <<phase, podIP>> /\ p \notin HostNetwork /\ podIP[p] = NoIP
      BY <2>6 DEF NoAddressLeft, NeedsAddress, ReportStatus, api
    <3>2. phase[p] \notin Final
      BY <3>1, Unfinished DEF Current, At, AcknowledgeInv
    <3>3. PhaseReady(p)'
      BY <2>0, <3>1, <3>2 DEF PhaseReady, Progressing, AcknowledgeInv, At
    <3> QED
      BY <2>0, <3>1, <3>3, PhaseMove
  <2>7. CASE AssignAddress(p)
    <3>1. /\ At("address", p) /\ UNCHANGED <<phase, podIP>>
          /\ \/ pc' = "next" /\ todo' = todo \ {p}
             \/ pc' = "alias" /\ todo' = todo
                /\ wl' = [wl EXCEPT ![p] = [wl[p] EXCEPT !.ip = ChosenIP(p)]]
      BY <2>7 DEF AssignAddress, Continue, Goto, api
    <3>2. ~Refused(p) /\ (p \notin HostNetwork => ChosenIP(p) # NoIP)
      BY <2>7, FirstFreeType, AddressesAssumption
         DEF AssignAddress, ChosenIP, NeedsAddress, Free, TypeOK
    <3>3. pc' = "alias" => wl'[p].ip = ChosenIP(p)
      BY <3>1 DEF TypeOK, Record
    <3>4. PhaseReady(p)
      BY <3>1 DEF PhaseInv, Current, At
    <3>5. PhaseReady(p)'
      BY <2>0, <3>1, <3>2, <3>3, <3>4 DEF PhaseReady, Refused, At
    <3> QED
      BY <2>0, <3>1, <3>5, PhaseMove
  <2>8. CASE AddAlias(p)
    <3>1. At("alias", p) /\ pc' = "inspect" /\ UNCHANGED <<phase, podIP, wl, todo>>
      BY <2>8, FaultyKinds DEF AddAlias, Goto, api, memory
    <3> QED
      BY <2>0, <3>1, PhaseQuiet
  <2>9. CASE Inspect(p)
    <3>1. /\ At("inspect", p) /\ UNCHANGED <<phase, podIP>>
          /\ \/ pc' = "next" /\ todo' = todo \ {p}
             \/ /\ ~Finished(p) /\ todo' = todo /\ pc' \in {"report", "prepare", "exited"}
                /\ wl' = wl \/ wl' = [wl EXCEPT ![p] = Later(wl[p])]
                /\ pc' = "report" => report'.phase \in {"Pending", "Running"}
      BY <2>9 DEF Inspect, Continue, Backoff, ReportStatus, Goto, api
    <3>2. PhaseReady(p)
      BY <3>1 DEF PhaseInv, Current, At
    <3>3. CASE pc' = "next"
      BY <2>0, <3>1, <3>3, PhaseQuiet
    <3>4. CASE pc' # "next"
      <4>1. phase[p] \notin Final
        BY <3>1, <3>4, Unfinished DEF Finished, Final, Current, At, AcknowledgeInv
      <4>2. wl'[p].ip = wl[p].ip
        BY <3>1, <3>4, RecordFields DEF TypeOK
      <4>3. PhaseReady(p)'
        BY <2>0, <3>1, <3>2, <3>4, <4>1, <4>2
           DEF PhaseReady, Progressing, Refused, AcknowledgeInv, At
      <4> QED
        BY <2>0, <3>1, <3>4, <4>3, PhaseMove
    <3> QED
      BY <3>3, <3>4
  <2>10. CASE InspectUnreadable(p)
    BY <2>0, <2>10, PhaseQuiet DEF InspectUnreadable, Continue, api
  <2>11. CASE Complete(p)
    <3>1. /\ At("exited", p) /\ pc' = "completed" /\ UNCHANGED <<phase, podIP, todo>>
          /\ report'.phase \in Final /\ report'.ip = wl[p].ip /\ Policy[p] # "Always"
          /\ \E F : StopContainer(p, F)
      BY <2>11 DEF Complete, FinalPhase, Final, api
    <3>2. box'[p] # "running"
      BY <3>1, StopQuiet DEF OwnershipInv
    <3>3. PhaseReady(p)
      BY <3>1 DEF PhaseInv, Current, At
    <3>4. PhaseReady(p)'
      BY <2>0, <3>1, <3>2, <3>3 DEF PhaseReady, Finishing, AcknowledgeInv, At
    <3> QED
      BY <2>0, <3>1, <3>4, PhaseMove
  <2>12. CASE Restart(p)
    <3>1. At("exited", p) /\ UNCHANGED <<phase, podIP>>
      BY <2>12, Zenon DEF Restart, api
    <3>2. /\ wl'[p].ip = wl[p].ip
          /\ \/ pc' = "next" /\ todo' = todo \ {p}
             \/ pc' = "restarted" /\ todo' = todo
      BY <2>0, <2>12, RestartKeeps DEF Continue, Goto
    <3> QED
      BY <2>0, <3>1, <3>2, PhaseQuiet
  <2>13. CASE PersistRestart(p)
    <3>1. /\ At("restarted", p) /\ UNCHANGED <<phase, podIP>>
          /\ \/ pc' = "next" /\ todo' = todo \ {p}
             \/ pc' = "prepare" /\ todo' = todo /\ wl' = wl
      BY <2>13 DEF PersistRestart, Continue, Goto, api
    <3> QED
      BY <2>0, <3>1, PhaseQuiet
  <2>14. CASE Prepare(p)
    <3>1. /\ wl'[p].ip = wl[p].ip /\ todo' = todo
          /\ \/ pc' = "report" /\ report'.phase = "Pending"
             \/ pc' \in {"mounted", "start"}
      BY <2>14, PrepareRecords, PrepareReports
    <3> QED
      BY <2>0, <2>14, <3>1, PhaseQuiet DEF Prepare, api
  <2>15. CASE PersistMounts(p)
    <3>1. /\ At("mounted", p) /\ UNCHANGED <<phase, podIP, todo>>
          /\ \/ pc' = "report" /\ report'.phase = "Pending"
             \/ pc' = "start" /\ wl' = wl
      BY <2>15 DEF PersistMounts, Backoff, ReportStatus, Goto, api
    <3> QED
      BY <2>0, <3>1, PhaseQuiet
  <2>16. CASE Start(p)
    <3>1. /\ At("start", p) /\ UNCHANGED <<phase, podIP, todo>>
          /\ \/ pc' = "report" /\ report'.phase = "Pending"
             \/ pc' = "wait" /\ wl' = wl
      BY <2>16 DEF Start, Backoff, ReportStatus, Goto, api
    <3> QED
      BY <2>0, <3>1, PhaseQuiet
  <2>17. CASE WaitRunning(p)
    BY <2>0, <2>17, PhaseQuiet DEF WaitRunning, Goto, api, memory
  <2>18. CASE WaitFailed(p)
    BY <2>0, <2>18, PhaseQuiet DEF WaitFailed, Backoff, ReportStatus, api
  <2>19. CASE PersistStarted(p)
    <3>1. /\ At("started", p) /\ UNCHANGED <<phase, podIP, todo>>
          /\ pc' = "report" /\ report'.phase \in {"Pending", "Running"}
      BY <2>19 DEF PersistStarted, Backoff, ReportStatus, api
    <3> QED
      BY <2>0, <3>1, PhaseQuiet
  <2>20. CASE PutStatus(p)
    BY <2>20, PhasePut
  <2>21. CASE RefuseAddress(p)
    <3>1. /\ At("address", p) /\ pc' = "report" /\ todo' = todo /\ report'.phase = "Pending"
          /\ Refused(p) /\ UNCHANGED <<phase, podIP>>
      BY <2>21 DEF RefuseAddress, ReportStatus, api
    <3>2. PhaseReady(p)'
      BY <2>0, <3>1 DEF PhaseReady, Retracting, Refused, AcknowledgeInv, At
    <3> QED
      BY <2>0, <3>1, <3>2, PhaseMove
  <2>22. CASE SweepOne(p) \/ DrainOne(p)
    <3>1. pc' = pc /\ pc \in {"sweep", "drain", "drain2"} /\ UNCHANGED api
      BY <2>22 DEF SweepOne, DrainOne, RemoveManaged
    <3> QED
      BY <1>0, <3>1, PhaseAside DEF api
  <2> QED
    BY <1>7, <2>1, <2>2, <2>3, <2>4, <2>5, <2>6, <2>7, <2>8, <2>9, <2>10, <2>11, <2>12, <2>13,
       <2>14, <2>15, <2>16, <2>17, <2>18, <2>19, <2>20, <2>21, <2>22 DEF PodStep
<1>8. CASE Environment
  <2>1. CASE Shutdown
    BY <1>0, <2>1, PhaseAside DEF Shutdown, PodStages, api
  <2>2. CASE Crash
    BY <1>0, <2>2, PhaseAside DEF Crash, PodStages, api
  <2>3. ASSUME NEW p \in Pods, CreatePod(p) \/ DeletePod(p) \/ RemovePod(p) \/ RetryElapses(p)
        PROVE  PhaseInv'
    <3>1. UNCHANGED <<phase, podIP, assignable, box, pc, todo, terminating, report>>
      BY <2>3 DEF CreatePod, DeletePod, RemovePod, RetryElapses, api, host, pass
    <3>2. /\ deleting' \subseteq live'
          /\ \A q \in Pods : Doomed(q) => Doomed(q)'
      BY <1>0, <2>3 DEF CreatePod, DeletePod, RemovePod, RetryElapses, Doomed, PhaseInv, api
    <3>3. \A q \in Pods : wl'[q].ip = wl[q].ip
      BY <2>3, RetryKeeps DEF CreatePod, DeletePod, RemovePod, memory
    <3>4. \A q \in Pods : Current(q)' => Current(q)
      BY <3>1 DEF Current, At
    <3>5. \A q \in Pods : PhaseReady(q) => PhaseReady(q)'
      BY <3>1, <3>3 DEF PhaseReady, Acknowledging, Finishing, Progressing, Retracting, Refused
    <3> QED
      BY <3>1, <3>2, <3>4, <3>5 DEF PhaseInv, Acknowledged, Leaving
  <2>4. ASSUME NEW p \in Pods, WorkloadExits(p) PROVE PhaseInv'
    <3>1. /\ UNCHANGED <<live, born, deleting, phase, podIP, assignable, wl, pc, todo,
                         terminating, report>>
          /\ \A q \in Pods : box'[q] = "running" => box[q] = "running"
      BY <2>4 DEF WorkloadExits, Exited, TypeOK, api, memory, pass
    <3> QED
      BY <3>1 DEF PhaseInv, Acknowledged, Leaving, Doomed, Current, At, PhaseReady,
                  Acknowledging, Finishing, Progressing, Retracting, Refused
  <2>5. CASE Renumber
    BY <1>0, <2>5, PhaseAside DEF Renumber, PodStages
  <2> QED
    BY <1>8, <2>1, <2>2, <2>3, <2>4, <2>5 DEF Environment
<1>9. CASE UNCHANGED vars
  <2>1. UNCHANGED <<live, born, deleting, phase, podIP, assignable, box, wl, pc, todo,
                    terminating, report>>
    BY <1>9 DEF vars, api, memory, host, pass
  <2> QED
    BY <2>1 DEF PhaseInv, Acknowledged, Leaving, Doomed, Current, At, PhaseReady,
                Acknowledging, Finishing, Progressing, Retracting, Refused
<1> QED
  BY <1>1, <1>2, <1>3, <1>4, <1>5, <1>6, <1>7, <1>8, <1>9 DEF Next, Daemon

-----------------------------------------------------------------------------
\* Restart counts

\* The journal says what memory says.
Written ==
  /\ journal'.managed = managed'
  /\ \A q \in Pods : journal'.wl[q].restarts = wl'[q].restarts

\* A Pod the manager does not run has never been restarted.
Uncounted(p) ==
  /\ podRestarts[p] = 0 /\ wl[p].restarts = 0 /\ journal.wl[p].restarts = 0
  /\ Current(p) /\ pc \in StatusStages => report.restarts = 0

\* Every record is ahead of what the Pod reports, and the journal ahead of memory but
\* for a restart that is being counted.
Counted(p) ==
  /\ p \in managed => podRestarts[p] <= wl[p].restarts
  /\ p \in journal.managed => podRestarts[p] <= journal.wl[p].restarts
  /\ p \in managed \cap journal.managed /\ ~(Current(p) /\ pc = "restarted") =>
       wl[p].restarts <= journal.wl[p].restarts

\* The records of a Pod that is leaving may start from zero, or be ahead as well.
Recalled(p) ==
  /\ p \in managed => wl[p].restarts = 0 \/ podRestarts[p] <= wl[p].restarts
  /\ p \in journal.managed =>
       journal.wl[p].restarts = 0 \/ podRestarts[p] <= journal.wl[p].restarts

\* The report is between what the Pod reports so far and its records.
CountReady(p) ==
  /\ pc \in {"completed", "report"} => podRestarts[p] <= report.restarts
  /\ pc = "completed" => p \notin managed
  /\ pc = "report" =>
       /\ p \in managed => report.restarts <= wl[p].restarts
       /\ p \in journal.managed => report.restarts <= journal.wl[p].restarts

\* The acknowledgement of a deletion gives what the record says, and there is none left.
AckReady(p) ==
  /\ pc \in {"deleted", "report"} =>
       /\ report.restarts = 0 \/ podRestarts[p] <= report.restarts
       /\ p \notin managed
  /\ pc = "report" => p \notin journal.managed

\* Why restart counts only grow: whichever of memory and the journal a later pass
\* continues from, after a crash or after the record was retained, it has counted what
\* the Pod reports.  Only a Pod that is leaving may get a record that starts from zero, in
\* the deletion branch, and is never started again.
RestartInv ==
  /\ \A p \in Pods \ Native : Uncounted(p)
  /\ \A p \in Pods : Counted(p) \/ (Leaving(p) /\ Recalled(p))
  /\ \A p \in Pods : Current(p) => IF p \in terminating THEN AckReady(p) ELSE CountReady(p)

LEMMA RestartInit == Init => RestartInv
<1> SUFFICES ASSUME Init PROVE RestartInv
  OBVIOUS
<1>1. /\ podRestarts = [p \in Pods |-> 0] /\ wl = NoWl /\ managed = {} /\ pc = "down"
      /\ journal = JournalOf({}, NoWl, {}, {})
  BY DEF Init
<1>2. ASSUME NEW p \in Pods PROVE journal.wl[p].restarts = 0 /\ wl[p].restarts = 0
  <2>1. NoWl[p].restarts = 0
    BY DEF NoWl, NoRecord
  <2> QED
    BY <1>1, <2>1, NoRecordType, JournalRecord
<1>3. journal.managed = {}
  BY <1>1, JournalField
<1> QED
  BY <1>1, <1>2, <1>3 DEF RestartInv, Uncounted, Counted, Current, PodStages, Native

\* A journal write that cannot fail writes.
LEMMA PersistWrites ==
  ASSUME "persist" \notin FaultKinds, wl' \in [Pods -> Record],
         NEW K, NEW F \in Faulty(K), Persist(F)
  PROVE  Written
BY FaultyKinds, JournalField, JournalRecord DEF Persist, FileAfter, Written

\* What the journal says of a Pod after a step of the Pod loop.
LEMMA JournalLocal ==
  ASSUME TypeOK, TypeOK', NEW p \in Pods, PodStep(p), NEW q \in Pods,
         (q \in managed') = (q \in managed), wl'[q].restarts = wl[q].restarts
  PROVE  \/ journal' = journal
         \/ /\ (q \in journal'.managed) = (q \in managed)
            /\ journal'.wl[q].restarts = wl[q].restarts
<1>1. CASE journal' = journal \/ \E F : Persist(F)
  BY <1>1, PersistRecord DEF TypeOK
<1>2. CASE journal' = JournalOf(managed, wl, retained, retLog)
  BY <1>2, JournalField, JournalRecord DEF TypeOK
<1> QED
  BY <1>1, <1>2, PodLocal

\* A step of the Pod loop keeps the invariant when it does so for its own Pod.
LEMMA RestartMove ==
  ASSUME TypeOK, TypeOK', OwnershipInv, RestartInv, NEW p \in Pods, PodStep(p),
         NEW s \in PodStages, At(s, p),
         \/ todo' = todo /\ pc' # "next"
         \/ pc' = "next" /\ todo' = todo \ {p},
         pc' \in PodStages, \A q \in Pods \ {p} : podRestarts'[q] = podRestarts[q],
         p \notin Native => Uncounted(p)',
         p \notin terminating /\ Counted(p) => Counted(p)' /\ CountReady(p)',
         p \in terminating /\ Recalled(p) => Recalled(p)' /\ AckReady(p)'
  PROVE  RestartInv'
<1>1. /\ UNCHANGED <<live, born, deleting, terminating>> /\ pc = s
      /\ \A q \in Pods \ {p} : Untouched(q)
  BY PodLocal DEF At
<1>2. ASSUME NEW q \in Pods PROVE Current(q)' => q = p \/ pc' = "next"
  BY OneCurrent
<1>3. ASSUME NEW q \in Pods, Leaving(q) PROVE Leaving(q)'
  BY <1>1, <1>3 DEF Leaving, Doomed
<1>4. ASSUME NEW q \in Pods \ {p}
      PROVE  \/ journal' = journal
             \/ /\ (q \in journal'.managed) = (q \in managed)
                /\ journal'.wl[q].restarts = wl[q].restarts
  BY <1>1, JournalLocal DEF Untouched
<1>5. ASSUME NEW q \in Pods \ Native PROVE Uncounted(q)'
  BY <1>1, <1>2, <1>4 DEF RestartInv, Uncounted, Untouched, StatusStages
<1>6. /\ p \in terminating => Leaving(p) /\ Recalled(p)
      /\ p \notin terminating => Counted(p)
  BY DEF Leaving, OwnershipInv, RestartInv, Counted, Recalled, At
<1>7. ASSUME NEW q \in Pods PROVE Counted(q)' \/ (Leaving(q) /\ Recalled(q))'
  <2>1. CASE q = p
    BY <1>3, <1>6, <2>1
  <2>2. CASE q # p /\ Counted(q)
    <3>1. ~Current(q)
      BY <2>2, PodsAssumption DEF Current, At
    <3>2. podRestarts'[q] = podRestarts[q] /\ Untouched(q)
      BY <1>1, <2>2
    <3>3. CASE journal' = journal
      BY <2>2, <3>1, <3>2, <3>3 DEF Counted, Untouched
    <3>4. CASE /\ (q \in journal'.managed) = (q \in managed)
               /\ journal'.wl[q].restarts = wl[q].restarts
      <4>1. wl[q].restarts \in Int
        BY DEF TypeOK, Record
      <4> QED
        BY <2>2, <3>2, <3>4, <4>1 DEF Counted, Untouched
    <3> QED
      BY <1>4, <2>2, <3>3, <3>4
  <2>3. CASE q # p /\ Leaving(q) /\ Recalled(q)
    <3>1. podRestarts'[q] = podRestarts[q] /\ Untouched(q)
      BY <1>1, <2>3
    <3>2. Recalled(q)'
      BY <1>4, <2>3, <3>1 DEF Recalled, Untouched
    <3> QED
      BY <1>3, <2>3, <3>2
  <2> QED
    BY <2>1, <2>2, <2>3 DEF RestartInv
<1>8. ASSUME NEW q \in Pods, Current(q)'
      PROVE  IF q \in terminating' THEN AckReady(q)' ELSE CountReady(q)'
  <2>1. CASE pc' = "next"
    BY <2>1 DEF CountReady, AckReady
  <2>2. CASE q = p
    BY <1>1, <1>6, <2>2
  <2> QED
    BY <1>2, <1>8, <2>1, <2>2
<1> QED
  BY <1>5, <1>7, <1>8 DEF RestartInv

\* The common case: the record keeps its count, and a report gives it.
LEMMA RestartQuiet ==
  ASSUME TypeOK, TypeOK', OwnershipInv, AcknowledgeInv, RestartInv, NEW p \in Pods, PodStep(p),
         NEW s \in PodStages, At(s, p),
         \/ todo' = todo /\ pc' # "next"
         \/ pc' = "next" /\ todo' = todo \ {p},
         pc' \in PodStages \ {"deleted", "completed", "restarted"},
         UNCHANGED <<podRestarts, managed>>,
         wl'[p].restarts = wl[p].restarts,
         s = "restarted" => Written,
         pc' = "report" => s \in OwnedStages /\ report'.restarts = wl[p].restarts
  PROVE  RestartInv'
<1>1. /\ pc = s
      /\ \/ journal' = journal
         \/ /\ (p \in journal'.managed) = (p \in managed)
            /\ journal'.wl[p].restarts = wl[p].restarts
  BY JournalLocal DEF At
<1>2. wl[p].restarts \in Int
  BY DEF TypeOK, Record
<1>3. p \notin Native => Uncounted(p)'
  BY <1>1 DEF RestartInv, Uncounted, StatusStages
<1>4. ASSUME Counted(p) PROVE Counted(p)' /\ CountReady(p)'
  <2>1. s # "restarted" \/ Written
    OBVIOUS
  <2>2. Counted(p)'
    BY <1>1, <1>2, <1>4, <2>1 DEF Counted, Written
  <2>3. s \in OwnedStages => p \in managed
    BY <1>1 DEF OwnershipInv
  <2>4. CountReady(p)'
    BY <1>1, <1>2, <1>4, <2>1, <2>2, <2>3 DEF CountReady, Counted, Written
  <2> QED
    BY <2>2, <2>4
<1>5. ASSUME p \in terminating, Recalled(p) PROVE Recalled(p)' /\ AckReady(p)'
  <2>1. pc' # "report"
    BY <1>1, <1>5 DEF AcknowledgeInv
  <2> QED
    BY <1>1, <1>5, <2>1 DEF Recalled, AckReady
<1> QED
  BY <1>3, <1>4, <1>5, RestartMove

\* Outside the Pod loop, and at the beginning of a pass: memory is kept, lost, or what
\* the journal says, and the journal is kept or what memory said.
LEMMA RestartAside ==
  ASSUME TypeOK, RestartInv, UNCHANGED <<podRestarts, live, born, deleting>>,
         \/ pc' \notin PodStages
         \/ pc' = "next" /\ todo' = live /\ terminating' = deleting \cap live,
         \/ managed' = managed /\ wl' = wl /\ pc # "restarted" /\ (journal' = journal \/ Written)
         \/ /\ managed' = {} /\ wl' = NoWl
            /\ \/ journal' = journal
               \/ /\ journal'.managed = managed
                  /\ \A q \in Pods : journal'.wl[q].restarts = wl[q].restarts
         \/ /\ managed' = journal.managed /\ wl' = journal.wl
            /\ journal' = journal \/ Written
  PROVE  RestartInv'
<1>1. ASSUME NEW q \in Pods, Leaving(q) PROVE Leaving(q)'
  BY <1>1 DEF Leaving, Doomed
<1>2. ASSUME NEW q \in Pods
      PROVE  /\ wl'[q].restarts \in {wl[q].restarts, journal.wl[q].restarts, 0}
             /\ journal'.wl[q].restarts \in {wl[q].restarts, journal.wl[q].restarts}
  BY DEF NoWl, NoRecord, Written
<1>3. ASSUME NEW q \in Pods \ Native PROVE Uncounted(q)'
  BY <1>2 DEF RestartInv, Uncounted, Current, At, StatusStages
<1>4. ASSUME NEW q \in Pods, Counted(q) PROVE Counted(q)'
  <2> /\ wl[q].restarts \in Int /\ journal.wl[q].restarts \in Int
      /\ podRestarts[q] \in Int
    BY DEF TypeOK, Record, Journals
  <2>1. CASE managed' = managed /\ wl' = wl /\ pc # "restarted"
             /\ (journal' = journal \/ Written)
    BY <1>4, <2>1 DEF Counted, Written
  <2>2. CASE managed' = {}
    BY <1>2, <1>4, <2>2 DEF Counted, Written
  <2>3. CASE managed' = journal.managed /\ wl' = journal.wl
             /\ (journal' = journal \/ Written)
    BY <1>4, <2>3 DEF Counted, Written
  <2> QED
    BY <2>1, <2>2, <2>3
<1>5. ASSUME NEW q \in Pods, Recalled(q) PROVE Recalled(q)'
  BY <1>5 DEF Recalled, Written, NoWl, NoRecord
<1>6. ASSUME NEW q \in Pods, Current(q)' PROVE CountReady(q)' /\ AckReady(q)'
  BY <1>6 DEF Current, CountReady, AckReady, At
<1> QED
  BY <1>1, <1>3, <1>4, <1>5, <1>6 DEF RestartInv

LEMMA RestartStep ==
  ASSUME FaultKinds \cap {"missing", "alias", "persist"} = {}
  PROVE  TypeOK /\ OwnershipInv /\ AcknowledgeInv /\ PhaseInv /\ RestartInv /\ [Next]_vars
           => RestartInv'
<1> SUFFICES ASSUME TypeOK, OwnershipInv, AcknowledgeInv, PhaseInv, RestartInv, [Next]_vars
             PROVE  RestartInv'
  OBVIOUS
<1>0. TypeOK' /\ wl' \in [Pods -> Record] /\ wl \in [Pods -> Record] /\ "persist" \notin FaultKinds
  BY StepType DEF TypeOK
<1>1. CASE StartSession
  <2>1. PICK X \in SUBSET journal.retained, F \in Faulty({"persist"}) :
          StartSession!2!(X, F)
    BY <1>1 DEF StartSession
  <2>2. F = {}
    BY <1>0, FaultyKinds
  <2>3. /\ managed' = journal.managed /\ wl' = journal.wl /\ pc' = "idle"
        /\ journal' = journal \/ journal' = JournalOf(managed', wl', retained', retLog')
    BY <2>1, <2>2
  <2>4. journal' = journal \/ Written
    BY <1>0, <2>3, JournalField, JournalRecord DEF Written
  <2>5. UNCHANGED <<podRestarts, live, born, deleting>> /\ pc' \notin PodStages
    BY <1>1, <2>3 DEF StartSession, api, PodStages
  <2> QED
    BY <2>3, <2>4, <2>5, RestartAside
<1>2. CASE BeginPass
  <2>1. /\ UNCHANGED <<podRestarts, live, born, deleting, managed, wl>> /\ pc = "idle"
        /\ \/ pc' = "idle"
           \/ pc' = "next" /\ todo' = live /\ terminating' = deleting \cap live
        /\ journal' = journal \/ \E F \in Faulty({"persist"}) : Persist(F)
    BY <1>2 DEF BeginPass, api
  <2>2. journal' = journal \/ Written
    BY <1>0, <2>1, PersistWrites
  <2> QED
    BY <2>1, <2>2, RestartAside DEF PodStages
<1>3. CASE BeginSweep
  <2>1. /\ UNCHANGED <<podRestarts, live, born, deleting, managed, wl, journal>>
        /\ pc = "next" /\ pc' = "sweep"
    BY <1>3 DEF BeginSweep, api, memory, disk
  <2> QED
    BY <2>1, RestartAside DEF PodStages
<1>4. CASE EndPass \/ DrainAgain
  <2>1. /\ UNCHANGED <<podRestarts, live, born, deleting, managed, wl>>
        /\ pc \in {"sweep", "drain"} /\ pc' \in {"idle", "drain2"}
        /\ journal' = journal \/ \E K : \E F \in Faulty(K) : Persist(F)
    BY <1>4 DEF EndPass, DrainAgain, PersistDrained, api, memory
  <2>2. journal' = journal \/ Written
    BY <1>0, <2>1, PersistWrites
  <2> QED
    BY <2>1, <2>2, RestartAside DEF PodStages
<1>5. CASE EndSession
  <2>1. /\ UNCHANGED <<podRestarts, live, born, deleting>> /\ pc = "drain2" /\ pc' = "down"
        /\ managed' = {} /\ wl' = NoWl
        /\ journal' \in {journal, JournalOf(managed, wl, retained, retLog)}
    BY <1>5, FileOutcome DEF EndSession, api
  <2>2. \/ journal' = journal
        \/ /\ journal'.managed = managed
           /\ \A q \in Pods : journal'.wl[q].restarts = wl[q].restarts
    BY <1>0, <2>1, JournalField, JournalRecord
  <2> QED
    BY <2>1, <2>2, RestartAside DEF PodStages
<1>6. ASSUME NEW p \in Pods, PodStep(p) PROVE RestartInv'
  <2> USE DEF AddressStages, OwnedStages, PodStages, Stages
  <2>0. TypeOK /\ TypeOK' /\ OwnershipInv /\ AcknowledgeInv /\ RestartInv /\ PodStep(p)
        /\ wl[p] \in Record /\ wl[p].restarts \in Int
    BY <1>0, <1>6 DEF TypeOK, Record
  <2>1. CASE RemoveDeleted(p)
    <3>1. PICK F : LET r == DeletedRecord(p) IN
            IF RemoveFailed(F)
            THEN /\ managed' = managed \cup {p}
                 /\ wl' = [wl EXCEPT ![p] = Torn(p, r, F)]
                 /\ Continue(p)
            ELSE /\ Retain(p, Torn(p, r, F).log)
                 /\ pc' = "deleted" /\ UNCHANGED todo
                 /\ report' = [phase |-> "Failed", ip |-> podIP[p], restarts |-> r.restarts]
      BY <2>1, Zenon DEF RemoveDeleted
    <3>2. /\ At("next", p) /\ p \in terminating
          /\ UNCHANGED <<podRestarts, journal>>
      BY <2>1 DEF RemoveDeleted, api
    <3>3. /\ DeletedRecord(p) \in Record
          /\ wl[p].restarts = 0 => DeletedRecord(p).restarts = 0
          /\ Recalled(p) => \/ DeletedRecord(p).restarts = 0
                            \/ podRestarts[p] <= DeletedRecord(p).restarts
      <4>1. NoRecord \in Record /\ NoRecord.restarts = 0
        BY NoRecordType DEF NoRecord
      <4>2. DeletedRecord(p) \in Record
        BY <2>0, <4>1 DEF DeletedRecord, TypeOK, Record
      <4>3. DeletedRecord(p).restarts = IF p \in managed THEN wl[p].restarts ELSE NoRecord.restarts
        BY <4>1 DEF DeletedRecord, Record
      <4> QED
        BY <4>1, <4>2, <4>3 DEF Recalled
    <3>4. CASE RemoveFailed(F)
      <4>1. wl'[p] = Torn(p, DeletedRecord(p), F) /\ pc' = "next" /\ todo' = todo \ {p}
        BY <2>0, <3>1, <3>4 DEF Continue, TypeOK
      <4>2. wl'[p].restarts = DeletedRecord(p).restarts
        <5>1. Torn(p, DeletedRecord(p), F).restarts = DeletedRecord(p).restarts
          BY <3>3 DEF Torn, Record
        <5> QED
          BY <4>1, <5>1, Zenon
      <4>3. p \notin Native => Uncounted(p)'
        BY <3>2, <3>3, <4>1, <4>2 DEF RestartInv, Uncounted, StatusStages
      <4>4. Recalled(p) => Recalled(p)' /\ AckReady(p)'
        BY <3>2, <3>3, <4>1, <4>2 DEF Recalled, AckReady
      <4> QED
        BY <2>0, <3>2, <4>1, <4>3, <4>4, RestartMove
    <3>5. CASE ~RemoveFailed(F)
      <4>1. /\ wl'[p] = NoRecord /\ pc' = "deleted" /\ todo' = todo
            /\ report'.restarts = DeletedRecord(p).restarts /\ p \notin managed'
        BY <2>0, <3>1, <3>5 DEF Retain, TypeOK
      <4>2. p \notin Native => Uncounted(p)'
        BY <3>2, <3>3, <4>1 DEF RestartInv, Uncounted, NoRecord
      <4>3. Recalled(p) => Recalled(p)' /\ AckReady(p)'
        BY <3>2, <3>3, <4>1 DEF Recalled, AckReady
      <4> QED
        BY <2>0, <3>2, <4>1, <4>2, <4>3, RestartMove
    <3> QED
      BY <3>4, <3>5
  <2>2. CASE PersistRetained(p)
    <3>1. /\ At(pc, p) /\ pc \in {"deleted", "completed"} /\ pc' = "report" /\ todo' = todo
          /\ UNCHANGED <<podRestarts, managed, wl, report, terminating>>
          /\ \E F \in Faulty({"persist"}) : Persist(F)
      BY <2>2 DEF PersistRetained, At, Goto, api, memory, pass
    <3>2. Written
      BY <1>0, <3>1, PersistWrites
    <3>3. Current(p)
      BY <3>1 DEF Current
    <3>4. p \notin Native => Uncounted(p)'
      BY <3>1, <3>2, <3>3 DEF RestartInv, Uncounted, Written, StatusStages
    <3>5. IF p \in terminating THEN pc = "deleted" /\ AckReady(p)
          ELSE pc = "completed" /\ CountReady(p)
      BY <3>1, <3>3 DEF PhaseInv, PhaseReady, Acknowledging, AcknowledgeInv, RestartInv
    <3>6. p \notin terminating => Counted(p)' /\ CountReady(p)'
      BY <3>1, <3>2, <3>5 DEF Counted, CountReady, Written
    <3>7. p \in terminating => Recalled(p)' /\ AckReady(p)'
      BY <3>1, <3>2, <3>5 DEF Recalled, AckReady, Written
    <3> QED
      BY <2>0, <3>1, <3>4, <3>6, <3>7, RestartMove
  <2>3. CASE SkipForeign(p) \/ AdmitKnown(p)
    <3>1. /\ At("next", p) /\ UNCHANGED <<podRestarts, managed, wl>>
          /\ \/ pc' = "next" /\ todo' = todo \ {p}
             \/ pc' = "address" /\ todo' = todo
      BY <2>3 DEF SkipForeign, AdmitKnown, Continue, Goto, api, memory
    <3> QED
      BY <2>0, <3>1, RestartQuiet
  <2>4. CASE RejectUnsupported(p)
    <3>1. /\ At("next", p) /\ pc' = "report" /\ todo' = todo /\ report'.restarts = 0
          /\ UNCHANGED <<podRestarts, wl, managed, journal>> /\ p \notin Native
          /\ p \notin terminating
      BY <2>4 DEF RejectUnsupported, ReportStatus, Native, api, memory, disk
    <3>2. Uncounted(p)
      BY <3>1 DEF RestartInv
    <3>3. Uncounted(p)' /\ (Counted(p) => Counted(p)' /\ CountReady(p)')
      BY <3>1, <3>2 DEF Uncounted, Counted, CountReady, Current, At
    <3> QED
      BY <2>0, <3>1, <3>3, RestartMove
  <2>5. CASE AdmitNew(p)
    <3>1. PICK F \in Faulty({"persist"}) :
            /\ IF "persist" \in F
               THEN wl' = [wl EXCEPT ![p] = Later(FirstRecord(p))] /\ Continue(p)
               ELSE wl' = [wl EXCEPT ![p] = FirstRecord(p)] /\ Goto("address")
            /\ Persist(F)
      BY <2>5 DEF AdmitNew
    <3>2. Written /\ "persist" \notin F
      BY <1>0, <3>1, PersistWrites, FaultyKinds
    <3>3. wl'[p].restarts = podRestarts[p]
      BY <2>0, <3>1, <3>2 DEF TypeOK, FirstRecord, NoRecord
    <3>4. /\ At("next", p) /\ pc' = "address" /\ todo' = todo /\ UNCHANGED podRestarts
          /\ p \in Native /\ p \notin terminating
      BY <2>5, <3>1, <3>2 DEF AdmitNew, Goto, api, Eligible, Native
    <3>5. Counted(p)' /\ CountReady(p)'
      <4>1. podRestarts[p] \in Int
        BY <2>0 DEF TypeOK
      <4> QED
        BY <3>2, <3>3, <3>4, <4>1 DEF Counted, CountReady, Written
    <3> QED
      BY <2>0, <3>4, <3>5, RestartMove
  <2>6. CASE NoAddressLeft(p) \/ RefuseAddress(p)
    BY <2>0, <2>6, RestartQuiet DEF NoAddressLeft, RefuseAddress, ReportStatus, api, memory
  <2>7. CASE AssignAddress(p)
    <3>1. /\ At("address", p) /\ UNCHANGED <<podRestarts, managed>>
          /\ \/ pc' = "next" /\ todo' = todo \ {p}
             \/ pc' = "alias" /\ todo' = todo
      BY <2>7 DEF AssignAddress, Continue, Goto, api
    <3> QED
      BY <2>0, <2>7, <3>1, AssignKeeps, RestartQuiet
  <2>8. CASE AddAlias(p)
    <3>1. At("alias", p) /\ pc' = "inspect" /\ todo' = todo
            /\ UNCHANGED <<podRestarts, managed, wl>>
      BY <2>8, FaultyKinds DEF AddAlias, Goto, api, memory
    <3> QED
      BY <2>0, <3>1, RestartQuiet
  <2>9. CASE Inspect(p)
    <3>1. /\ At("inspect", p) /\ UNCHANGED <<podRestarts, managed>>
          /\ \/ pc' = "next" /\ todo' = todo \ {p}
             \/ /\ todo' = todo /\ pc' \in {"report", "prepare", "exited"}
                /\ pc' = "report" => report'.restarts = wl[p].restarts
          /\ wl' = wl \/ wl' = [wl EXCEPT ![p] = Later(wl[p])]
      BY <2>9 DEF Inspect, Continue, Backoff, ReportStatus, Goto, api
    <3>2. wl'[p].restarts = wl[p].restarts
      BY <2>0, <3>1, RecordFields DEF TypeOK
    <3> QED
      BY <2>0, <3>1, <3>2, RestartQuiet
  <2>10. CASE InspectUnreadable(p)
    <3>1. wl'[p].restarts = wl[p].restarts
      BY <2>0, <2>10, RecordFields DEF InspectUnreadable, TypeOK
    <3> QED
      BY <2>0, <2>10, <3>1, RestartQuiet DEF InspectUnreadable, Continue, api
  <2>11. CASE Complete(p)
    <3>1. /\ At("exited", p) /\ pc' = "completed" /\ todo' = todo
          /\ UNCHANGED <<podRestarts, journal>> /\ managed' = managed \ {p}
          /\ report'.restarts = wl[p].restarts
      BY <2>11 DEF Complete, Retain, api
    <3>2. p \in managed /\ p \in Native /\ p \notin terminating
      BY <3>1 DEF OwnershipInv, AcknowledgeInv, PhaseInv, PhaseReady, Current, At
    <3>3. Counted(p) => Counted(p)' /\ CountReady(p)'
      BY <3>1, <3>2 DEF Counted, CountReady
    <3> QED
      BY <2>0, <3>1, <3>2, <3>3, RestartMove
  <2>12. CASE Restart(p)
    <3>1. At("exited", p) /\ UNCHANGED <<podRestarts, managed, journal>>
      BY <2>12 DEF Restart, api
    <3>2. p \in Native /\ pc = "exited" /\ p \notin terminating
      BY <3>1 DEF AcknowledgeInv, PhaseInv, PhaseReady, Current, At
    <3>3. CASE Continue(p) /\ wl'[p].restarts = wl[p].restarts
      BY <2>0, <3>1, <3>3, RestartQuiet DEF Continue
    <3>4. CASE Goto("restarted") /\ wl'[p].restarts = wl[p].restarts + 1
      <4>1. pc' = "restarted" /\ todo' = todo /\ podRestarts[p] \in Int /\ Current(p)'
        BY <2>0, <3>1, <3>4 DEF Goto, TypeOK, Current, At
      <4>2. Counted(p) => Counted(p)' /\ CountReady(p)'
        BY <2>0, <3>1, <3>4, <4>1 DEF Counted, CountReady
      <4> QED
        BY <2>0, <3>1, <3>2, <4>1, <4>2, RestartMove
    <3> QED
      BY <2>0, <2>12, <3>3, <3>4, RestartKeeps
  <2>13. CASE PersistRestart(p)
    <3>1. PICK F \in Faulty({"persist"}) :
            /\ IF F # {} THEN wl' = [wl EXCEPT ![p] = Later(@)] /\ Continue(p)
                         ELSE Goto("prepare") /\ UNCHANGED wl
            /\ Persist(F)
      BY <2>13 DEF PersistRestart
    <3>2. Written /\ F = {}
      BY <1>0, <3>1, PersistWrites, FaultyKinds
    <3>3. At("restarted", p) /\ UNCHANGED <<podRestarts, managed>>
      BY <2>13 DEF PersistRestart, api
    <3> QED
      BY <2>0, <3>1, <3>2, <3>3, RestartQuiet DEF Goto
  <2>14. CASE Prepare(p)
    <3>1. At("prepare", p) /\ UNCHANGED <<podRestarts, managed>>
      BY <2>14 DEF Prepare, api
    <3> QED
      BY <2>0, <2>14, <3>1, PrepareRecords, PrepareReports, RestartQuiet
  <2>15. CASE PersistMounts(p)
    <3>1. /\ At("mounted", p) /\ UNCHANGED <<podRestarts, managed>> /\ todo' = todo
          /\ wl' = wl \/ wl' = [wl EXCEPT ![p] = Later(wl[p])]
          /\ \/ pc' = "report" /\ report'.restarts = wl[p].restarts
             \/ pc' = "start"
      BY <2>15 DEF PersistMounts, Backoff, ReportStatus, Goto, api
    <3>2. wl'[p].restarts = wl[p].restarts
      BY <2>0, <3>1, RecordFields DEF TypeOK
    <3> QED
      BY <2>0, <3>1, <3>2, RestartQuiet
  <2>16. CASE Start(p)
    <3>1. /\ At("start", p) /\ UNCHANGED <<podRestarts, managed>> /\ todo' = todo
          /\ wl' = wl \/ wl' = [wl EXCEPT ![p] = Later(wl[p])]
          /\ \/ pc' = "report" /\ report'.restarts = wl[p].restarts
             \/ pc' = "wait"
      BY <2>16 DEF Start, Backoff, ReportStatus, Goto, api
    <3>2. wl'[p].restarts = wl[p].restarts
      BY <2>0, <3>1, RecordFields DEF TypeOK
    <3> QED
      BY <2>0, <3>1, <3>2, RestartQuiet
  <2>17. CASE WaitRunning(p)
    BY <2>0, <2>17, RestartQuiet DEF WaitRunning, Goto, api, memory
  <2>18. CASE WaitFailed(p)
    <3>1. wl'[p].restarts = wl[p].restarts
      BY <2>0, <2>18, RecordFields DEF WaitFailed, Backoff, TypeOK
    <3> QED
      BY <2>0, <2>18, <3>1, RestartQuiet DEF WaitFailed, Backoff, ReportStatus, api
  <2>19. CASE PersistStarted(p)
    <3>1. \A F \in Faulty({"persist"} \cup TearKinds(p, wl[p])) : "persist" \notin F
      BY <1>0, FaultyKinds
    <3>2. /\ wl' = [wl EXCEPT ![p] = [wl[p] EXCEPT !.retry = FALSE]]
          /\ ReportStatus("Running", wl[p].ip, wl[p].restarts)
      BY <2>19, <3>1 DEF PersistStarted
    <3>3. LET u == [wl[p] EXCEPT !.retry = FALSE] IN u.restarts = wl[p].restarts
      BY <2>0, RecordFields
    <3>4. wl'[p].restarts = wl[p].restarts
      BY <2>0, <3>2, <3>3 DEF TypeOK
    <3>5. At("started", p) /\ UNCHANGED <<podRestarts, managed>>
      BY <2>19 DEF PersistStarted, api
    <3> QED
      BY <2>0, <3>2, <3>4, <3>5, RestartQuiet DEF ReportStatus
  <2>20. CASE PutStatus(p)
    <3>1. /\ At("report", p) /\ pc' = "next" /\ todo' = todo \ {p}
          /\ UNCHANGED <<managed, wl, journal>>
          /\ podRestarts' \in {podRestarts, [podRestarts EXCEPT ![p] = report.restarts]}
      BY <2>20 DEF PutStatus, memory, disk
    <3>2. /\ \A q \in Pods \ {p} : podRestarts'[q] = podRestarts[q]
          /\ podRestarts'[p] \in {podRestarts[p], report.restarts}
          /\ Current(p) /\ pc = "report"
      BY <2>0, <3>1 DEF TypeOK, Current, At
    <3>3. p \notin Native => Uncounted(p)'
      BY <3>1, <3>2 DEF RestartInv, Uncounted, StatusStages
    <3>4. p \notin terminating /\ Counted(p) => Counted(p)' /\ CountReady(p)'
      BY <3>1, <3>2 DEF RestartInv, CountReady, Counted
    <3>5. p \in terminating /\ Recalled(p) => Recalled(p)' /\ AckReady(p)'
      BY <3>1, <3>2 DEF RestartInv, AckReady, Recalled
    <3> QED
      BY <2>0, <3>1, <3>2, <3>3, <3>4, <3>5, RestartMove
  <2>21. CASE SweepOne(p) \/ DrainOne(p)
    <3>1. PICK F : RemoveManaged(p, F) /\ pc \in {"sweep", "drain", "drain2"}
      BY <2>21 DEF SweepOne, DrainOne
    <3>2. /\ UNCHANGED <<podRestarts, live, born, deleting, journal, pc>>
          /\ \A q \in Pods \ {p} : Untouched(q)
      BY <1>6, <3>1, PodLocal DEF RemoveManaged, api
    <3>3. \/ managed' = managed /\ wl'[p].restarts = wl[p].restarts
          \/ p \notin managed' /\ wl'[p].restarts = 0
      <4>1. CASE RemoveFailed(F)
        <5>1. managed' = managed /\ wl' = [wl EXCEPT ![p] = Torn(p, wl[p], F)]
          BY <3>1, <4>1, Zenon DEF RemoveManaged
        <5>2. Torn(p, wl[p], F).restarts = wl[p].restarts
          BY <2>0 DEF Torn, Record
        <5> QED
          BY <5>1, <5>2 DEF TypeOK
      <4>2. CASE ~RemoveFailed(F)
        BY <2>0, <3>1, <4>2 DEF RemoveManaged, Retain, TypeOK, NoRecord
      <4> QED
        BY <4>1, <4>2
    <3>4. ASSUME NEW q \in Pods PROVE (Leaving(q) => Leaving(q)') /\ ~Current(q) /\ ~Current(q)'
      BY <3>1, <3>2 DEF Leaving, Doomed, Current
    <3>5. ASSUME NEW q \in Pods \ Native PROVE Uncounted(q)'
      BY <3>2, <3>3, <3>4 DEF RestartInv, Uncounted, Untouched
    <3>6. ASSUME NEW q \in Pods, Counted(q) PROVE Counted(q)'
      <4>1. CASE q = p
        BY <3>2, <3>3, <3>4, <3>6, <4>1 DEF Counted
      <4>2. CASE q # p
        BY <3>2, <3>4, <3>6, <4>2 DEF Counted, Untouched
      <4> QED
        BY <4>1, <4>2
    <3>7. ASSUME NEW q \in Pods, Recalled(q) PROVE Recalled(q)'
      <4>1. CASE q = p
        BY <3>2, <3>3, <3>7, <4>1 DEF Recalled
      <4>2. CASE q # p
        BY <3>2, <3>7, <4>2 DEF Recalled, Untouched
      <4> QED
        BY <4>1, <4>2
    <3> QED
      BY <3>4, <3>5, <3>6, <3>7 DEF RestartInv
  <2> QED
    BY <1>6, <2>1, <2>2, <2>3, <2>4, <2>5, <2>6, <2>7, <2>8, <2>9, <2>10, <2>11, <2>12, <2>13,
       <2>14, <2>15, <2>16, <2>17, <2>18, <2>19, <2>20, <2>21 DEF PodStep
<1>7. CASE Environment
  <2>1. CASE Shutdown
    <3>1. /\ UNCHANGED <<podRestarts, live, born, deleting, managed, wl, journal>>
          /\ pc = "idle" /\ pc' = "drain"
      BY <2>1 DEF Shutdown, api, memory, disk
    <3> QED
      BY <3>1, RestartAside DEF PodStages
  <2>2. CASE Crash
    <3>1. /\ UNCHANGED <<podRestarts, live, born, deleting, journal>>
          /\ managed' = {} /\ wl' = NoWl /\ pc' = "down"
      BY <2>2 DEF Crash, api, disk
    <3> QED
      BY <3>1, RestartAside DEF PodStages
  <2>3. ASSUME NEW p \in Pods,
               \/ CreatePod(p) \/ DeletePod(p) \/ RemovePod(p) \/ WorkloadExits(p)
               \/ RetryElapses(p)
        PROVE  RestartInv'
    <3>1. UNCHANGED <<podRestarts, managed, journal, pc, todo, terminating, report>>
      BY <2>3 DEF CreatePod, DeletePod, RemovePod, WorkloadExits, RetryElapses,
                  api, memory, disk, pass
    <3>2. \A q \in Pods : Doomed(q) => Doomed(q)'
      BY <2>3 DEF CreatePod, DeletePod, RemovePod, WorkloadExits, RetryElapses, Doomed,
                  PhaseInv, OwnershipInv, api
    <3>3. \A q \in Pods : wl'[q].restarts = wl[q].restarts
      BY <2>3, RetryKeeps DEF CreatePod, DeletePod, RemovePod, WorkloadExits, memory
    <3> QED
      BY <3>1, <3>2, <3>3 DEF RestartInv, Uncounted, Leaving, Counted, Recalled, CountReady,
                              AckReady, Current, At
  <2>4. CASE Renumber
    <3>1. /\ UNCHANGED <<podRestarts, live, born, deleting, managed, wl, journal, pc>>
          /\ pc = "down"
      BY <2>4 DEF Renumber, memory, disk
    <3> QED
      BY <3>1, RestartAside DEF PodStages
  <2> QED
    BY <1>7, <2>1, <2>2, <2>3, <2>4 DEF Environment
<1>8. CASE UNCHANGED vars
  <2>1. UNCHANGED <<live, born, deleting, podRestarts, managed, wl, journal, pc, todo,
                    terminating, report>>
    BY <1>8 DEF vars, api, memory, disk, pass
  <2> QED
    BY <2>1 DEF RestartInv, Uncounted, Leaving, Doomed, Counted, Recalled, CountReady, AckReady,
                Current, At
<1> QED
  BY <1>1, <1>2, <1>3, <1>4, <1>5, <1>6, <1>7, <1>8 DEF Next, Daemon

-----------------------------------------------------------------------------
\* The refinement

\* What PodLifecycle sees of the manager
Running == {p \in Pods : box[p] = "running"}
Gone    == {p \in born : p \in live => p \in deleting}

LifecycleInv == TypeOK /\ OwnershipInv /\ AcknowledgeInv /\ PhaseInv /\ RestartInv

LEMMA InitLifecycle == Init => Lifecycle!Init
BY DEF Init, Lifecycle!Init

\* A step that changes nothing the API server shows, and one container at most, starts a
\* workload, stops one, or cannot be seen.
LEMMA BoxLifecycle ==
  ASSUME TypeOK, UNCHANGED api, NEW p \in Pods, \A q \in Pods \ {p} : box'[q] = box[q],
         box'[p] = "running" /\ box[p] # "running" =>
           p \in Native /\ phase[p] \notin Final /\ ~Refused(p)
  PROVE  Lifecycle!Next \/ UNCHANGED Lifecycle!vars
<1>1. UNCHANGED <<phase, podRestarts, Gone>>
  BY DEF api, Gone
<1>2. CASE (box'[p] = "running") = (box[p] = "running")
  <2>1. UNCHANGED Running
    BY <1>2 DEF Running
  <2> QED
    BY <1>1, <2>1 DEF Lifecycle!vars, Running, Gone
<1>3. CASE box'[p] = "running" /\ box[p] # "running"
  <2>1. Running' = Running \cup {p} /\ p \notin Running
    BY <1>3 DEF Running
  <2> QED
    BY <1>1, <1>3, <2>1
       DEF Lifecycle!Next, Lifecycle!Run, Lifecycle!Finished, Lifecycle!Final, Final, Native,
           Running, Gone
<1>4. CASE box'[p] # "running" /\ box[p] = "running"
  <2>1. Running' = Running \ {p} /\ p \in Running
    BY <1>4 DEF Running
  <2> QED
    BY <1>1, <2>1 DEF Lifecycle!Next, Lifecycle!Halt, Running, Gone
<1> QED
  BY <1>2, <1>3, <1>4

\* Only Start starts a workload.
LEMMA OnlyStartRuns ==
  ASSUME TypeOK, NEW p \in Pods, PodStep(p), box'[p] = "running", box[p] # "running"
  PROVE  Start(p)
<1> SUFFICES ASSUME ~Start(p) PROVE FALSE
  OBVIOUS
<1>1. (\E F : StopContainer(p, F)) => FALSE
  BY StopQuiet
<1>2. (\E r, F : RemoveWorkload(p, r, F)) => FALSE
  BY <1>1 DEF RemoveWorkload
<1>3. box' # box
  OBVIOUS
<1> USE DEF host
<1>4. ~RemoveDeleted(p) /\ ~PersistStarted(p)
  BY <1>2, <1>3 DEF RemoveDeleted, PersistStarted
<1>5. ~Complete(p) /\ ~Restart(p) /\ ~WaitFailed(p)
  <2>1. ~Restart(p)
    BY <1>1, Zenon DEF Restart
  <2> QED
    BY <1>1, <2>1 DEF Complete, WaitFailed
<1>6. ~SweepOne(p) /\ ~DrainOne(p)
  BY <1>2 DEF SweepOne, DrainOne, RemoveManaged
<1>7. /\ ~PersistRetained(p) /\ ~SkipForeign(p) /\ ~RejectUnsupported(p) /\ ~AdmitNew(p)
      /\ ~AdmitKnown(p) /\ ~NoAddressLeft(p) /\ ~RefuseAddress(p) /\ ~AssignAddress(p)
      /\ ~AddAlias(p)
  BY <1>3 DEF PersistRetained, SkipForeign, RejectUnsupported, AdmitNew, AdmitKnown,
              NoAddressLeft, RefuseAddress, AssignAddress, AddAlias
<1>8. /\ ~Inspect(p) /\ ~InspectUnreadable(p) /\ ~PersistRestart(p) /\ ~Prepare(p)
      /\ ~PersistMounts(p) /\ ~WaitRunning(p) /\ ~PutStatus(p)
  BY <1>3 DEF Inspect, InspectUnreadable, PersistRestart, Prepare, PersistMounts, WaitRunning,
              PutStatus
<1> QED
  BY <1>4, <1>5, <1>6, <1>7, <1>8 DEF PodStep

\* A status that reaches the API server acknowledges a deletion, finishes the Pod, is one
\* of a Pod that has not finished, or refuses the address of the Pod.
LEMMA PutLifecycle ==
  ASSUME LifecycleInv, NEW p \in Pods, PutStatus(p)
  PROVE  Lifecycle!Next \/ UNCHANGED Lifecycle!vars
<1> USE DEF LifecycleInv
<1>1. /\ At("report", p) /\ Current(p) /\ pc = "report"
      /\ UNCHANGED <<live, born, deleting, box>>
  BY DEF PutStatus, Current, At, PodStages, Stages, host
<1>2. UNCHANGED <<Running, Gone>>
  BY <1>1 DEF Running, Gone
<1>3. CASE UNCHANGED <<phase, podRestarts>>
  BY <1>2, <1>3 DEF Lifecycle!vars, Running, Gone
<1>4. CASE /\ phase' = [phase EXCEPT ![p] = report.phase]
           /\ podRestarts' = [podRestarts EXCEPT ![p] = report.restarts]
  <2>1. podRestarts'[p] = report.restarts
    BY <1>4 DEF TypeOK
  <2>2. podRestarts' = [podRestarts EXCEPT ![p] = podRestarts'[p]]
    BY <1>4, <2>1
  <2>3. p \notin terminating => podRestarts'[p] >= podRestarts[p]
    BY <1>1, <2>1 DEF RestartInv, CountReady, TypeOK, Report
  <2>4. CASE Acknowledging(p)
    <3>1. p \in Gone \ Running
      BY <1>1, <2>4 DEF Acknowledging, AcknowledgeInv, OwnershipInv, Doomed, Gone, Running
    <3>2. \/ podRestarts'[p] >= podRestarts[p]
          \/ podRestarts' = [podRestarts EXCEPT ![p] = 0]
      BY <1>1, <1>4, <2>1, <2>4 DEF Acknowledging, RestartInv, AckReady, TypeOK, Report
    <3> QED
      BY <1>2, <1>4, <2>2, <2>4, <3>1, <3>2
         DEF Lifecycle!Next, Lifecycle!Acknowledge, Lifecycle!Add, Acknowledging, Running, Gone
  <2>5. CASE Finishing(p)
    <3>1. p \in Native \ Running
      BY <2>5 DEF Finishing, Running
    <3> QED
      BY <1>2, <1>4, <2>2, <2>3, <2>5, <3>1
         DEF Lifecycle!Next, Lifecycle!Finish, Lifecycle!Add, Lifecycle!Finished,
             Lifecycle!Final, Final, Finishing, Running, Gone, Native
  <2>6. CASE Progressing(p)
    <3>1. report.phase \in {"Pending"} \cup (IF p \in Native THEN {"Running"} ELSE {})
      BY <2>6 DEF Progressing
    <3> QED
      BY <1>2, <1>4, <2>2, <2>3, <2>6, <3>1
         DEF Lifecycle!Next, Lifecycle!Report, Lifecycle!Add, Lifecycle!Finished,
             Lifecycle!Final, Final, Progressing, Running, Gone, Native
  <2>7. CASE Retracting(p)
    BY <1>2, <1>4, <2>2, <2>3, <2>7
       DEF Lifecycle!Next, Lifecycle!Refuse, Lifecycle!Add, Retracting, Running, Gone
  <2> QED
    BY <1>1, <2>4, <2>5, <2>6, <2>7 DEF PhaseInv, PhaseReady
<1> QED
  BY <1>3, <1>4 DEF PutStatus

LEMMA LifecycleStep ==
  LifecycleInv /\ [Next]_vars => Lifecycle!Next \/ UNCHANGED Lifecycle!vars
<1> SUFFICES ASSUME LifecycleInv, [Next]_vars PROVE Lifecycle!Next \/ UNCHANGED Lifecycle!vars
  OBVIOUS
<1> USE DEF LifecycleInv
<1>0. live \subseteq born /\ deleting \subseteq live
  BY DEF OwnershipInv, PhaseInv
<1>1. CASE UNCHANGED <<api, box>>
  BY <1>1 DEF Lifecycle!vars, api
<1>2. ASSUME NEW p \in Pods, PodStep(p) PROVE Lifecycle!Next \/ UNCHANGED Lifecycle!vars
  <2>1. CASE PutStatus(p)
    BY <2>1, PutLifecycle
  <2>2. CASE ~PutStatus(p)
    <3>1. UNCHANGED api
      <4>1. Restart(p) => UNCHANGED api
        BY Zenon DEF Restart
      <4> QED
        BY <1>2, <2>2, <4>1
           DEF PodStep, RemoveDeleted, PersistRetained, SkipForeign, RejectUnsupported, AdmitNew,
               AdmitKnown, NoAddressLeft, RefuseAddress, AssignAddress, AddAlias, Inspect,
               InspectUnreadable, Complete, PersistRestart, Prepare, PersistMounts, Start,
               WaitRunning, WaitFailed, PersistStarted, SweepOne, DrainOne, RemoveManaged
    <3>2. \A q \in Pods \ {p} : box'[q] = box[q]
      BY <1>2, PodLocal DEF Untouched
    <3>3. Start(p) => p \in Native /\ phase[p] \notin Final /\ ~Refused(p)
      BY DEF Start, PhaseInv, PhaseReady, Current, At, OwnedStages, BusyStages, AddressStages,
             PodStages, Stages
    <3> QED
      BY <1>2, <3>1, <3>2, <3>3, OnlyStartRuns, BoxLifecycle
  <2> QED
    BY <2>1, <2>2
<1>3. ASSUME NEW p \in Pods, CreatePod(p) PROVE UNCHANGED Lifecycle!vars
  <2>1. UNCHANGED <<phase, podRestarts, box>>
    BY <1>3 DEF CreatePod, host
  <2>2. UNCHANGED Gone
    BY <1>0, <1>3 DEF CreatePod, Gone
  <2> QED
    BY <2>1, <2>2 DEF Lifecycle!vars, Gone
<1>4. ASSUME NEW p \in Pods, DeletePod(p) \/ RemovePod(p) PROVE Lifecycle!Next
  <2>1. UNCHANGED <<phase, podRestarts, box>>
    BY <1>4 DEF DeletePod, RemovePod, host
  <2>2. Gone' = Gone \cup {p}
    BY <1>0, <1>4 DEF DeletePod, RemovePod, Gone
  <2> QED
    BY <2>1, <2>2 DEF Lifecycle!Next, Lifecycle!Doom, Gone
<1>5. ASSUME NEW p \in Pods, WorkloadExits(p)
      PROVE  Lifecycle!Next \/ UNCHANGED Lifecycle!vars
  <2>1. /\ UNCHANGED api /\ box[p] = "running"
        /\ \A q \in Pods \ {p} : box'[q] = box[q]
    BY <1>5 DEF WorkloadExits, TypeOK
  <2> QED
    BY <2>1, BoxLifecycle
<1>6. CASE \/ StartSession \/ BeginPass \/ BeginSweep \/ EndPass \/ DrainAgain \/ EndSession
           \/ Shutdown \/ Crash \/ UNCHANGED vars
  <2>1. UNCHANGED <<api, box>>
    BY <1>6 DEF StartSession, BeginPass, BeginSweep, EndPass, DrainAgain, EndSession, Shutdown,
                Crash, vars, host
  <2> QED
    BY <1>1, <2>1
<1>7. ASSUME NEW p \in Pods, RetryElapses(p) PROVE UNCHANGED Lifecycle!vars
  <2>1. UNCHANGED <<api, box>>
    BY <1>7 DEF RetryElapses, host
  <2> QED
    BY <2>1 DEF Lifecycle!vars, api
<1>8. CASE Renumber
  <2>1. UNCHANGED <<live, born, deleting, phase, podRestarts, box>>
    BY <1>8 DEF Renumber, host
  <2> QED
    BY <2>1 DEF Lifecycle!vars
<1> QED
  BY <1>2, <1>3, <1>4, <1>5, <1>6, <1>7, <1>8 DEF Next, Daemon, Environment

\* The manager implements PodLifecycle, whatever else fails and whenever the daemon is
\* killed or drained or the Node renumbered, as long as Macker can be executed, an alias can
\* be configured and the journal can be written: a Pod finishes once, with nothing of it
\* running, stays finished until its deletion is acknowledged or its address refused, runs
\* on no refused address, and restarts are only ever added, but for an acknowledgement that
\* starts from zero (the terminal-phase check, validateWorkloadAddress and the deletion
\* branch of reconcile, RestartCount in the journal).
THEOREM ManagerImplementsLifecycle ==
  ASSUME FaultKinds \cap {"missing", "alias", "persist"} = {}
  PROVE  Spec => LifecycleKept
<1>1. Init => LifecycleInv
  BY InitType, OwnershipInit, AcknowledgeInit, PhaseInit, RestartInit DEF LifecycleInv
<1>2. LifecycleInv /\ [Next]_vars => LifecycleInv'
  BY StepType, OwnershipStep, AcknowledgeStep, PhaseStep, RestartStep DEF LifecycleInv
<1>3. LifecycleInv /\ [Next]_vars => [Lifecycle!Next]_(Lifecycle!vars)
  BY LifecycleStep
<1> QED
  BY <1>1, <1>2, <1>3, InitLifecycle, PTL DEF Spec, LifecycleKept, Lifecycle!Spec
=============================================================================
