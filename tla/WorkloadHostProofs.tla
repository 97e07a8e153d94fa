------------------------- MODULE WorkloadHostProofs -------------------------
(* Theorems about what WorkloadManager does to the Mac, for every set of Pods, *)
(* policies, addresses and bounds: the addresses workloads run on and the NFS  *)
(* exports they need.                                                          *)
EXTENDS WorkloadManagerProofs

-----------------------------------------------------------------------------
\* Addresses

\* Pods with an address of their own
Ordinary == Pods \ HostNetwork

\* The Pod may have this address: it reports it already, or it reports none, and the pass
\* has taken the address for it while nobody reports it.
Claim(p, a) ==
  \/ a = podIP[p]
  \/ /\ podIP[p] = NoIP /\ a \in Addresses \cap used
     /\ \A q \in live \cap Ordinary : podIP[q] # a

\* Where the address of a Pod that is being handled is to be found
Holding(p) ==
  /\ pc \in AddressStages => wl[p].ip # NoIP /\ Claim(p, wl[p].ip)
  /\ pc \in StatusStages =>
       Claim(p, report.ip) /\ (report.phase = "Running" => report.ip # NoIP)
  /\ p \in live /\ box[p] = "running" =>
       /\ boxIP[p] # NoIP
       /\ \/ boxIP[p] = podIP[p]
          \/ pc \in {"wait", "started"} /\ boxIP[p] = wl[p].ip
          \/ pc = "report" /\ boxIP[p] = report.ip

\* Why UniqueAddresses and AddressReported hold: this pass knows every reported address
\* as used, no two Pods report the same, a running workload is on the address its Pod
\* reports, and the Pod being started holds an address nobody reports.
AddressInv ==
  /\ live \subseteq born
  /\ \A p \in Pods \ born : podIP[p] = NoIP /\ phase[p] # "Running" /\ box[p] = "none"
  /\ pc \in PodStages =>
       todo \subseteq born /\ \A p \in live \cap Ordinary : podIP[p] \in used \cup {NoIP}
  /\ \A p, q \in live \cap Ordinary : podIP[p] = podIP[q] /\ podIP[p] # NoIP => p = q
  /\ \A p \in live \cap Ordinary : phase[p] = "Running" => podIP[p] # NoIP
  /\ \A p \in Ordinary : Current(p) => Holding(p)
  /\ \A p \in live \cap Ordinary :
       box[p] = "running" /\ ~Current(p) => boxIP[p] = podIP[p] /\ podIP[p] # NoIP

LEMMA AddressInit == Init => AddressInv
<1> SUFFICES ASSUME Init PROVE AddressInv
  OBVIOUS
<1>1. /\ live = {} /\ pc = "down" /\ born = {}
      /\ \A p \in Pods : box[p] = "none" /\ podIP[p] = NoIP /\ phase[p] = "Pending"
  BY DEF Init
<1> QED
  BY <1>1 DEF AddressInv, Current, PodStages

\* A step of the Pod loop keeps the invariant when it leaves the other containers alone
\* and the Pod holds its address afterwards.
LEMMA AddressMove ==
  ASSUME TypeOK, AddressInv, NEW p \in Pods, NEW s \in PodStages, At(s, p),
         UNCHANGED <<live, born, phase, podIP>>, used \subseteq used',
         \/ todo' = todo /\ pc' # "next"
         \/ pc' = "next" /\ todo' = todo \ {p},
         \A q \in Pods \ {p} : box'[q] = box[q] /\ boxIP'[q] = boxIP[q],
         p \in Ordinary => Holding(p)'
  PROVE  AddressInv'
<1>1. pc = s /\ p \in todo /\ p \in born
  BY DEF At, AddressInv
<1>2. \A q \in Pods : Current(q)' /\ q # p => pc' = "next"
  BY OneCurrent
<1>3. \A q \in Pods \ {p} : ~Current(q)
  BY <1>1, PodsAssumption DEF Current, At
<1>4. ASSUME NEW q \in Ordinary, Current(q)' PROVE Holding(q)'
  <2>1. CASE q = p
    BY <2>1
  <2>2. CASE q # p
    <3>1. pc' = "next"
      BY <1>2, <1>4, <2>2 DEF Ordinary
    <3>2. q \in live /\ box[q] = "running" => boxIP[q] = podIP[q] /\ podIP[q] # NoIP
      BY <1>3, <2>2 DEF AddressInv, Ordinary
    <3> QED
      BY <2>2, <3>1, <3>2 DEF Holding, AddressStages, OwnedStages, StatusStages, Ordinary
  <2> QED
    BY <2>1, <2>2
<1>5. ASSUME NEW q \in live \cap Ordinary, box'[q] = "running", ~Current(q)'
      PROVE  boxIP'[q] = podIP[q] /\ podIP[q] # NoIP
  <2>1. CASE q # p
    BY <1>3, <1>5, <2>1 DEF AddressInv, Ordinary
  <2>2. CASE q = p
    <3>1. pc' = "next" \/ pc' \notin PodStages
      BY <1>1, <1>5, <2>2 DEF Current, At
    <3>2. pc' \notin {"wait", "started", "report"}
      BY <3>1 DEF PodStages, Stages
    <3> QED
      BY <1>5, <2>2, <3>2 DEF Holding
  <2> QED
    BY <2>1, <2>2
<1>6. \A q \in Pods \ born : box'[q] = "none"
  BY <1>1 DEF AddressInv
<1>7. /\ pc' \in PodStages => todo' \subseteq born
      /\ \A q \in live \cap Ordinary : podIP[q] \in used' \cup {NoIP}
  BY <1>1 DEF AddressInv
<1> QED
  BY <1>4, <1>5, <1>6, <1>7 DEF AddressInv

\* The common case: no container starts, and the Pod keeps what it holds.
LEMMA AddressQuiet ==
  ASSUME TypeOK, AddressInv, NEW p \in Pods, NEW s \in PodStages \ {"report"}, At(s, p),
         UNCHANGED <<live, born, phase, podIP, used, boxIP>>,
         \/ todo' = todo /\ pc' # "next"
         \/ pc' = "next" /\ todo' = todo \ {p} /\ s \notin {"wait", "started"},
         \A q \in Pods \ {p} : box'[q] = box[q],
         box'[p] = "running" => box[p] = "running",
         pc' \in AddressStages => s \in AddressStages /\ wl'[p].ip = wl[p].ip,
         pc' \in StatusStages =>
           \/ s \in AddressStages /\ report'.ip = wl[p].ip
           \/ report'.ip = podIP[p] /\ report'.phase # "Running" /\ s \notin AddressStages
           \/ s \in StatusStages /\ report' = report,
         s \in {"wait", "started"} => pc' \in {"started", "report"}
  PROVE  AddressInv'
<1>1. pc = s /\ Current(p)
  BY DEF At, Current
<1> SUFFICES ASSUME p \in Ordinary PROVE Holding(p)'
  BY AddressMove
<1>2. Holding(p)
  BY <1>1 DEF AddressInv
<1>3. /\ wl'[p].ip = wl[p].ip /\ Claim(p, wl[p].ip) => Claim(p, wl[p].ip)'
      /\ report'.ip = wl[p].ip /\ Claim(p, wl[p].ip) => Claim(p, report.ip)'
      /\ report'.ip = podIP[p] => Claim(p, report.ip)'
      /\ report' = report /\ Claim(p, report.ip) => Claim(p, report.ip)'
  BY DEF Claim
<1>4. pc' \in AddressStages => wl'[p].ip # NoIP /\ Claim(p, wl[p].ip)'
  BY <1>1, <1>2, <1>3 DEF Holding
<1>6. pc' \in StatusStages =>
        Claim(p, report.ip)' /\ (report'.phase = "Running" => report'.ip # NoIP)
  BY <1>1, <1>2, <1>3 DEF Holding
<1>7. ASSUME p \in live, box'[p] = "running"
      PROVE  /\ boxIP[p] # NoIP
             /\ \/ boxIP[p] = podIP[p]
                \/ pc' \in {"wait", "started"} /\ boxIP[p] = wl'[p].ip
                \/ pc' = "report" /\ boxIP[p] = report'.ip
  BY <1>1, <1>2, <1>7 DEF Holding, AddressStages, OwnedStages, StatusStages, PodStages
<1> QED
  BY <1>4, <1>6, <1>7 DEF Holding

\* Outside the Pod loop a step only stops containers.
LEMMA AddressAside ==
  ASSUME AddressInv, \A q \in Pods : ~Current(q), pc' \notin PodStages,
         UNCHANGED <<live, born, phase, podIP, boxIP>>,
         \A q \in Pods : box'[q] = "running" => box[q] = "running",
         \A q \in Pods : box[q] = "none" => box'[q] = "none"
  PROVE  AddressInv'
<1>1. \A q \in Pods : ~Current(q)'
  BY DEF Current
<1> QED
  BY <1>1 DEF AddressInv, Ordinary

\* A removal of the sweep or of the drain.
LEMMA AddressRemove ==
  ASSUME TypeOK, AddressInv, pc \in {"sweep", "drain", "drain2"}, NEW p \in Pods, NEW F,
         RemoveManaged(p, F)
  PROVE  AddressInv'
<1>1. /\ pc' = pc /\ UNCHANGED <<live, born, phase, podIP>>
      /\ StopContainer(p, F)
  BY DEF RemoveManaged, RemoveWorkload, api
<1>2. boxIP' = boxIP
  BY <1>1 DEF StopContainer
<1> QED
  BY <1>1, <1>2, StopQuiet, AddressAside DEF Current, PodStages

\* The status of a Pod reaches the API server.
LEMMA AddressPut ==
  ASSUME TypeOK, AddressInv, "put" \notin FaultKinds, NEW p \in Pods, PutStatus(p)
  PROVE  AddressInv'
<1>1. /\ At("report", p) /\ pc = "report" /\ Current(p)
      /\ UNCHANGED <<live, born, box, boxIP, used>>
      /\ pc' = "next" /\ todo' = todo \ {p}
  BY DEF PutStatus, Current, PodStages, Stages, At, host, pass
<1>2. \A q \in Pods \ {p} : podIP'[q] = podIP[q] /\ phase'[q] = phase[q] /\ ~Current(q)
  BY <1>1, PodsAssumption DEF PutStatus, Current, At, TypeOK
<1>3. CASE p \notin live
  <2>1. podIP' = podIP /\ phase' = phase
    BY <1>3 DEF PutStatus
  <2>2. \A q \in live \cap Ordinary :
          box[q] = "running" => boxIP[q] = podIP[q] /\ podIP[q] # NoIP
    BY <1>2, <1>3 DEF AddressInv, Ordinary
  <2>3. \A q \in Ordinary : Holding(q)'
    BY <1>1, <2>1, <2>2 DEF Holding, AddressStages, OwnedStages, StatusStages
  <2> QED
    BY <1>1, <2>1, <2>2, <2>3 DEF AddressInv, PodStages, Stages
<1>4. CASE p \in live
  <2>1. /\ phase'[p] = report.phase /\ podIP'[p] = report.ip
    BY <1>4, FaultyKinds DEF PutStatus, TypeOK
  <2>2. p \in Ordinary =>
          /\ Claim(p, report.ip) /\ (report.phase = "Running" => report.ip # NoIP)
          /\ box[p] = "running" => boxIP[p] = report.ip /\ report.ip # NoIP
    <3> SUFFICES ASSUME p \in Ordinary
                 PROVE  /\ Claim(p, report.ip)
                        /\ report.phase = "Running" => report.ip # NoIP
                        /\ box[p] = "running" => boxIP[p] = report.ip /\ report.ip # NoIP
      OBVIOUS
    <3>1. Holding(p)
      BY <1>1 DEF AddressInv
    <3> QED
      BY <1>1, <1>4, <3>1 DEF Holding, StatusStages, Claim
  <2>3. p \in Ordinary =>
          /\ report.ip \in used \cup {NoIP}
          /\ \A q \in (live \cap Ordinary) \ {p} :
               podIP[q] = report.ip /\ report.ip # NoIP => FALSE
    BY <1>1, <1>4, <2>2 DEF Claim, AddressInv, PodStages, Stages
  <2>4. \A q \in live \cap Ordinary :
          box[q] = "running" => boxIP[q] = podIP'[q] /\ podIP'[q] # NoIP
    BY <1>2, <2>1, <2>2 DEF AddressInv, Ordinary
  <2>5. \A q \in Ordinary : Holding(q)'
    BY <1>1, <2>4 DEF Holding, AddressStages, OwnedStages, StatusStages
  <2>6. /\ todo' \subseteq born
        /\ \A q \in live \cap Ordinary : podIP'[q] \in used \cup {NoIP}
    BY <1>1, <1>2, <2>1, <2>3 DEF AddressInv, PodStages, Stages, Ordinary
  <2>7. \A q, r \in live \cap Ordinary : podIP'[q] = podIP'[r] /\ podIP'[q] # NoIP => q = r
    <3> SUFFICES ASSUME NEW q \in live \cap Ordinary, NEW r \in live \cap Ordinary, q # r,
                        podIP'[q] = podIP'[r], podIP'[q] # NoIP
                 PROVE  FALSE
      OBVIOUS
    <3>1. CASE q # p /\ r # p
      BY <1>2, <3>1 DEF AddressInv, Ordinary
    <3>2. CASE q = p
      BY <1>2, <2>1, <2>3, <3>2 DEF Ordinary
    <3>3. CASE r = p
      BY <1>2, <2>1, <2>3, <3>3 DEF Ordinary
    <3> QED
      BY <3>1, <3>2, <3>3
  <2>8. \A q \in live \cap Ordinary : phase'[q] = "Running" => podIP'[q] # NoIP
    BY <1>2, <2>1, <2>2 DEF AddressInv, Ordinary
  <2>9. live \subseteq born /\ p \notin Pods \ born
    BY <1>4 DEF AddressInv
  <2>10. \A q \in Pods \ born : podIP'[q] = NoIP /\ phase'[q] # "Running" /\ box[q] = "none"
    BY <1>2, <2>9 DEF AddressInv
  <2> QED
    BY <1>1, <2>4, <2>5, <2>6, <2>7, <2>8, <2>9, <2>10 DEF AddressInv
<1> QED
  BY <1>3, <1>4

\* The address a pass chooses is one the Pod may have.
LEMMA AddressAssign ==
  ASSUME TypeOK, AddressInv, NEW p \in Pods, AssignAddress(p) PROVE AddressInv'
<1>1. /\ At("address", p) /\ pc = "address" /\ Current(p)
      /\ UNCHANGED <<live, born, phase, podIP, box, boxIP>>
      /\ used' = IF NeedsAddress(p) THEN used \cup {ChosenIP(p)} ELSE used
      /\ ~(NeedsAddress(p) /\ Free = {})
  BY DEF AssignAddress, Current, PodStages, Stages, At, api
<1>2. \/ pc' = "alias" /\ todo' = todo /\ wl' = [wl EXCEPT ![p] = [wl[p] EXCEPT !.ip = ChosenIP(p)]]
      \/ pc' = "next" /\ todo' = todo \ {p}
  BY DEF AssignAddress, Continue, Goto
<1>3. p \in Ordinary => Holding(p)'
  <2> SUFFICES ASSUME p \in Ordinary PROVE Holding(p)'
    OBVIOUS
  <2>1. p \in live /\ box[p] = "running" => boxIP[p] = podIP[p] /\ podIP[p] # NoIP
    <3>1. Holding(p)
      BY <1>1 DEF AddressInv
    <3> QED
      BY <1>1, <3>1 DEF Holding
  <2>2. CASE pc' = "next"
    BY <1>1, <2>1, <2>2 DEF Holding, AddressStages, OwnedStages, StatusStages
  <2>3. CASE pc' = "alias"
    <3>1. wl'[p].ip = ChosenIP(p)
      BY <1>2, <2>3 DEF TypeOK, Record
    <3>2. CASE podIP[p] # NoIP
      <4>1. ChosenIP(p) = podIP[p]
        BY <3>2 DEF ChosenIP, Ordinary
      <4> QED
        BY <1>1, <2>1, <2>3, <3>1, <3>2, <4>1 DEF Holding, Claim, StatusStages
    <3>3. CASE podIP[p] = NoIP
      <4>1. NeedsAddress(p) /\ ChosenIP(p) = FirstFree
        BY <3>3 DEF NeedsAddress, ChosenIP, Ordinary
      <4>2. FirstFree \in Addresses /\ FirstFree \notin used /\ FirstFree # NoIP
        BY <1>1, <4>1, FirstFreeType, AddressesAssumption DEF Free, TypeOK
      <4>3. \A q \in live \cap Ordinary : podIP[q] # FirstFree
        BY <1>1, <4>2 DEF AddressInv, PodStages, Stages
      <4> HIDE DEF FirstFree
      <4> QED
        BY <1>1, <2>1, <2>3, <3>1, <3>3, <4>1, <4>2, <4>3 DEF Holding, Claim, StatusStages
    <3> QED
      BY <3>2, <3>3
  <2> QED
    BY <1>2, <2>2, <2>3
<1>4. \/ todo' = todo /\ pc' # "next"
      \/ pc' = "next" /\ todo' = todo \ {p}
  BY <1>2
<1>5. used \subseteq used'
  BY <1>1
<1> QED
  BY <1>1, <1>3, <1>4, <1>5, AddressMove DEF Current

\* The workload is started with the address its Pod holds.
LEMMA AddressStart ==
  ASSUME TypeOK, AddressInv, NEW p \in Pods, Start(p) PROVE AddressInv'
<1>1. /\ At("start", p) /\ pc = "start" /\ Current(p)
      /\ UNCHANGED <<live, born, phase, podIP, used, todo>>
  BY DEF Start, Backoff, ReportStatus, Goto, Current, PodStages, Stages, At, api, pass
<1>2. CASE pc' = "report"
  <2>1. box' = box /\ boxIP' = boxIP /\ report'.ip = wl[p].ip
    BY <1>2 DEF Start, Backoff, ReportStatus, Goto
  <2> QED
    BY <1>1, <1>2, <2>1, AddressQuiet DEF AddressStages, OwnedStages, StatusStages, Current
<1>3. CASE pc' # "report"
  <2>1. /\ pc' = "wait" /\ wl' = wl
        /\ box' = [box EXCEPT ![p] = "running"]
        /\ boxIP' = [boxIP EXCEPT ![p] = wl[p].ip]
    BY <1>3 DEF Start, Backoff, ReportStatus, Goto, RunIP
  <2>2. p \in Ordinary => Holding(p)'
    <3> SUFFICES ASSUME p \in Ordinary PROVE Holding(p)'
      OBVIOUS
    <3>1. Holding(p)
      BY <1>1 DEF AddressInv
    <3>2. wl[p].ip # NoIP /\ Claim(p, wl[p].ip)
      BY <1>1, <3>1 DEF Holding, AddressStages, OwnedStages
    <3>3. Claim(p, wl[p].ip)' /\ boxIP'[p] = wl[p].ip
      BY <1>1, <2>1, <3>2 DEF Claim, TypeOK
    <3> QED
      BY <1>1, <2>1, <3>2, <3>3 DEF Holding, StatusStages
  <2>3. \A q \in Pods \ {p} : box'[q] = box[q] /\ boxIP'[q] = boxIP[q]
    BY <2>1 DEF TypeOK
  <2> QED
    BY <1>1, <2>1, <2>2, <2>3, AddressMove DEF Current
<1> QED
  BY <1>2, <1>3

LEMMA AddressStep ==
  ASSUME "put" \notin FaultKinds, "crash" \notin FaultKinds
  PROVE  TypeOK /\ AddressInv /\ [Next]_vars => AddressInv'
<1> SUFFICES ASSUME TypeOK, AddressInv, [Next]_vars PROVE AddressInv'
  OBVIOUS
<1>1. CASE StartSession
  <2>1. pc = "down" /\ UNCHANGED <<live, born, phase, podIP, box, boxIP, todo>>
    BY <1>1 DEF StartSession, api
  <2>2. pc' \in {"down", "idle"}
    BY <1>1 DEF StartSession
  <2> QED
    BY <2>1, <2>2, AddressAside DEF Current, PodStages
<1>2. CASE BeginPass
  <2>1. pc = "idle" /\ UNCHANGED <<live, born, phase, podIP, box, boxIP>>
    BY <1>2 DEF BeginPass, api, host
  <2>2. \/ pc' = "idle"
        \/ pc' = "next" /\ todo' = live /\ used' = ReportedIPs
    BY <1>2 DEF BeginPass
  <2>3. CASE pc' = "idle"
    BY <2>1, <2>3, AddressAside DEF Current, PodStages
  <2>4. CASE pc' = "next" /\ todo' = live /\ used' = ReportedIPs
    <3>1. \A q \in live \cap Ordinary : podIP[q] \in used' \cup {NoIP}
      BY <2>4 DEF ReportedIPs
    <3>2. \A q \in Ordinary : Holding(q)'
      BY <2>1, <2>4
         DEF Holding, AddressInv, Current, PodStages, AddressStages, OwnedStages, StatusStages
    <3> QED
      BY <2>1, <2>4, <3>1, <3>2 DEF AddressInv, Current, PodStages
  <2> QED
    BY <2>2, <2>3, <2>4
<1>3. CASE BeginSweep
  <2>1. \A q \in Pods : ~Current(q)
    BY <1>3 DEF BeginSweep, Current, At
  <2> QED
    BY <1>3, <2>1, AddressAside DEF BeginSweep, PodStages, api, host
<1>4. CASE EndPass
  BY <1>4, AddressAside DEF EndPass, Current, PodStages, api, host
<1>5. CASE DrainAgain
  BY <1>5, AddressAside DEF DrainAgain, Current, PodStages, api, host
<1>6. CASE EndSession
  BY <1>6, AddressAside DEF EndSession, Current, PodStages, api
<1>7. ASSUME NEW p \in Pods, PodStep(p) PROVE AddressInv'
  <2> USE DEF AddressStages, OwnedStages, StatusStages, PodStages, Stages
  <2>1. CASE RemoveDeleted(p)
    <3>1. PICK F : RemoveWorkload(p, DeletedRecord(p), F)
      BY <2>1, Zenon DEF RemoveDeleted
    <3>2. StopContainer(p, F) /\ boxIP' = boxIP
      BY <3>1 DEF RemoveWorkload, StopContainer
    <3>3. /\ \/ pc' = "next" /\ todo' = todo \ {p}
             \/ /\ pc' = "deleted" /\ todo' = todo
                /\ report'.ip = podIP[p] /\ report'.phase # "Running"
          /\ At("next", p) /\ UNCHANGED <<live, born, phase, podIP, used>>
      BY <2>1 DEF RemoveDeleted, Continue, api, pass
    <3> QED
      BY <3>2, <3>3, StopQuiet, AddressQuiet
  <2>2. CASE PersistRetained(p)
    BY <2>2, AddressQuiet DEF PersistRetained, Goto, At, api, host, pass
  <2>3. CASE SkipForeign(p)
    BY <2>3, AddressQuiet DEF SkipForeign, Continue, api, host, pass
  <2>4. CASE RejectUnsupported(p)
    BY <2>4, AddressQuiet DEF RejectUnsupported, ReportStatus, api, host, pass
  <2>5. CASE AdmitNew(p)
    BY <2>5, AddressQuiet DEF AdmitNew, Continue, Goto, api, host, pass
  <2>6. CASE AdmitKnown(p)
    BY <2>6, AddressQuiet DEF AdmitKnown, Goto, api, host, pass
  <2>7. CASE NoAddressLeft(p)
    BY <2>7, AddressQuiet DEF NoAddressLeft, NeedsAddress, ReportStatus, api, host, pass
  <2>8. CASE AssignAddress(p)
    BY <2>8, AddressAssign
  <2>9. CASE AddAlias(p)
    BY <2>9, AddressQuiet DEF AddAlias, ReportStatus, Goto, api, memory, pass
  <2>10. CASE Inspect(p)
    <3>1. \/ pc' = "next" /\ todo' = todo \ {p}
          \/ pc' = "report" /\ todo' = todo /\ report'.ip = wl[p].ip
          \/ pc' \in {"prepare", "exited"} /\ todo' = todo /\ wl' = wl
      BY <2>10 DEF Inspect, Continue, Backoff, ReportStatus, Goto
    <3> QED
      BY <2>10, <3>1, AddressQuiet DEF Inspect, api, host, pass
  <2>11. CASE InspectUnreadable(p)
    BY <2>11, AddressQuiet DEF InspectUnreadable, Continue, api, host, pass
  <2>12. CASE Complete(p)
    <3>1. /\ \E F : StopContainer(p, F)
          /\ At("exited", p) /\ pc' = "completed" /\ todo' = todo /\ report'.ip = wl[p].ip
          /\ UNCHANGED <<live, born, phase, podIP, used>>
      BY <2>12 DEF Complete, api, pass
    <3>2. boxIP' = boxIP
      BY <3>1 DEF StopContainer
    <3> QED
      BY <3>1, <3>2, StopQuiet, AddressQuiet
  <2>13. CASE Restart(p)
    <3>1. \/ pc' = "next" /\ todo' = todo \ {p}
          \/ pc' = "restarted" /\ todo' = todo /\ wl'[p].ip = wl[p].ip
      BY <2>13, RestartKeeps DEF Continue, Goto
    <3>2. PICK F : StopContainer(p, F)
      BY <2>13 DEF Restart
    <3> QED
      BY <2>13, <3>1, <3>2, StopQuiet, AddressQuiet DEF Restart, StopContainer, api, pass
  <2>14. CASE PersistRestart(p)
    <3>1. \/ pc' = "next" /\ todo' = todo \ {p}
          \/ pc' = "prepare" /\ todo' = todo /\ wl' = wl
      BY <2>14 DEF PersistRestart, Continue, Goto
    <3> QED
      BY <2>14, <3>1, AddressQuiet DEF PersistRestart, api, host, pass
  <2>15. CASE Prepare(p)
    <3>1. /\ wl'[p].ip = wl[p].ip /\ todo' = todo
          /\ \/ pc' = "report" /\ report'.ip = wl'[p].ip
             \/ pc' \in {"mounted", "start"}
      BY <2>15, PrepareRecords, PrepareReports
    <3> QED
      BY <2>15, <3>1, AddressQuiet DEF Prepare, api, pass
  <2>16. CASE PersistMounts(p)
    <3>1. /\ todo' = todo
          /\ \/ pc' = "report" /\ report'.ip = wl[p].ip
             \/ pc' = "start" /\ wl' = wl
      BY <2>16 DEF PersistMounts, Backoff, ReportStatus, Goto
    <3> QED
      BY <2>16, <3>1, AddressQuiet DEF PersistMounts, api, host, pass
  <2>17. CASE Start(p)
    BY <2>17, AddressStart
  <2>18. CASE WaitRunning(p)
    BY <2>18, AddressQuiet DEF WaitRunning, Goto, api, memory, host, pass
  <2>19. CASE WaitFailed(p)
    <3>1. /\ \E F : StopContainer(p, F)
          /\ At("wait", p) /\ pc' = "report" /\ todo' = todo /\ report'.ip = wl[p].ip
          /\ UNCHANGED <<live, born, phase, podIP, used>>
      BY <2>19 DEF WaitFailed, Backoff, ReportStatus, api, pass
    <3>2. boxIP' = boxIP
      BY <3>1 DEF StopContainer
    <3> QED
      BY <3>1, <3>2, StopQuiet, AddressQuiet
  <2>20. CASE PersistStarted(p)
    <3>1. /\ At("started", p) /\ UNCHANGED <<live, born, phase, podIP, used>>
          /\ \/ ReportStatus("Running", wl[p].ip, wl[p].restarts) /\ UNCHANGED host
             \/ \E F : RemoveWorkload(p, wl[p], F) /\ Backoff(p, Torn(p, wl[p], F))
      BY <2>20, Zenon DEF PersistStarted, api, pass
    <3>2. CASE ReportStatus("Running", wl[p].ip, wl[p].restarts) /\ UNCHANGED host
      BY <3>1, <3>2, AddressQuiet DEF ReportStatus, host
    <3>3. ASSUME NEW F, RemoveWorkload(p, wl[p], F), Backoff(p, Torn(p, wl[p], F))
          PROVE  AddressInv'
      <4>1. StopContainer(p, F) /\ boxIP' = boxIP
        BY <3>3 DEF RemoveWorkload, StopContainer
      <4>2. Torn(p, wl[p], F).ip = wl[p].ip
        <5>1. wl[p] \in Record
          BY DEF TypeOK
        <5> QED
          BY <5>1, ArchivedType DEF Torn, Record
      <4>3. pc' = "report" /\ todo' = todo /\ report'.ip = wl[p].ip
        BY <3>3, <4>2 DEF Backoff, ReportStatus
      <4> QED
        BY <3>1, <4>1, <4>3, StopQuiet, AddressQuiet
    <3> QED
      BY <3>1, <3>2, <3>3
  <2>21. CASE PutStatus(p)
    BY <2>21, AddressPut
  <2>22. CASE SweepOne(p)
    BY <2>22, AddressRemove DEF SweepOne
  <2>23. CASE DrainOne(p)
    BY <2>23, AddressRemove DEF DrainOne
  <2>24. CASE RefuseAddress(p)
    BY <2>24, AddressQuiet DEF RefuseAddress, ReportStatus, api, host, pass
  <2> QED
    BY <1>7, <2>1, <2>2, <2>3, <2>4, <2>5, <2>6, <2>7, <2>8, <2>9, <2>10, <2>11, <2>12, <2>13,
       <2>14, <2>15, <2>16, <2>17, <2>18, <2>19, <2>20, <2>21, <2>22, <2>23, <2>24 DEF PodStep
<1>8. CASE Environment
  <2> USE DEF AddressStages, OwnedStages, StatusStages, PodStages, Stages
  <2>1. CASE Shutdown
    BY <2>1, AddressAside DEF Shutdown, Current, api, host
  <2>2. CASE Crash
    BY <2>2 DEF Crash
  <2>3. ASSUME NEW p \in Pods, CreatePod(p) PROVE AddressInv'
    <3>1. /\ UNCHANGED <<phase, podIP, podRestarts, box, boxIP, pc, todo, used, wl, report>>
          /\ p \notin born /\ born' = born \cup {p} /\ live' = live \cup {p}
      BY <2>3 DEF CreatePod, memory, host, pass
    <3>2. podIP[p] = NoIP /\ box[p] = "none" /\ phase[p] # "Running" /\ p \notin live
      BY <3>1 DEF AddressInv
    <3>3. \A q \in Ordinary : \A a : Claim(q, a) => Claim(q, a)'
      BY <3>1, <3>2, AddressesAssumption DEF Claim
    <3>4. \A q \in Ordinary : Holding(q) => Holding(q)'
      BY <3>1, <3>2, <3>3 DEF Holding, Claim
    <3> QED
      BY <3>1, <3>2, <3>4 DEF AddressInv, Current, At
  <2>4. ASSUME NEW p \in Pods, DeletePod(p) PROVE AddressInv'
    <3>1. UNCHANGED <<live, born, phase, podIP, box, boxIP, pc, todo, used, wl, report>>
      BY <2>4 DEF DeletePod, memory, host, pass
    <3> QED
      BY <3>1 DEF AddressInv, Current, At, Holding, Claim
  <2>5. ASSUME NEW p \in Pods, RemovePod(p) PROVE AddressInv'
    <3>1. /\ UNCHANGED <<phase, podIP, born, box, boxIP, pc, todo, used, wl, report>>
          /\ live' = live \ {p}
      BY <2>5 DEF RemovePod, memory, host, pass
    <3>2. \A q \in Ordinary : Holding(q) => Holding(q)'
      BY <3>1 DEF Holding, Claim
    <3> QED
      BY <3>1, <3>2 DEF AddressInv, Current, At
  <2>6. ASSUME NEW p \in Pods, WorkloadExits(p) PROVE AddressInv'
    <3>1. /\ UNCHANGED <<live, born, phase, podIP, boxIP, pc, todo, used, wl, report>>
          /\ \A q \in Pods : box'[q] = "running" => box[q] = "running"
          /\ \A q \in Pods : box[q] = "none" => box'[q] = "none"
      BY <2>6 DEF WorkloadExits, Exited, TypeOK, api, memory, pass
    <3> QED
      BY <3>1 DEF AddressInv, Current, At, Holding, Claim, Ordinary
  <2>7. ASSUME NEW p \in Pods, RetryElapses(p) PROVE AddressInv'
    <3>1. UNCHANGED <<live, born, phase, podIP, box, boxIP, pc, todo, used, report>>
      BY <2>7 DEF RetryElapses, api, host, pass
    <3>2. \A q \in Pods : wl'[q].ip = wl[q].ip
      BY <2>7, RetryKeeps
    <3> QED
      BY <3>1, <3>2 DEF AddressInv, Current, At, Holding, Claim, Ordinary
  <2>8. CASE Renumber
    <3>1. UNCHANGED <<live, born, phase, podIP, box, boxIP, pc, todo, used, wl, report>>
      BY <2>8 DEF Renumber, memory, host, pass
    <3> QED
      BY <3>1 DEF AddressInv, Current, At, Holding, Claim
  <2> QED
    BY <1>8, <2>1, <2>2, <2>3, <2>4, <2>5, <2>6, <2>7, <2>8 DEF Environment
<1>9. CASE UNCHANGED vars
  BY <1>9 DEF vars, api, memory, host, pass, AddressInv, Current, At, Holding, Claim
<1> QED
  BY <1>1, <1>2, <1>3, <1>4, <1>5, <1>6, <1>7, <1>8, <1>9 DEF Next, Daemon

LEMMA AddressAlways ==
  ASSUME "put" \notin FaultKinds, "crash" \notin FaultKinds
  PROVE  Spec => []AddressInv
<1>1. Init => TypeOK /\ AddressInv
  BY InitType, AddressInit
<1>2. TypeOK /\ AddressInv /\ [Next]_vars => TypeOK' /\ AddressInv'
  BY StepType, AddressStep
<1> QED
  BY <1>1, <1>2, PTL DEF Spec

\* Where a running workload is: on its Pod's address, or on the one its Pod is about to get.
LEMMA RunningOn ==
  ASSUME AddressInv, NEW p \in live \cap Ordinary, box[p] = "running"
  PROVE  /\ boxIP[p] # NoIP /\ Claim(p, boxIP[p])
         /\ boxIP[p] # podIP[p] => Current(p)
BY DEF AddressInv, Holding, Current, AddressStages, OwnedStages, StatusStages, Claim

\* Two Pods that exist never run on the same address, whichever removals, journal writes
\* and address changes fail: as long as the daemon is not killed and its status updates
\* reach the API server, what the listed Pods report is all that firstAvailableWorkloadIP
\* needs to know.
THEOREM AddressesAlwaysUnique ==
  ASSUME "put" \notin FaultKinds, "crash" \notin FaultKinds
  PROVE  Spec => []UniqueAddresses
<1>1. TypeOK /\ AddressInv => UniqueAddresses
  <2> SUFFICES ASSUME TypeOK, AddressInv,
                      NEW p \in live \ HostNetwork, NEW q \in live \ HostNetwork,
                      p # q, box[p] = "running", box[q] = "running", boxIP[p] = boxIP[q]
               PROVE  FALSE
    BY DEF UniqueAddresses
  <2>1. p \in live \cap Ordinary /\ q \in live \cap Ordinary
    BY DEF TypeOK, Ordinary
  <2>2. Claim(p, boxIP[p]) /\ Claim(q, boxIP[p]) /\ boxIP[p] # NoIP
    BY <2>1, RunningOn
  <2>3. boxIP[p] = podIP[p] \/ boxIP[q] = podIP[q]
    <3>1. Current(p) /\ Current(q) => p <= q /\ q <= p
      BY DEF Current, At
    <3>2. p \in Nat /\ q \in Nat
      BY <2>1, PodsAssumption DEF Ordinary
    <3>3. ~(Current(p) /\ Current(q))
      BY <3>1, <3>2
    <3> QED
      BY <2>1, <3>3, RunningOn
  <2> QED
    BY <2>1, <2>2, <2>3 DEF Claim, AddressInv
<1> QED
  BY <1>1, AddressAlways, TypeCorrect, PTL

\* A running workload was started with the address its Pod reports, under the same
\* conditions (AssignAddress records the address, startMackerWorkload passes it on and
\* updateStatus reports it, in that order, in one pass).
THEOREM AddressesAlwaysReported ==
  ASSUME "put" \notin FaultKinds, "crash" \notin FaultKinds
  PROVE  Spec => []AddressReported
<1>1. TypeOK /\ AddressInv => AddressReported
  <2> SUFFICES ASSUME TypeOK, AddressInv, NEW p \in live \ HostNetwork,
                      phase[p] = "Running", box[p] = "running"
               PROVE  boxIP[p] = podIP[p]
    BY DEF AddressReported
  <2>1. p \in live \cap Ordinary
    BY DEF TypeOK, Ordinary
  <2>2. podIP[p] # NoIP /\ Claim(p, boxIP[p])
    BY <2>1, RunningOn DEF AddressInv
  <2> QED
    BY <2>2 DEF Claim
<1> QED
  BY <1>1, AddressAlways, TypeCorrect, PTL

-----------------------------------------------------------------------------
\* Workloads run with their NFS exports mounted

\* The export of Pod p is mounted, and the journal and the memory of a daemon that runs
\* both know it.
MountKnown(p) ==
  /\ p \in mounts /\ p \in journal.managed /\ journal.wl[p].nfs
  /\ pc # "down" => p \in managed /\ wl[p].nfs

\* What a stage of the Pod loop needs of the mount of its Pod
MountReady(p) ==
  /\ box[p] = "running" \/ pc = "start" => MountKnown(p)
  /\ pc \in OwnedStages => p \in managed
  /\ pc = "mounted" => p \in mounts /\ wl[p].nfs

\* Why RunningMounted holds: a mount is made, then recorded, then persisted, and only then
\* the workload starts; and it is given up only when the container is gone.
MountedInv ==
  \A p \in Nfs : /\ box[p] = "running" => MountKnown(p)
                 /\ pc \in PodStages /\ At(pc, p) => MountReady(p)

LEMMA MountedInit == Init => MountedInv
<1>1. Init => pc = "down" /\ \A p \in Pods : box[p] = "none"
  BY DEF Init
<1> QED
  BY <1>1, KindsAssumption DEF MountedInv, PodStages

\* A step for Pod p keeps what is known of the mounts of the others.
LEMMA MountOthers ==
  ASSUME TypeOK, TypeOK', NEW p \in Pods, PodStep(p), pc # "down",
         NEW q \in Nfs \ {p}, MountKnown(q)
  PROVE  MountKnown(q)'
<1>1. Untouched(q) /\ q \in Pods
  BY PodLocal, KindsAssumption
<1>2. \/ journal' = journal
      \/ journal'.managed = managed' /\ journal'.wl[q].nfs = wl'[q].nfs
      \/ journal'.managed = managed /\ journal'.wl[q].nfs = wl[q].nfs
  BY <1>1, PodLocal, PersistRecord, JournalField, JournalRecord DEF TypeOK
<1> QED
  BY <1>1, <1>2 DEF MountKnown, Untouched

\* A step of the Pod loop keeps the invariant when the next stage suits its Pod.
LEMMA MountedMove ==
  ASSUME TypeOK, TypeOK', MountedInv, NEW p \in Pods, PodStep(p),
         NEW s \in PodStages, At(s, p),
         \/ todo' = todo /\ pc' # "next"
         \/ pc' = "next" /\ todo' = todo \ {p},
         p \in Nfs => MountReady(p)'
  PROVE  MountedInv'
<1> SUFFICES ASSUME NEW q \in Nfs
             PROVE  /\ box'[q] = "running" => MountKnown(q)'
                    /\ pc' \in PodStages /\ At(pc, q)' => MountReady(q)'
  BY DEF MountedInv
<1>1. CASE q = p
  BY <1>1 DEF MountReady
<1>2. CASE q # p
  <2>1. pc # "down" /\ q \in Pods /\ Untouched(q)
    BY <1>2, PodLocal, KindsAssumption DEF At, PodStages
  <2>2. box'[q] = "running" => MountKnown(q)'
    BY <1>2, <2>1, MountOthers DEF MountedInv, Untouched
  <2>3. pc' \in PodStages /\ At(pc, q)' => pc' = "next"
    BY <1>2, <2>1, OneCurrent DEF Current
  <2> QED
    BY <2>2, <2>3 DEF MountReady, OwnedStages
<1> QED
  BY <1>1, <1>2

\* The common case: the Pod keeps its mount, or its container is gone.
LEMMA MountedQuiet ==
  ASSUME TypeOK, TypeOK', MountedInv, NEW p \in Pods, PodStep(p),
         NEW s \in PodStages, At(s, p),
         \/ todo' = todo /\ pc' # "next"
         \/ pc' = "next" /\ todo' = todo \ {p},
         pc' \in PodStages \ {"start", "mounted"},
         pc' \in OwnedStages => s \in OwnedStages /\ managed' = managed,
         p \in Nfs =>
           \/ box'[p] # "running"
           \/ /\ box[p] = "running"
              /\ p \in mounts => p \in mounts'
              /\ p \in managed => p \in managed'
              /\ wl[p].nfs => wl'[p].nfs
  PROVE  MountedInv'
<1> SUFFICES ASSUME p \in Nfs PROVE MountReady(p)'
  BY MountedMove
<1>1. pc = s
  BY DEF At
<1>2. box'[p] = "running" => MountKnown(p)'
  <2> SUFFICES ASSUME box'[p] = "running" PROVE MountKnown(p)'
    OBVIOUS
  <2>1. MountKnown(p) /\ pc # "down"
    BY <1>1 DEF MountedInv, PodStages
  <2>2. \/ journal' = journal
        \/ journal'.managed = managed' /\ journal'.wl[p].nfs = wl'[p].nfs
        \/ journal'.managed = managed /\ journal'.wl[p].nfs = wl[p].nfs
    BY PodLocal, PersistRecord, JournalField, JournalRecord DEF TypeOK
  <2> QED
    BY <2>1, <2>2 DEF MountKnown
<1> QED
  BY <1>1, <1>2 DEF MountReady, MountedInv

\* A removal of the sweep or of the drain: the container goes before its mounts.
LEMMA MountedRemove ==
  ASSUME TypeOK, TypeOK', MountedInv, FaultKinds \cap {"stop", "missing"} = {},
         pc \in {"sweep", "drain", "drain2"}, NEW p \in Pods, PodStep(p), NEW K,
         NEW F \in Faulty(K), RemoveManaged(p, F)
  PROVE  MountedInv'
<1>1. "stop" \notin F /\ StopContainer(p, F) /\ pc' = pc
  BY FaultyKinds DEF RemoveManaged, RemoveWorkload
<1>2. box'[p] # "running"
  BY <1>1, StopDone DEF TypeOK
<1>3. \A q \in Nfs \ {p} : q \in Pods /\ Untouched(q)
  BY PodLocal, KindsAssumption
<1> QED
  BY <1>1, <1>2, <1>3, MountOthers DEF MountedInv, PodStages, Untouched

\* A step that is not about a Pod, and leaves the mounts and the containers alone.
LEMMA MountedAside ==
  ASSUME TypeOK, TypeOK', MountedInv, mounts' = mounts, pc # "down",
         \A q \in Pods : box'[q] = "running" => box[q] = "running",
         pc' \notin PodStages \/ pc' = "next",
         \/ managed' = managed /\ \A q \in Pods : wl'[q].nfs = wl[q].nfs
         \/ pc' = "down",
         \/ journal' = journal
         \/ \E r, l : journal' = JournalOf(managed, wl, r, l)
  PROVE  MountedInv'
<1> SUFFICES ASSUME NEW q \in Nfs, box'[q] = "running" PROVE MountKnown(q)'
  BY DEF MountedInv, MountReady, OwnedStages
<1>1. q \in Pods /\ MountKnown(q)
  BY KindsAssumption DEF MountedInv
<1>2. journal' = journal \/ (journal'.managed = managed /\ journal'.wl[q].nfs = wl[q].nfs)
  BY <1>1, JournalField, JournalRecord DEF TypeOK
<1> QED
  BY <1>1, <1>2 DEF MountKnown

LEMMA MountedStep ==
  ASSUME FaultKinds \cap {"stop", "missing"} = {}
  PROVE  TypeOK /\ MountedInv /\ [Next]_vars => MountedInv'
<1> SUFFICES ASSUME TypeOK, MountedInv, [Next]_vars PROVE MountedInv'
  OBVIOUS
<1>0. TypeOK'
  BY StepType
<1>1. CASE StartSession
  <2>1. pc = "down" /\ UNCHANGED <<box, mounts>> /\ pc' \in {"down", "idle"}
    BY <1>1 DEF StartSession
  <2>2. /\ pc' = "down" \/ (managed' = journal.managed /\ wl' = journal.wl)
        /\ \/ journal' = journal
           \/ \E r, l : journal' = JournalOf(journal.managed, journal.wl, r, l)
    BY <1>1, FileOutcome DEF StartSession
  <2> SUFFICES ASSUME NEW q \in Nfs, box'[q] = "running" PROVE MountKnown(q)'
    BY <2>1 DEF MountedInv, PodStages
  <2>3. q \in Pods /\ MountKnown(q)
    BY <2>1, KindsAssumption DEF MountedInv
  <2>4. CASE journal' = journal
    BY <2>1, <2>2, <2>3, <2>4 DEF MountKnown
  <2>5. CASE journal' # journal
    <3>1. journal'.managed = journal.managed /\ journal'.wl[q].nfs = journal.wl[q].nfs
      BY <2>2, <2>3, <2>5, JournalField, JournalRecord DEF TypeOK, Journals
    <3> QED
      BY <2>1, <2>2, <2>3, <2>5, <3>1 DEF MountKnown
  <2> QED
    BY <2>4, <2>5
<1>2. CASE BeginPass
  BY <1>0, <1>2, MountedAside, FileOutcome DEF BeginPass, Persist, PodStages, host
<1>3. CASE BeginSweep
  BY <1>0, <1>3, MountedAside DEF BeginSweep, PodStages, memory, disk, host
<1>4. CASE EndPass
  BY <1>0, <1>4, MountedAside, FileOutcome DEF EndPass, Persist, PodStages, memory, host
<1>5. CASE DrainAgain
  BY <1>0, <1>5, MountedAside, FileOutcome DEF DrainAgain, PersistDrained, Persist, PodStages,
     memory, host
<1>6. CASE EndSession
  BY <1>0, <1>6, MountedAside, FileOutcome DEF EndSession, PodStages
<1>7. ASSUME NEW p \in Pods, PodStep(p) PROVE MountedInv'
  <2> USE DEF OwnedStages, PodStages, Stages
  <2>0. MountedInv /\ TypeOK /\ TypeOK' /\ PodStep(p)
    BY <1>0, <1>7
  <2>1. CASE RemoveDeleted(p)
    <3>1. PICK F \in Faulty(TearKinds(p, DeletedRecord(p))) :
            RemoveWorkload(p, DeletedRecord(p), F) /\ (RemoveFailed(F) \/ pc' = "deleted")
      BY <2>1 DEF RemoveDeleted
    <3>2. box'[p] # "running"
      BY <3>1, FaultyKinds, StopDone DEF RemoveWorkload, TypeOK
    <3>3. /\ \/ pc' = "next" /\ todo' = todo \ {p}
             \/ pc' = "deleted" /\ todo' = todo
          /\ At("next", p)
      BY <2>1 DEF RemoveDeleted, Continue
    <3> QED
      BY <2>0, <3>2, <3>3, MountedQuiet
  <2>2. CASE PersistRetained(p)
    BY <2>0, <2>2, MountedQuiet DEF PersistRetained, Goto, At, memory, host
  <2>3. CASE SkipForeign(p)
    BY <2>0, <2>3, MountedQuiet DEF SkipForeign, Continue, memory, host
  <2>4. CASE RejectUnsupported(p)
    BY <2>0, <2>4, MountedQuiet DEF RejectUnsupported, ReportStatus, memory, host
  <2>5. CASE AdmitNew(p)
    <3>1. /\ At("next", p) /\ p \notin managed /\ managed' = managed \cup {p}
          /\ UNCHANGED host
          /\ \/ pc' = "next" /\ todo' = todo \ {p}
             \/ pc' = "address" /\ todo' = todo
      BY <2>5 DEF AdmitNew, Continue, Goto
    <3>2. p \in Nfs => box[p] # "running"
      BY <3>1 DEF MountedInv, MountKnown, At
    <3> QED
      BY <2>0, <3>1, <3>2, MountedMove DEF MountReady, host
  <2>6. CASE AdmitKnown(p)
    <3>1. /\ At("next", p) /\ p \in managed /\ pc' = "address" /\ todo' = todo
          /\ UNCHANGED <<managed, wl, journal, box, mounts>>
      BY <2>6 DEF AdmitKnown, Goto, memory, disk, host
    <3>2. p \in Nfs => MountReady(p)'
      BY <3>1 DEF MountReady, MountedInv, MountKnown, At
    <3> QED
      BY <2>0, <3>1, <3>2, MountedMove
  <2>7. CASE NoAddressLeft(p)
    BY <2>0, <2>7, MountedQuiet DEF NoAddressLeft, ReportStatus, memory, host
  <2>8. CASE AssignAddress(p)
    <3>1. /\ At("address", p) /\ UNCHANGED <<box, mounts, managed>>
          /\ \/ pc' = "next" /\ todo' = todo \ {p}
             \/ pc' = "alias" /\ todo' = todo
      BY <2>8 DEF AssignAddress, Continue, Goto
    <3>2. wl'[p].nfs = wl[p].nfs
      BY <2>8, AssignKeeps
    <3> QED
      BY <2>0, <3>1, <3>2, MountedQuiet
  <2>9. CASE AddAlias(p)
    BY <2>0, <2>9, MountedQuiet DEF AddAlias, ReportStatus, Goto, memory
  <2>10. CASE Inspect(p)
    <3>1. /\ \/ pc' = "next" /\ todo' = todo \ {p}
             \/ pc' \in {"report", "prepare", "exited"} /\ todo' = todo
          /\ wl' = wl \/ wl' = [wl EXCEPT ![p] = Later(wl[p])]
      BY <2>10 DEF Inspect, Continue, Backoff, ReportStatus, Goto
    <3>2. wl'[p].nfs = wl[p].nfs
      BY <3>1, RecordFields DEF TypeOK
    <3> QED
      BY <2>0, <2>10, <3>1, <3>2, MountedQuiet DEF Inspect, host
  <2>11. CASE InspectUnreadable(p)
    <3>1. wl'[p].nfs = wl[p].nfs
      BY <2>11, RecordFields DEF InspectUnreadable, TypeOK
    <3> QED
      BY <2>0, <2>11, <3>1, MountedQuiet DEF InspectUnreadable, Continue, host
  <2>12. CASE Complete(p)
    <3>1. PICK F \in Faulty({"inspect"} \cup StopKinds(p)) : StopContainer(p, F)
      BY <2>12 DEF Complete
    <3>2. box'[p] # "running"
      BY <3>1, FaultyKinds, StopDone DEF TypeOK
    <3> QED
      BY <2>0, <2>12, <3>2, MountedQuiet DEF Complete
  <2>13. CASE Restart(p)
    <3>1. /\ \E F \in Faulty(StopKinds(p)) : StopContainer(p, F)
          /\ \/ pc' = "next" /\ todo' = todo \ {p}
             \/ pc' = "restarted" /\ todo' = todo
          /\ At("exited", p) /\ managed' = managed
      BY <2>13 DEF Restart, Continue, Goto
    <3>2. box'[p] # "running"
      BY <3>1, FaultyKinds, StopDone DEF TypeOK
    <3> QED
      BY <2>0, <3>1, <3>2, MountedQuiet
  <2>14. CASE PersistRestart(p)
    <3>1. /\ \/ pc' = "next" /\ todo' = todo \ {p}
             \/ pc' = "prepare" /\ todo' = todo
          /\ wl' = wl \/ wl' = [wl EXCEPT ![p] = Later(wl[p])]
      BY <2>14, Zenon DEF PersistRestart, Continue, Goto
    <3>2. wl'[p].nfs = wl[p].nfs
      BY <3>1, RecordFields DEF TypeOK
    <3> QED
      BY <2>0, <2>14, <3>1, <3>2, MountedQuiet DEF PersistRestart, host
  <2>15. CASE Prepare(p)
    <3>1. PICK F : LET mounted == p \in Nfs /\ "mount" \notin F
                       r == [wl[p] EXCEPT !.nfs = @ \/ mounted]
                   IN /\ mounts' = IF mounted THEN mounts \cup {p} ELSE mounts
                      /\ IF F # {} THEN Backoff(p, r)
                         ELSE /\ wl' = [wl EXCEPT ![p] = r]
                              /\ Goto(IF r.nfs THEN "mounted" ELSE "start")
      BY <2>15, Zenon DEF Prepare
    <3> DEFINE mounted == p \in Nfs /\ "mount" \notin F
               r == [wl[p] EXCEPT !.nfs = @ \/ mounted]
    <3>2. r \in Record /\ r.nfs = (wl[p].nfs \/ mounted)
      <4>1. wl[p] \in Record /\ mounted \in BOOLEAN
        BY DEF TypeOK
      <4> HIDE DEF mounted
      <4> QED
        BY <4>1, RecordUpdates, RecordFields, Zenon
    <3>3. /\ At("prepare", p) /\ UNCHANGED <<managed, box>>
          /\ mounts' = IF mounted THEN mounts \cup {p} ELSE mounts
          /\ F = {} \/ Backoff(p, r)
          /\ F # {} \/ (wl' = [wl EXCEPT ![p] = r] /\ Goto(IF r.nfs THEN "mounted" ELSE "start"))
      BY <2>15, <3>1, Zenon DEF Prepare, host
    <3>4. CASE F # {}
      <4> HIDE DEF r, mounted
      <4>1. pc' = "report" /\ todo' = todo /\ wl'[p].nfs = r.nfs
        BY <3>2, <3>3, <3>4, RecordFields DEF Backoff, ReportStatus, TypeOK
      <4> QED
        BY <2>0, <3>2, <3>3, <4>1, MountedQuiet
    <3>5. CASE F = {}
      <4>1. p \in Nfs => mounted
        BY <3>5
      <4> HIDE DEF r, mounted
      <4>2. /\ todo' = todo /\ wl'[p] = r
            /\ p \in Nfs => pc' = "mounted" /\ p \in mounts' /\ r.nfs
            /\ pc' \in {"mounted", "start"}
        BY <3>2, <3>3, <3>5, <4>1 DEF Goto, TypeOK
      <4>3. p \in Nfs => MountReady(p)'
        <5> SUFFICES ASSUME p \in Nfs PROVE MountReady(p)'
          OBVIOUS
        <5>1. MountReady(p) /\ pc = "prepare"
          BY <3>3 DEF MountedInv, At
        <5>2. journal' = journal
          BY <2>15 DEF Prepare, disk
        <5> QED
          BY <3>3, <4>2, <5>1, <5>2 DEF MountReady, MountKnown
      <4> QED
        BY <2>0, <3>3, <4>2, <4>3, MountedMove
    <3> QED
      BY <3>4, <3>5
  <2>16. CASE PersistMounts(p)
    <3>1. /\ At("mounted", p) /\ UNCHANGED <<managed, box, mounts>> /\ todo' = todo
          /\ \/ pc' = "report" /\ wl' = [wl EXCEPT ![p] = Later(wl[p])]
             \/ pc' = "start" /\ wl' = wl /\ Persist({})
      BY <2>16, Zenon DEF PersistMounts, Backoff, ReportStatus, Goto, host
    <3>2. wl'[p].nfs = wl[p].nfs
      BY <3>1, RecordFields DEF TypeOK
    <3>3. CASE pc' = "report"
      BY <2>0, <3>1, <3>2, <3>3, MountedQuiet
    <3>4. CASE pc' = "start"
      <4>1. /\ journal'.managed = managed'
            /\ journal'.wl[p].nfs = wl'[p].nfs
        BY <3>1, <3>4, JournalField, JournalRecord DEF Persist, FileAfter, TypeOK
      <4>2. p \in Nfs => MountReady(p)'
        BY <3>1, <3>2, <3>4, <4>1 DEF MountReady, MountKnown, MountedInv, At
      <4> QED
        BY <2>0, <3>1, <3>4, <4>2, MountedMove
    <3> QED
      BY <3>1, <3>3, <3>4
  <2>17. CASE Start(p)
    <3>1. /\ At("start", p) /\ UNCHANGED <<managed, mounts, journal>> /\ todo' = todo
          /\ pc' \in {"wait", "report"}
          /\ wl' = wl \/ wl' = [wl EXCEPT ![p] = Later(wl[p])]
      BY <2>17, Zenon DEF Start, Backoff, ReportStatus, Goto, disk
    <3>2. wl'[p].nfs = wl[p].nfs
      BY <3>1, RecordFields DEF TypeOK
    <3>3. p \in Nfs => MountReady(p)'
      BY <3>1, <3>2 DEF MountReady, MountKnown, MountedInv, At
    <3> QED
      BY <2>0, <3>1, <3>3, MountedMove
  <2>18. CASE WaitRunning(p)
    BY <2>0, <2>18, MountedQuiet DEF WaitRunning, Goto, memory, host
  <2>19. CASE WaitFailed(p)
    <3>1. PICK F \in Faulty({"ps"} \cup (StopKinds(p) \ {"logs"})) : StopContainer(p, F)
      BY <2>19 DEF WaitFailed
    <3>2. box'[p] # "running"
      BY <3>1, FaultyKinds, StopDone DEF TypeOK
    <3> QED
      BY <2>0, <2>19, <3>2, MountedQuiet DEF WaitFailed, Backoff, ReportStatus
  <2>20. CASE PersistStarted(p)
    <3>1. CASE /\ wl' = [wl EXCEPT ![p].retry = FALSE]
               /\ ReportStatus("Running", wl[p].ip, wl[p].restarts) /\ UNCHANGED host
      <4>1. wl'[p].nfs = wl[p].nfs
        <5>1. wl[p] \in Record /\ wl'[p] = [wl[p] EXCEPT !.retry = FALSE]
          BY <3>1 DEF TypeOK
        <5> QED
          BY <5>1 DEF Record
      <4> QED
        BY <2>0, <2>20, <3>1, <4>1, MountedQuiet DEF PersistStarted, ReportStatus, host
    <3>2. ASSUME NEW F \in Faulty({"persist"} \cup TearKinds(p, wl[p])),
                 RemoveWorkload(p, wl[p], F), Backoff(p, Torn(p, wl[p], F))
          PROVE  MountedInv'
      <4>1. StopContainer(p, F) /\ "stop" \notin F
        BY <3>2, FaultyKinds DEF RemoveWorkload
      <4>2. box'[p] # "running"
        BY <4>1, StopDone DEF TypeOK
      <4> QED
        BY <2>0, <2>20, <3>2, <4>2, MountedQuiet DEF PersistStarted, Backoff, ReportStatus
    <3> QED
      BY <2>20, <3>1, <3>2, Zenon DEF PersistStarted
  <2>21. CASE PutStatus(p)
    BY <2>0, <2>21, MountedQuiet DEF PutStatus, memory, host
  <2>22. CASE SweepOne(p) \/ DrainOne(p)
    <3>1. PICK F \in Faulty(TearKinds(p, wl[p])) : RemoveManaged(p, F)
      BY <2>22 DEF SweepOne, DrainOne
    <3>2. pc \in {"sweep", "drain", "drain2"}
      BY <2>22 DEF SweepOne, DrainOne
    <3> QED
      BY <2>0, <3>1, <3>2, MountedRemove
  <2>23. CASE RefuseAddress(p)
    BY <2>0, <2>23, MountedQuiet DEF RefuseAddress, ReportStatus, memory, host
  <2> QED
    BY <1>7, <2>1, <2>2, <2>3, <2>4, <2>5, <2>6, <2>7, <2>8, <2>9, <2>10, <2>11, <2>12, <2>13,
       <2>14, <2>15, <2>16, <2>17, <2>18, <2>19, <2>20, <2>21, <2>22, <2>23 DEF PodStep
<1>8. CASE Environment
  <2>1. CASE Shutdown
    BY <1>0, <2>1, MountedAside DEF Shutdown, PodStages, memory, disk, host
  <2>2. CASE Crash
    BY <1>0, <2>2, MountedAside DEF Crash, PodStages, disk, host
  <2>3. ASSUME NEW p \in Pods,
               CreatePod(p) \/ DeletePod(p) \/ RemovePod(p) \/ WorkloadExits(p) \/ RetryElapses(p)
        PROVE  MountedInv'
    <3>1. UNCHANGED <<managed, mounts, journal, pc, todo>>
      BY <2>3 DEF CreatePod, DeletePod, RemovePod, WorkloadExits, RetryElapses, memory, disk, host
    <3>2. \A q \in Pods : box'[q] = "running" => box[q] = "running"
      BY <2>3 DEF CreatePod, DeletePod, RemovePod, WorkloadExits, RetryElapses, host, Exited, TypeOK
    <3>3. \A q \in Pods : wl'[q].nfs = wl[q].nfs
      BY <2>3, RetryKeeps DEF CreatePod, DeletePod, RemovePod, WorkloadExits, memory
    <3> QED
      BY <3>1, <3>2, <3>3, KindsAssumption DEF MountedInv, MountReady, MountKnown, At
  <2>4. CASE Renumber
    BY <2>4 DEF Renumber, MountedInv, MountReady, MountKnown, At, memory, disk, host
  <2> QED
    BY <1>8, <2>1, <2>2, <2>3, <2>4 DEF Environment
<1>9. CASE UNCHANGED vars
  BY <1>9 DEF vars, memory, disk, host, MountedInv, MountReady, MountKnown, At
<1> QED
  BY <1>1, <1>2, <1>3, <1>4, <1>5, <1>6, <1>7, <1>8, <1>9 DEF Next, Daemon

\* A workload never runs without its NFS export, and the journal knows the mount: whatever
\* mounts, unmounts and journal writes fail and whenever the daemon is killed, as long as
\* Macker stops the containers it is told to stop (startMackerWorkload comes after the
\* mount and the journal write, removeWorkload unmounts after stopContainer).
THEOREM RunningAlwaysMounted ==
  ASSUME FaultKinds \cap {"stop", "missing"} = {}
  PROVE  Spec => []RunningMounted
<1>1. Init => TypeOK /\ MountedInv
  BY InitType, MountedInit
<1>2. TypeOK /\ MountedInv /\ [Next]_vars => TypeOK' /\ MountedInv'
  BY StepType, MountedStep
<1>3. MountedInv => RunningMounted
  BY DEF MountedInv, MountKnown, RunningMounted
<1> QED
  BY <1>1, <1>2, <1>3, PTL DEF Spec

-----------------------------------------------------------------------------
\* The daemon knows every mount it made

\* Why MountsTracked holds: a mount is recorded in memory in the step that makes it, a
\* record is dropped only when its mounts are, and the drain goes over every record.
TrackedInv ==
  /\ mounts \subseteq Nfs
  /\ pc = "down" => mounts = {}
  /\ \A p \in mounts : p \in managed /\ wl[p].nfs
  /\ pc \in {"drain", "drain2"} => mounts \subseteq todo
  /\ \A p \in Nfs : pc \in OwnedStages /\ At(pc, p) => p \in managed

LEMMA TrackedInit == Init => TrackedInv
BY DEF Init, TrackedInv, OwnedStages

\* A step of the Pod loop keeps the invariant when its Pod is tracked afterwards.
LEMMA TrackedMove ==
  ASSUME TypeOK, TrackedInv, NEW p \in Pods, PodStep(p), NEW s \in PodStages, At(s, p),
         \/ todo' = todo /\ pc' # "next"
         \/ pc' = "next" /\ todo' = todo \ {p},
         pc' \in PodStages,
         p \in mounts' => p \in Nfs \cap managed' /\ wl'[p].nfs,
         p \in Nfs /\ pc' \in OwnedStages => p \in managed'
  PROVE  TrackedInv'
<1>1. \A q \in Pods \ {p} : Untouched(q)
  BY PodLocal
<1>2. mounts' \subseteq mounts \cup {p} /\ mounts' \subseteq Nfs
  <2>1. mounts' \in SUBSET Pods
    BY StepType DEF TypeOK, Next, Daemon
  <2> QED
    BY <1>1, <2>1 DEF Untouched, TrackedInv
<1>3. \A q \in mounts' : q \in managed' /\ wl'[q].nfs
  BY <1>1, <1>2 DEF Untouched, TrackedInv, TypeOK
<1>4. \A q \in Pods : pc' \in OwnedStages /\ At(pc, q)' => q = p
  BY OneCurrent DEF Current, OwnedStages, PodStages, Stages
<1> QED
  BY <1>2, <1>3, <1>4, KindsAssumption DEF TrackedInv, PodStages

\* The common case: the mounts and the records stay.
LEMMA TrackedQuiet ==
  ASSUME TypeOK, TrackedInv, NEW p \in Pods, PodStep(p), NEW s \in PodStages, At(s, p),
         \/ todo' = todo /\ pc' # "next"
         \/ pc' = "next" /\ todo' = todo \ {p},
         pc' \in PodStages,
         mounts' = mounts, managed' = managed, wl'[p].nfs = wl[p].nfs,
         pc' \in OwnedStages => s \in OwnedStages
  PROVE  TrackedInv'
<1>1. p \in mounts' => p \in Nfs \cap managed' /\ wl'[p].nfs
  BY DEF TrackedInv
<1>2. p \in Nfs /\ pc' \in OwnedStages => p \in managed'
  BY DEF TrackedInv, At
<1> QED
  BY <1>1, <1>2, TrackedMove

\* Unless an unmount fails, removing a workload whose mount is known unmounts it.
LEMMA TrackedUnmount ==
  ASSUME "unmount" \notin FaultKinds, NEW p \in Pods, NEW r, NEW K, NEW F \in Faulty(K),
         RemoveWorkload(p, r, F), p \in mounts => r.nfs
  PROVE  mounts' = mounts \ {p}
BY FaultyKinds DEF RemoveWorkload

\* A removal of the sweep or of the drain.
LEMMA TrackedRemove ==
  ASSUME TypeOK, TrackedInv, "unmount" \notin FaultKinds, pc \in {"sweep", "drain", "drain2"},
         NEW p \in Pods, PodStep(p), NEW K, NEW F \in Faulty(K), RemoveManaged(p, F)
  PROVE  TrackedInv'
<1>1. /\ pc' = pc /\ todo' = todo \ {p} /\ RemoveWorkload(p, wl[p], F)
      /\ managed' \in {managed, managed \ {p}}
  BY DEF RemoveManaged, Retain
<1>2. mounts' = mounts \ {p}
  BY <1>1, TrackedUnmount DEF TrackedInv
<1>3. \A q \in Pods \ {p} : Untouched(q)
  BY PodLocal
<1> QED
  BY <1>1, <1>2, <1>3 DEF TrackedInv, OwnedStages, Untouched, TypeOK

LEMMA TrackedStep ==
  ASSUME FaultKinds \cap {"crash", "unmount"} = {}, \A p \in Nfs : Policy[p] = "Always"
  PROVE  TypeOK /\ TrackedInv /\ [Next]_vars => TrackedInv'
<1> SUFFICES ASSUME TypeOK, TrackedInv, [Next]_vars PROVE TrackedInv'
  OBVIOUS
<1>1. CASE StartSession
  BY <1>1 DEF StartSession, TrackedInv, OwnedStages
<1>2. CASE BeginPass
  BY <1>2 DEF BeginPass, TrackedInv, OwnedStages, host
<1>3. CASE BeginSweep
  BY <1>3 DEF BeginSweep, TrackedInv, OwnedStages, memory, host
<1>4. CASE EndPass
  BY <1>4 DEF EndPass, TrackedInv, OwnedStages, memory, host
<1>5. CASE DrainAgain
  BY <1>5 DEF DrainAgain, TrackedInv, OwnedStages, memory, host
<1>6. CASE EndSession
  BY <1>6 DEF EndSession, TrackedInv, OwnedStages
<1>7. ASSUME NEW p \in Pods, PodStep(p) PROVE TrackedInv'
  <2> USE DEF OwnedStages, PodStages, Stages
  <2>0. TypeOK /\ TrackedInv /\ PodStep(p)
    BY <1>7
  <2>1. CASE RemoveDeleted(p)
    <3>1. PICK F \in Faulty(TearKinds(p, DeletedRecord(p))) :
            /\ RemoveWorkload(p, DeletedRecord(p), F)
            /\ \/ Continue(p)
               \/ pc' = "deleted" /\ todo' = todo
      BY <2>1 DEF RemoveDeleted
    <3>2. mounts' = mounts \ {p}
      BY <3>1, TrackedUnmount DEF TrackedInv, DeletedRecord
    <3> QED
      BY <2>0, <2>1, <3>1, <3>2, TrackedMove DEF RemoveDeleted, Continue
  <2>2. CASE PersistRetained(p)
    BY <2>0, <2>2, TrackedQuiet DEF PersistRetained, Goto, At, memory, host
  <2>3. CASE SkipForeign(p)
    BY <2>0, <2>3, TrackedQuiet DEF SkipForeign, Continue, memory, host
  <2>4. CASE RejectUnsupported(p)
    BY <2>0, <2>4, TrackedQuiet DEF RejectUnsupported, ReportStatus, memory, host
  <2>5. CASE AdmitNew(p)
    <3>1. /\ At("next", p) /\ p \notin managed /\ managed' = managed \cup {p} /\ mounts' = mounts
          /\ \/ pc' = "next" /\ todo' = todo \ {p}
             \/ pc' = "address" /\ todo' = todo
      BY <2>5 DEF AdmitNew, Continue, Goto, host
    <3> QED
      BY <2>0, <3>1, TrackedMove DEF TrackedInv
  <2>6. CASE AdmitKnown(p)
    <3>1. p \in mounts' => p \in Nfs \cap managed' /\ wl'[p].nfs
      BY <2>6 DEF AdmitKnown, TrackedInv, memory, host
    <3> QED
      BY <2>0, <2>6, <3>1, TrackedMove DEF AdmitKnown, Goto, memory
  <2>7. CASE NoAddressLeft(p)
    BY <2>0, <2>7, TrackedQuiet DEF NoAddressLeft, ReportStatus, memory, host
  <2>8. CASE AssignAddress(p)
    <3>1. /\ At("address", p) /\ UNCHANGED <<mounts, managed>>
          /\ \/ pc' = "next" /\ todo' = todo \ {p}
             \/ pc' = "alias" /\ todo' = todo
      BY <2>8 DEF AssignAddress, Continue, Goto
    <3> QED
      BY <2>0, <2>8, <3>1, AssignKeeps, TrackedQuiet
  <2>9. CASE AddAlias(p)
    BY <2>0, <2>9, TrackedQuiet DEF AddAlias, ReportStatus, Goto, memory
  <2>10. CASE Inspect(p)
    <3>1. /\ \/ pc' = "next" /\ todo' = todo \ {p}
             \/ pc' \in {"report", "prepare", "exited"} /\ todo' = todo
          /\ wl' = wl \/ wl' = [wl EXCEPT ![p] = Later(wl[p])]
      BY <2>10 DEF Inspect, Continue, Backoff, ReportStatus, Goto
    <3>2. wl'[p].nfs = wl[p].nfs
      BY <3>1, RecordFields DEF TypeOK
    <3> QED
      BY <2>0, <2>10, <3>1, <3>2, TrackedQuiet DEF Inspect, host
  <2>11. CASE InspectUnreadable(p)
    <3>1. wl'[p].nfs = wl[p].nfs
      BY <2>11, RecordFields DEF InspectUnreadable, TypeOK
    <3> QED
      BY <2>0, <2>11, <3>1, TrackedQuiet DEF InspectUnreadable, Continue, host
  <2>12. CASE Complete(p)
    <3>1. p \notin mounts /\ UNCHANGED <<mounts, todo>> /\ pc' = "completed" /\ At("exited", p)
      BY <2>12 DEF Complete, TrackedInv
    <3> QED
      BY <2>0, <3>1, TrackedMove
  <2>13. CASE Restart(p)
    <3>1. /\ \/ pc' = "next" /\ todo' = todo \ {p}
             \/ pc' = "restarted" /\ todo' = todo
          /\ At("exited", p) /\ UNCHANGED <<managed, mounts>>
      BY <2>13 DEF Restart, Continue, Goto
    <3> QED
      BY <2>0, <2>13, <3>1, RestartKeeps, TrackedQuiet
  <2>14. CASE PersistRestart(p)
    <3>1. /\ \/ pc' = "next" /\ todo' = todo \ {p}
             \/ pc' = "prepare" /\ todo' = todo
          /\ wl' = wl \/ wl' = [wl EXCEPT ![p] = Later(wl[p])]
      BY <2>14, Zenon DEF PersistRestart, Continue, Goto
    <3>2. wl'[p].nfs = wl[p].nfs
      BY <3>1, RecordFields DEF TypeOK
    <3> QED
      BY <2>0, <2>14, <3>1, <3>2, TrackedQuiet DEF PersistRestart, host
  <2>15. CASE Prepare(p)
    <3>1. /\ At("prepare", p) /\ managed' = managed /\ todo' = todo
          /\ pc' \in {"report", "mounted", "start"}
      BY <2>15 DEF Prepare, Backoff, ReportStatus, Goto
    <3>2. p \in mounts' => p \in Nfs /\ wl'[p].nfs
      BY <2>15, PrepareRecords DEF TrackedInv
    <3>3. p \in Nfs => p \in managed
      BY <3>1 DEF TrackedInv, At
    <3> QED
      BY <2>0, <3>1, <3>2, <3>3, TrackedMove
  <2>16. CASE PersistMounts(p)
    <3>1. /\ At("mounted", p) /\ UNCHANGED <<managed, mounts>> /\ todo' = todo
          /\ pc' \in {"report", "start"}
          /\ wl' = wl \/ wl' = [wl EXCEPT ![p] = Later(wl[p])]
      BY <2>16, Zenon DEF PersistMounts, Backoff, ReportStatus, Goto, host
    <3>2. wl'[p].nfs = wl[p].nfs
      BY <3>1, RecordFields DEF TypeOK
    <3> QED
      BY <2>0, <3>1, <3>2, TrackedQuiet
  <2>17. CASE Start(p)
    <3>1. /\ At("start", p) /\ UNCHANGED <<managed, mounts>> /\ todo' = todo
          /\ pc' \in {"wait", "report"}
          /\ wl' = wl \/ wl' = [wl EXCEPT ![p] = Later(wl[p])]
      BY <2>17, Zenon DEF Start, Backoff, ReportStatus, Goto
    <3>2. wl'[p].nfs = wl[p].nfs
      BY <3>1, RecordFields DEF TypeOK
    <3> QED
      BY <2>0, <3>1, <3>2, TrackedQuiet
  <2>18. CASE WaitRunning(p)
    BY <2>0, <2>18, TrackedQuiet DEF WaitRunning, Goto, memory, host
  <2>19. CASE WaitFailed(p)
    <3>1. wl'[p].nfs = wl[p].nfs
      BY <2>19, RecordFields DEF WaitFailed, Backoff, TypeOK
    <3> QED
      BY <2>0, <2>19, <3>1, TrackedQuiet DEF WaitFailed, Backoff, ReportStatus
  <2>20. CASE PersistStarted(p)
    <3>1. CASE /\ wl' = [wl EXCEPT ![p].retry = FALSE]
               /\ ReportStatus("Running", wl[p].ip, wl[p].restarts) /\ UNCHANGED host
      <4>1. wl'[p].nfs = wl[p].nfs
        <5>1. wl[p] \in Record /\ wl'[p] = [wl[p] EXCEPT !.retry = FALSE]
          BY <3>1 DEF TypeOK
        <5> QED
          BY <5>1 DEF Record
      <4> QED
        BY <2>0, <2>20, <3>1, <4>1, TrackedQuiet DEF PersistStarted, ReportStatus, host
    <3>2. ASSUME NEW F \in Faulty({"persist"} \cup TearKinds(p, wl[p])),
                 RemoveWorkload(p, wl[p], F), Backoff(p, Torn(p, wl[p], F))
          PROVE  TrackedInv'
      <4>1. mounts' = mounts \ {p}
        BY <3>2, TrackedUnmount DEF TrackedInv
      <4> QED
        BY <2>0, <2>20, <3>2, <4>1, TrackedMove DEF PersistStarted, Backoff, ReportStatus
    <3> QED
      BY <2>20, <3>1, <3>2, Zenon DEF PersistStarted
  <2>21. CASE PutStatus(p)
    BY <2>0, <2>21, TrackedQuiet DEF PutStatus, memory, host
  <2>22. CASE SweepOne(p) \/ DrainOne(p)
    <3>1. PICK F \in Faulty(TearKinds(p, wl[p])) : RemoveManaged(p, F)
      BY <2>22 DEF SweepOne, DrainOne
    <3>2. pc \in {"sweep", "drain", "drain2"}
      BY <2>22 DEF SweepOne, DrainOne
    <3> QED
      BY <2>0, <3>1, <3>2, TrackedRemove
  <2>23. CASE RefuseAddress(p)
    BY <2>0, <2>23, TrackedQuiet DEF RefuseAddress, ReportStatus, memory, host
  <2> QED
    BY <1>7, <2>1, <2>2, <2>3, <2>4, <2>5, <2>6, <2>7, <2>8, <2>9, <2>10, <2>11, <2>12, <2>13,
       <2>14, <2>15, <2>16, <2>17, <2>18, <2>19, <2>20, <2>21, <2>22, <2>23 DEF PodStep
<1>8. CASE Environment
  <2>1. CASE Shutdown
    BY <2>1 DEF Shutdown, TrackedInv, OwnedStages, memory, host
  <2>2. CASE Crash
    BY <2>2 DEF Crash
  <2>3. ASSUME NEW p \in Pods,
               CreatePod(p) \/ DeletePod(p) \/ RemovePod(p) \/ WorkloadExits(p)
        PROVE  TrackedInv'
    BY <2>3 DEF CreatePod, DeletePod, RemovePod, WorkloadExits, TrackedInv, At, memory, host
  <2>4. ASSUME NEW p \in Pods, RetryElapses(p) PROVE TrackedInv'
    <3>1. \A q \in Pods : wl'[q].nfs = wl[q].nfs
      BY <2>4, RetryKeeps
    <3> QED
      BY <2>4, <3>1 DEF RetryElapses, TrackedInv, At, host, TypeOK
  <2>5. CASE Renumber
    BY <2>5 DEF Renumber, TrackedInv, OwnedStages, memory, host
  <2> QED
    BY <1>8, <2>1, <2>2, <2>3, <2>4, <2>5 DEF Environment
<1>9. CASE UNCHANGED vars
  BY <1>9 DEF vars, memory, host, TrackedInv, At
<1> QED
  BY <1>1, <1>2, <1>3, <1>4, <1>5, <1>6, <1>7, <1>8, <1>9 DEF Next, Daemon

\* The daemon never loses track of an NFS mount it made, whichever steps of a start or of
\* a removal fail, as long as unmounts succeed, the daemon is not killed and the Pods with
\* NFS volumes are restarted for ever (Complete retires a record without unmounting).
THEOREM MountsAlwaysTracked ==
  ASSUME FaultKinds \cap {"crash", "unmount"} = {}, \A p \in Nfs : Policy[p] = "Always"
  PROVE  Spec => []MountsTracked
<1>1. Init => TypeOK /\ TrackedInv
  BY InitType, TrackedInit
<1>2. TypeOK /\ TrackedInv /\ [Next]_vars => TypeOK' /\ TrackedInv'
  BY StepType, TrackedStep
<1>3. TrackedInv => MountsTracked
  BY DEF TrackedInv, MountsTracked
<1> QED
  BY <1>1, <1>2, <1>3, PTL DEF Spec
=============================================================================
