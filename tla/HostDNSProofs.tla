--------------------------- MODULE HostDNSProofs ---------------------------
(***************************************************************************)
(* Proofs about HostDNS, for any services, lists, addresses and bounds:    *)
(* types, maclet's resolver file, the record of leave and, if nobody edits *)
(* a setting between maclet's read and write of it, what others have in    *)
(* the search lists and the resolver file.                                 *)
(***************************************************************************)
EXTENDS HostDNS, TLAPS

LeaveStages == {"leave", "leave_file", "leave_read", "leave_apply", "leave_record"}

\* Whoever holds a service, or is about to write one, knows which.
ServiceKnown ==
  /\ pc \in Writing \cup {"record"} => svc \in Services
  /\ owned /\ pc \notin LeaveStages \cup {"down"} => svc \in Services

\* The resolver file is gone from the removal by a leave without errors on.
FileGone ==
  /\ left => pc = "down" /\ ~Managed
  /\ pc \in LeaveStages \ {"leave_file"} /\ clean => ~Managed

\* What is about to be replaced or removed is maclet's, or nothing.
FileLooked ==
  /\ pc \in {"install0", "install"} => goal \in Nameservers
  /\ ~Races /\ pc \in Settling => file # "foreign"

\* leave sets the list of the record, without the domains that the record names.
RecordUndone ==
  /\ \A r, q \in record : r = q
  /\ pc = "leave_apply" =>
       want \cap list = {} /\ \A r \in record : r.service = svc /\ r.domains = list
  /\ pc = "leave_record" => \A r \in record : shown[r.service] \cap r.domains = {}

\* What is about to be set has everything of others that is there now.
NothingForeignLost == ~Races /\ pc \in Writing => shown[svc] \cap Foreign \subseteq want

DNSInv ==
  DNSTypeOK /\ ServiceKnown /\ FileGone /\ FileLooked /\ RecordUndone /\ NothingForeignLost

-----------------------------------------------------------------------------
\* What maclet publishes and what others have there are different domains.
LEMMA Disjoint == Own \subseteq Domains /\ Foreign \subseteq Domains /\ Own \cap Foreign = {}
  BY DomainsAssumption DEF Domains

\* Every join, and the default that leave assumes, names a service and a list.
LEMMA JoinsTyped ==
  \A j \in Joins \cup {Assumed} : j.service \in Services /\ j.domains \in SUBSET Own
  BY JoinsAssumption

\* What leave undoes is the record, when there is one, and always a service and a list.
LEMMA KnownTyped ==
  ASSUME record \in SUBSET [service : Services, domains : SUBSET Own]
  PROVE  /\ Known.service \in Services /\ Known.domains \in SUBSET Own
         /\ record # {} => Known \in record
<1>1. CASE record = {}
  BY <1>1, JoinsTyped DEF Known
<1>2. CASE record # {}
  <2>1. Known = CHOOSE r \in record : TRUE
    BY <1>2 DEF Known
  <2>2. Known \in record
    BY <1>2, <2>1
  <2>. QED
    BY <1>2, <2>2
<1>. QED
  BY <1>1, <1>2

\* The initial states satisfy the invariant.
LEMMA InitDNSInv == Init => DNSInv
<1>. SUFFICES ASSUME Init PROVE DNSInv
  OBVIOUS
<1>1. DNSTypeOK
  <2>1. shown \in [Services -> SUBSET Domains]
    BY Disjoint DEF Init
  <2>. QED
    BY <2>1 DEF Init, DNSTypeOK, Files, DNSStages
<1>2. FileGone
  BY AddressAssumption DEF Init, FileGone, Managed, LeaveStages
<1>. QED
  BY <1>1, <1>2 DEF Init, DNSInv, ServiceKnown, FileLooked, RecordUndone, NothingForeignLost,
     Writing, Settling

-----------------------------------------------------------------------------
\* The variables that are TRUE or FALSE, and the other ones
FlagsTyped == {torn, left, owned, rowned, clean} \subseteq BOOLEAN

DataTyped ==
  /\ shown \in [Services -> SUBSET Domains] /\ file \in Files /\ dns \in Nameservers
  /\ record \in SUBSET [service : Services, domains : SUBSET Own] /\ pc \in DNSStages
  /\ list \in SUBSET Own /\ svc \in Services \cup {NoService} /\ want \in SUBSET Domains
  /\ {raddr, goal} \subseteq Nameservers \cup {NoAddress}
  /\ edits \in Nat /\ faults \in Nat /\ stops \in Nat /\ kills \in Nat

LEMMA TypesSplit == /\ DNSTypeOK <=> FlagsTyped /\ DataTyped
                    /\ DNSTypeOK' <=> FlagsTyped' /\ DataTyped'
  BY DEF DNSTypeOK, FlagsTyped, DataTyped

\* Every action of maclet and of others keeps the types: the flags first,
LEMMA FlagsStep == ASSUME FlagsTyped, Next PROVE FlagsTyped'
<1>. USE DEF FlagsTyped, host, search, resolve, disk
<1>1. CASE Join
  BY <1>1, Zenon DEF Join
<1>2. CASE Resolve
  BY <1>2, Zenon DEF Resolve, ResolveTo
<1>3. CASE Read
  BY <1>3, Zenon DEF Read
<1>4. CASE Apply
  BY <1>4, Zenon DEF Apply
<1>5. CASE WriteRecord
  <2>1. torn' = torn \/ torn' = TRUE \/ torn' = FALSE
    BY <1>5, Zenon DEF WriteRecord, Tear
  <2>2. UNCHANGED <<left, owned, rowned, clean>>
    BY <1>5, Zenon DEF WriteRecord
  <2>. QED
    BY <2>1, <2>2, Zenon
<1>6. CASE Heartbeat
  BY <1>6, Zenon DEF Heartbeat
<1>7. CASE CleanupRead
  BY <1>7, Zenon DEF CleanupRead
<1>8. CASE CleanupApply
  BY <1>8, Zenon DEF CleanupApply
<1>9. CASE Unresolve
  BY <1>9, Zenon DEF Unresolve
<1>10. CASE LeaveRead
  BY <1>10, Zenon DEF LeaveRead
<1>11. CASE LeaveApply
  BY <1>11, Zenon DEF LeaveApply
<1>12. CASE LeaveRecord
  BY <1>12, Zenon DEF LeaveRecord
<1>13. CASE LeaveEnds
  BY <1>13, Zenon DEF LeaveEnds
<1>14. CASE Stop
  BY <1>14, Zenon DEF Stop
<1>15. CASE Kill
  <2>1. torn' = torn \/ torn' = TRUE \/ torn' = FALSE
    BY <1>15, Zenon DEF Kill, Tear
  <2>2. UNCHANGED <<left, clean>> /\ owned' = FALSE /\ rowned' = FALSE
    BY <1>15, Zenon DEF Kill
  <2>. QED
    BY <2>1, <2>2, Zenon
<1>16. CASE Leave
  BY <1>16, Zenon DEF Leave
<1>17. CASE Environment
  BY <1>17 DEF Environment, EditDomains, EditFile, ChangeDNS, Others
<1>18. CASE Install
  BY <1>18, Zenon DEF Install
<1>19. CASE Uninstall
  BY <1>19, Zenon DEF Uninstall
<1>20. CASE LeaveFile
  BY <1>20, Zenon DEF LeaveFile
<1>. QED
  BY <1>1, <1>2, <1>3, <1>4, <1>5, <1>6, <1>7, <1>8, <1>9, <1>10, <1>11, <1>12, <1>13, <1>14,
     <1>15, <1>16, <1>17, <1>18, <1>19, <1>20 DEF Next, Maclet, Step

\* then the rest.
LEMMA DataStep == ASSUME DataTyped, ServiceKnown, FileLooked, Next PROVE DataTyped'
<1>. USE DEF DataTyped, DNSStages, Works, Fails, host, search, resolve, disk
<1>1. CASE Join
  BY <1>1, JoinsTyped DEF Join
<1>2. CASE Resolve
  BY <1>2, AddressAssumption DEF Resolve, ResolveTo, AfterResolve
<1>3. CASE Read
  BY <1>3, Disjoint DEF Read, Planned, Plans, Kept
<1>4. CASE Apply
  BY <1>4 DEF Apply, ServiceKnown, Writing
<1>5. CASE WriteRecord
  BY <1>5 DEF WriteRecord, Tear, ServiceKnown, Writing
<1>6. CASE Heartbeat
  BY <1>6 DEF Heartbeat
<1>7. CASE CleanupRead
  BY <1>7 DEF CleanupRead, ServiceKnown, LeaveStages, Kept
<1>8. CASE CleanupApply
  BY <1>8 DEF CleanupApply
<1>9. CASE Unresolve
  BY <1>9 DEF Unresolve
<1>10. CASE LeaveRead
  BY <1>10, KnownTyped DEF LeaveRead, Kept
<1>11. CASE LeaveApply
  BY <1>11 DEF LeaveApply
<1>12. CASE LeaveRecord
  BY <1>12 DEF LeaveRecord
<1>13. CASE LeaveEnds
  BY <1>13 DEF LeaveEnds
<1>14. CASE Stop
  BY <1>14 DEF Stop
<1>15. CASE Kill
  BY <1>15 DEF Kill, Tear
<1>16. CASE Leave
  BY <1>16 DEF Leave
<1>17. ASSUME NEW s \in Services, EditDomains(s) PROVE DataTyped'
  <2>1. PICK new \in SUBSET (shown[s] \cup Foreign) : shown' = [shown EXCEPT ![s] = new]
    BY <1>17 DEF EditDomains
  <2>2. new \in SUBSET Domains
    BY <2>1, Disjoint
  <2>. QED
    BY <1>17, <2>1, <2>2 DEF EditDomains, Others
<1>18. CASE EditFile
  BY <1>18 DEF EditFile, Others, Files
<1>19. CASE ChangeDNS
  BY <1>19 DEF ChangeDNS, Others
<1>20. CASE Install
  BY <1>20 DEF Install, AfterResolve, Files, FileLooked
<1>21. CASE Uninstall
  BY <1>21 DEF Uninstall, Files
<1>22. CASE LeaveFile
  BY <1>22 DEF LeaveFile, Files
<1>. QED
  BY <1>1, <1>2, <1>3, <1>4, <1>5, <1>6, <1>7, <1>8, <1>9, <1>10, <1>11, <1>12, <1>13, <1>14,
     <1>15, <1>16, <1>17, <1>18, <1>19, <1>20, <1>21, <1>22 DEF Next, Maclet, Step, Environment

-----------------------------------------------------------------------------
\* A session takes a service before it writes one, and keeps it.
LEMMA ServiceStep == ASSUME DNSTypeOK, ServiceKnown, Next PROVE ServiceKnown'
<1>. USE DEF ServiceKnown, LeaveStages, Writing, DNSTypeOK, host, search, resolve, disk
<1>1. CASE Join
  BY <1>1, JoinsTyped DEF Join
<1>2. CASE Resolve
  BY <1>2 DEF Resolve, ResolveTo, AfterResolve
<1>3. CASE Read
  BY <1>3 DEF Read, Planned
<1>4. CASE Apply
  BY <1>4 DEF Apply
<1>5. CASE WriteRecord
  BY <1>5 DEF WriteRecord, Tear
<1>6. CASE Heartbeat
  BY <1>6 DEF Heartbeat
<1>7. CASE CleanupRead
  BY <1>7 DEF CleanupRead
<1>8. CASE CleanupApply
  BY <1>8 DEF CleanupApply
<1>9. CASE Unresolve
  BY <1>9 DEF Unresolve
<1>10. CASE LeaveRead
  BY <1>10, KnownTyped DEF LeaveRead
<1>11. CASE LeaveApply
  BY <1>11 DEF LeaveApply
<1>12. CASE LeaveRecord
  BY <1>12 DEF LeaveRecord
<1>13. CASE LeaveEnds
  BY <1>13 DEF LeaveEnds
<1>14. CASE Stop
  BY <1>14 DEF Stop
<1>15. CASE Kill
  BY <1>15 DEF Kill, Tear
<1>16. CASE Leave
  BY <1>16 DEF Leave
<1>17. CASE Environment
  BY <1>17 DEF Environment, EditDomains, EditFile, ChangeDNS, Others
<1>18. CASE Install
  BY <1>18 DEF Install, AfterResolve
<1>19. CASE Uninstall
  BY <1>19 DEF Uninstall
<1>20. CASE LeaveFile
  BY <1>20 DEF LeaveFile
<1>. QED
  BY <1>1, <1>2, <1>3, <1>4, <1>5, <1>6, <1>7, <1>8, <1>9, <1>10, <1>11, <1>12, <1>13, <1>14,
     <1>15, <1>16, <1>17, <1>18, <1>19,
     <1>20 DEF Next, Maclet, Step, Environment

\* Once leave has removed the resolver file nothing of maclet runs that writes one.
LEMMA FileStep == ASSUME DNSTypeOK, FileGone, Next PROVE FileGone'
<1>. USE DEF FileGone, LeaveStages, Managed, Files, host, search, resolve, disk
<1>1. CASE Join
  BY <1>1 DEF Join, DNSTypeOK
<1>2. CASE Resolve
  BY <1>2 DEF Resolve, ResolveTo, AfterResolve
<1>3. CASE Read
  BY <1>3 DEF Read
<1>4. CASE Apply
  BY <1>4 DEF Apply
<1>5. CASE WriteRecord
  BY <1>5 DEF WriteRecord, Tear
<1>6. CASE Heartbeat
  BY <1>6 DEF Heartbeat
<1>7. CASE CleanupRead
  BY <1>7 DEF CleanupRead
<1>8. CASE CleanupApply
  BY <1>8 DEF CleanupApply
<1>9. CASE Unresolve
  BY <1>9 DEF Unresolve
<1>10. CASE LeaveRead
  BY <1>10 DEF LeaveRead
<1>11. CASE LeaveApply
  BY <1>11 DEF LeaveApply
<1>12. CASE LeaveRecord
  BY <1>12 DEF LeaveRecord
<1>13. CASE LeaveEnds
  BY <1>13 DEF LeaveEnds
<1>14. CASE Stop
  BY <1>14 DEF Stop
<1>15. CASE Kill
  BY <1>15 DEF Kill, Tear
<1>16. CASE Leave
  BY <1>16, AddressAssumption DEF Leave, Removable
<1>17. CASE Environment
  BY <1>17, AddressAssumption DEF Environment, EditDomains, EditFile, ChangeDNS, Others
<1>18. CASE Install
  BY <1>18 DEF Install, AfterResolve
<1>19. CASE Uninstall
  BY <1>19 DEF Uninstall
<1>20. CASE LeaveFile
  BY <1>20, AddressAssumption DEF LeaveFile
<1>. QED
  BY <1>1, <1>2, <1>3, <1>4, <1>5, <1>6, <1>7, <1>8, <1>9, <1>10, <1>11, <1>12, <1>13, <1>14,
     <1>15, <1>16, <1>17, <1>18, <1>19,
     <1>20 DEF Next, Maclet, Step, Environment

\* maclet looks at the resolver file before it writes or removes it.
LEMMA LookStep == ASSUME DNSTypeOK, FileLooked, Next PROVE FileLooked'
<1>. USE AddressAssumption DEF FileLooked, Settling, DNSTypeOK, host, search, resolve, disk
<1>1. CASE Join
  BY <1>1 DEF Join
<1>2. CASE Resolve
  BY <1>2 DEF Resolve, ResolveTo, AfterResolve, Writable
<1>3. CASE Install
  BY <1>3 DEF Install, AfterResolve
<1>4. CASE Read
  BY <1>4 DEF Read
<1>5. CASE Apply
  BY <1>5 DEF Apply
<1>6. CASE WriteRecord
  BY <1>6 DEF WriteRecord, Tear
<1>7. CASE Heartbeat
  BY <1>7 DEF Heartbeat
<1>8. CASE CleanupRead
  BY <1>8 DEF CleanupRead
<1>9. CASE CleanupApply
  BY <1>9 DEF CleanupApply
<1>10. CASE Unresolve
  BY <1>10 DEF Unresolve, Removable, Managed
<1>11. CASE Uninstall
  BY <1>11 DEF Uninstall
<1>12. CASE LeaveFile
  BY <1>12 DEF LeaveFile
<1>13. CASE LeaveRead
  BY <1>13 DEF LeaveRead
<1>14. CASE LeaveApply
  BY <1>14 DEF LeaveApply
<1>15. CASE LeaveRecord
  BY <1>15 DEF LeaveRecord
<1>16. CASE LeaveEnds
  BY <1>16 DEF LeaveEnds
<1>17. CASE Stop
  BY <1>17 DEF Stop
<1>18. CASE Kill
  BY <1>18 DEF Kill, Tear
<1>19. CASE Leave
  BY <1>19 DEF Leave, Removable, Managed
<1>20. CASE Environment
  BY <1>20 DEF Environment, EditDomains, EditFile, ChangeDNS, Others
<1>. QED
  BY <1>1, <1>2, <1>3, <1>4, <1>5, <1>6, <1>7, <1>8, <1>9, <1>10, <1>11,
     <1>12, <1>13, <1>14, <1>15, <1>16, <1>17, <1>18, <1>19,
     <1>20 DEF Next, Maclet, Step, Environment

\* A leave that goes to give the record up has read, and set, what the record names.
LEMMA UndoStep == ASSUME DNSTypeOK, ServiceKnown, RecordUndone, Next PROVE RecordUndone'
<1>. USE DEF RecordUndone, DNSTypeOK, ServiceKnown, Writing, host, search, resolve, disk
<1>1. CASE Join
  BY <1>1 DEF Join
<1>2. CASE Resolve
  BY <1>2 DEF Resolve, ResolveTo, AfterResolve
<1>3. CASE Read
  BY <1>3 DEF Read
<1>4. CASE Apply
  BY <1>4 DEF Apply
<1>5. CASE WriteRecord
  BY <1>5 DEF WriteRecord, Tear
<1>6. CASE Heartbeat
  BY <1>6 DEF Heartbeat
<1>7. CASE CleanupRead
  BY <1>7 DEF CleanupRead
<1>8. CASE CleanupApply
  BY <1>8 DEF CleanupApply
<1>9. CASE Unresolve
  BY <1>9 DEF Unresolve
<1>10. CASE LeaveRead
  BY <1>10, KnownTyped DEF LeaveRead, Kept
<1>11. CASE LeaveApply
  BY <1>11 DEF LeaveApply
<1>12. CASE LeaveRecord
  BY <1>12 DEF LeaveRecord
<1>13. CASE LeaveEnds
  BY <1>13 DEF LeaveEnds
<1>14. CASE Stop
  BY <1>14 DEF Stop
<1>15. CASE Kill
  BY <1>15 DEF Kill, Tear
<1>16. CASE Leave
  BY <1>16 DEF Leave
<1>17. CASE Environment
  <2>1. ASSUME NEW s \in Services, EditDomains(s) PROVE RecordUndone'
    <3>1. PICK new \in SUBSET (shown[s] \cup Foreign) : shown' = [shown EXCEPT ![s] = new]
      BY <2>1 DEF EditDomains
    <3>2. \A r \in record : shown'[r.service] \subseteq shown[r.service] \cup Foreign
      BY <3>1
    <3>3. \A r \in record : r.domains \cap Foreign = {}
      BY Disjoint
    <3>. QED
      BY <2>1, <3>2, <3>3 DEF EditDomains, Others
  <2>2. CASE EditFile \/ ChangeDNS
    BY <2>2 DEF EditFile, ChangeDNS, Others
  <2>. QED
    BY <1>17, <2>1, <2>2 DEF Environment
<1>18. CASE Install
  BY <1>18 DEF Install, AfterResolve
<1>19. CASE Uninstall
  BY <1>19 DEF Uninstall
<1>20. CASE LeaveFile
  BY <1>20 DEF LeaveFile
<1>. QED
  BY <1>1, <1>2, <1>3, <1>4, <1>5, <1>6, <1>7, <1>8, <1>9, <1>10, <1>11, <1>12, <1>13, <1>14,
     <1>15, <1>16, <1>17, <1>18, <1>19,
     <1>20 DEF Next, Maclet, Step, Environment

\* What maclet is about to set has everything of others that it has read.
LEMMA ForeignStep ==
  ASSUME DNSTypeOK, ServiceKnown, NothingForeignLost, Next
  PROVE  NothingForeignLost'
<1>. USE DEF NothingForeignLost, DNSTypeOK, ServiceKnown, Writing, LeaveStages, host, search,
    resolve, disk
<1>1. CASE Join
  BY <1>1 DEF Join
<1>2. CASE Resolve
  BY <1>2 DEF Resolve, ResolveTo, AfterResolve
<1>3. CASE Read
  BY <1>3, Disjoint DEF Read, Planned, Plans, Kept
<1>4. CASE Apply
  BY <1>4 DEF Apply
<1>5. CASE WriteRecord
  BY <1>5 DEF WriteRecord, Tear
<1>6. CASE Heartbeat
  BY <1>6 DEF Heartbeat
<1>7. CASE CleanupRead
  BY <1>7, Disjoint DEF CleanupRead, Kept
<1>8. CASE CleanupApply
  BY <1>8 DEF CleanupApply
<1>9. CASE Unresolve
  BY <1>9 DEF Unresolve
<1>10. CASE LeaveRead
  BY <1>10, KnownTyped, Disjoint DEF LeaveRead, Kept
<1>11. CASE LeaveApply
  BY <1>11 DEF LeaveApply
<1>12. CASE LeaveRecord
  BY <1>12 DEF LeaveRecord
<1>13. CASE LeaveEnds
  BY <1>13 DEF LeaveEnds
<1>14. CASE Stop
  BY <1>14 DEF Stop
<1>15. CASE Kill
  BY <1>15 DEF Kill, Tear
<1>16. CASE Leave
  BY <1>16 DEF Leave
<1>17. CASE Environment
  BY <1>17 DEF Environment, EditDomains, EditFile, ChangeDNS, Others
<1>18. CASE Install
  BY <1>18 DEF Install, AfterResolve
<1>19. CASE Uninstall
  BY <1>19 DEF Uninstall
<1>20. CASE LeaveFile
  BY <1>20 DEF LeaveFile
<1>. QED
  BY <1>1, <1>2, <1>3, <1>4, <1>5, <1>6, <1>7, <1>8, <1>9, <1>10, <1>11, <1>12, <1>13, <1>14,
     <1>15, <1>16, <1>17, <1>18, <1>19,
     <1>20 DEF Next, Maclet, Step, Environment

THEOREM DNSInductive == Spec => []DNSInv
<1>1. DNSInv /\ [Next]_vars => DNSInv'
  <2>. SUFFICES ASSUME DNSInv, [Next]_vars PROVE DNSInv'
    OBVIOUS
  <2>1. CASE Next
    BY <2>1, TypesSplit, FlagsStep, DataStep, ServiceStep, FileStep, LookStep, UndoStep,
       ForeignStep DEF DNSInv
  <2>2. CASE UNCHANGED vars
    BY <2>2 DEF vars, host, search, resolve, disk, DNSInv, DNSTypeOK, ServiceKnown, FileGone,
       FileLooked, RecordUndone, NothingForeignLost, LeaveStages, Writing, Settling, Managed
  <2>. QED
    BY <2>1, <2>2
<1>. QED
  BY <1>1, InitDNSInv, PTL DEF Spec

\* The settings of the Mac, the record and what a session remembers keep their types.
THEOREM DNSTypesKept == Spec => []DNSTypeOK
<1>1. DNSInv => DNSTypeOK
  BY DEF DNSInv
<1>. QED
  BY <1>1, DNSInductive, PTL

\* After a leave that succeeded the resolver file is not maclet's, whichever session wrote
\* it and however that session ended.
THEOREM LeaveRemovesResolver == Spec => []ResolverRemoved
<1>1. DNSInv => ResolverRemoved
  BY DEF DNSInv, FileGone, ResolverRemoved
<1>. QED
  BY <1>1, DNSInductive, PTL

\* leave gives up the record only of domains that are gone.
THEOREM RecordsAreHonoured == Spec => RecordHonoured
<1>1. DNSInv /\ [Next]_vars =>
        [Step => \A r \in record \ record' :
           pc = "leave_record" => shown[r.service] \cap r.domains = {}]_vars
  BY DEF DNSInv, RecordUndone
<1>. QED
  BY <1>1, DNSInductive, PTL DEF Spec, RecordHonoured

\* If nobody else writes the resolver file between maclet's look at it and the rename or the
\* removal, no step of maclet overwrites or removes a resolver file of somebody else.
THEOREM ForeignFilesKept == ASSUME ~Races PROVE Spec => ForeignFileKept
<1>1. ASSUME DNSInv, Maclet, file = "foreign" PROVE file' = "foreign"
  <2>1. pc \notin Settling
    BY <1>1 DEF DNSInv, FileLooked
  <2>. QED
    BY <1>1, <2>1 DEF Settling, Maclet, Step, Join, Resolve, Install, Read, Apply, WriteRecord,
      Heartbeat, CleanupRead, CleanupApply, Unresolve, Uninstall, LeaveFile, LeaveRead, LeaveApply,
      LeaveRecord, LeaveEnds, Stop, Kill, Leave, host
<1>2. DNSInv /\ [Next]_vars => [Maclet /\ file = "foreign" => file' = "foreign"]_vars
  BY <1>1
<1>. QED
  BY <1>2, DNSInductive, PTL DEF Spec, ForeignFileKept

\* If nobody else edits a search list between maclet's read and write of it, maclet takes no
\* domain of others away.
THEOREM ForeignDomainsKept == ASSUME ~Races PROVE Spec => ForeignKept
<1>1. ASSUME DNSInv, Maclet, NEW s \in Services PROVE shown[s] \cap Foreign \subseteq shown'[s]
  <2>1. CASE Apply \/ CleanupApply \/ LeaveApply
    <3>1. shown' = shown \/ shown' = [shown EXCEPT ![svc] = want]
      BY <2>1 DEF Apply, CleanupApply, LeaveApply
    <3>2. shown[svc] \cap Foreign \subseteq want
      BY <1>1, <2>1 DEF DNSInv, NothingForeignLost, Writing, Apply, CleanupApply, LeaveApply
    <3>. QED
      BY <1>1, <3>1, <3>2 DEF DNSInv, DNSTypeOK
  <2>2. CASE ~(Apply \/ CleanupApply \/ LeaveApply)
    BY <1>1, <2>2 DEF Maclet, Step, Join, Resolve, Install, Read, WriteRecord, Heartbeat,
      CleanupRead, Unresolve, Uninstall, LeaveFile, LeaveRead, LeaveRecord,
      LeaveEnds, Stop, Kill, Leave, host
  <2>. QED
    BY <2>1, <2>2
<1>2. DNSInv /\ [Next]_vars =>
        [Maclet => \A s \in Services : shown[s] \cap Foreign \subseteq shown'[s]]_vars
  BY <1>1
<1>. QED
  BY <1>2, DNSInductive, PTL DEF Spec, ForeignKept
=============================================================================
