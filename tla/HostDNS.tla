------------------------------ MODULE HostDNS ------------------------------
(***************************************************************************)
(* The Mac's DNS settings that maclet manages: the search domains of the   *)
(* network service that carries the underlay, and the resolver file of     *)
(* cluster.local.  A session sets them up, repairs them on each heartbeat  *)
(* and takes them away when it stops; `maclet leave` takes away what a     *)
(* session that did not stop cleanly left.  Other programs edit both, the  *)
(* cluster's DNS address changes, and the daemon is killed.                *)
(*                                                                         *)
(* A service's search list is a set of domains.  Each setting is read by   *)
(* one step and written or removed by another: what is there may have      *)
(* changed in between.                                                     *)
(***************************************************************************)
EXTENDS Naturals, FiniteSets

CONSTANTS
  Services,      \* network services
  NoService,     \* the underlay device was not found
  Foreign,       \* search domains of other programs
  Joins,         \* what joins publish: a service (of the underlay, or a flag) and a list
  Assumed,       \* what leave assumes without a record: the underlay's, the default list
  Nameservers,   \* addresses of kube-dns
  Fallback,      \* ClusterDNS of /v1-k3s/config, or NoAddress
  NoAddress,
  Races,         \* whether others edit a setting between maclet's read and write of it
  MaxEdits,      \* bound: edits by others
  MaxFaults,     \* bound: commands that fail
  MaxStops,      \* bound: shutdowns
  MaxKills       \* bound: kills

Own == UNION {j.domains : j \in Joins \cup {Assumed}}
Domains == Own \cup Foreign

ASSUME JoinsAssumption ==
  /\ NoService \notin Services
  /\ Joins \cup {Assumed} \subseteq [service : Services, domains : SUBSET Own]
ASSUME DomainsAssumption ==
  Own \cap Foreign = {} /\ \A j \in Joins \cup {Assumed} : j.domains # {}
ASSUME AddressAssumption ==
  /\ NoAddress \notin Nameservers /\ Fallback \in Nameservers \cup {NoAddress}
  /\ Nameservers # {} /\ {"none", "foreign"} \cap Nameservers = {}
ASSUME DNSBoundsAssumption ==
  /\ Races \in BOOLEAN /\ MaxEdits \in Nat /\ MaxFaults \in Nat
  /\ MaxStops \in Nat /\ MaxKills \in Nat

VARIABLES
  shown,      \* host: the search list of each service
  file,       \* host: the resolver file: none, foreign, or maclet's, with its address
  dns,        \* cluster: the address of kube-dns
  record,     \* disk: search-domains.json, a set of at most one record
  torn,       \* disk: search-domains.json cannot be decoded
  left,       \* no join since the beginning or since the last leave that succeeded
  pc,         \* stage of the session or of leave
  list, svc, owned, want,   \* clusterDNSSearchDomains: domains, service, owned; apply's argument
  rowned, raddr,            \* clusterDNSResolver: owned, nameservers
  goal,       \* writeManagedResolverFile: the nameserver to write
  clean,      \* leave: no error so far
  edits, faults, stops, kills

host    == <<shown, file, dns>>
search  == <<list, svc, owned, want>>
resolve == <<rowned, raddr, goal>>
disk    == <<record, torn>>
vars    == <<host, disk, left, pc, search, resolve, clean, edits, faults, stops, kills>>

-----------------------------------------------------------------------------
DNSStages == {"down", "resolve0", "install0", "search0", "apply0", "record", "idle",
              "resolve", "install", "search", "apply",
              "unsearch", "unapply", "unresolve", "uninstall",
              "leave_file", "leave_read", "leave_apply", "leave_record", "leave"}

Files == {"none", "foreign"} \cup Nameservers

DNSTypeOK ==
  /\ shown \in [Services -> SUBSET Domains] /\ file \in Files
  /\ dns \in Nameservers
  /\ record \in SUBSET [service : Services, domains : SUBSET Own]
  /\ torn \in BOOLEAN /\ left \in BOOLEAN
  /\ pc \in DNSStages
  /\ list \in SUBSET Own /\ svc \in Services \cup {NoService}
  /\ owned \in BOOLEAN /\ want \in SUBSET Domains
  /\ rowned \in BOOLEAN /\ {raddr, goal} \subseteq Nameservers \cup {NoAddress}
  /\ clean \in BOOLEAN /\ edits \in Nat /\ faults \in Nat /\ stops \in Nat /\ kills \in Nat

Managed == file \in Nameservers

\* A command that can fail either works or uses up one of the faults.
Works == UNCHANGED faults
Fails == faults < MaxFaults /\ faults' = faults + 1

Init ==
  /\ shown \in [Services -> {{}} \cup {{f} : f \in Foreign}]
  /\ file \in {"none", "foreign"}
  /\ dns \in Nameservers
  /\ record = {} /\ torn = FALSE /\ left = TRUE /\ pc = "down"
  /\ list = {} /\ svc = NoService /\ owned = FALSE /\ want = {}
  /\ rowned = FALSE /\ raddr = NoAddress /\ goal = NoAddress /\ clean = TRUE
  /\ edits = 0 /\ faults = 0 /\ stops = 0 /\ kills = 0

-----------------------------------------------------------------------------
\* A session begins: new objects, nothing remembered of the last one.
Join ==
  /\ pc = "down" /\ pc' = "resolve0" /\ left' = FALSE
  /\ \E j \in Joins :
       /\ list' = j.domains
       /\ (svc' = j.service /\ Works) \/ (svc' = NoService /\ Fails)
  /\ owned' = FALSE /\ want' = {}
  /\ rowned' = FALSE /\ raddr' = NoAddress /\ goal' = NoAddress
  /\ UNCHANGED <<host, disk, clean, edits, stops, kills>>

-----------------------------------------------------------------------------
\* The resolver file

\* Mutant of Writable: whatever is there is overwritten.
Anything == TRUE

\* writeManagedResolverFile refuses a file that is not maclet's.
Writable == file # "foreign"

\* Mutant of UpToDate: the file is not looked at.
Remembered(a) == rowned /\ raddr = a

UpToDate(a) == rowned /\ raddr = a /\ file = a

AfterResolve == IF pc \in {"resolve0", "install0"} THEN "search0" ELSE "search"

\* clusterDNSResolver.reconcile once it has the address a, up to the look at the file
ResolveTo(a) ==
  IF UpToDate(a) \/ ~Writable THEN pc' = AfterResolve /\ UNCHANGED goal
  ELSE pc' = (IF pc = "resolve0" THEN "install0" ELSE "install") /\ goal' = a

\* The lookup of kube-dns gives its address.  When it fails the fallback is used, if there
\* is one; when the file cannot be read nothing changes.
Resolve ==
  /\ pc \in {"resolve0", "resolve"}
  /\ \/ Works /\ ResolveTo(dns)
     \/ Fails /\ Fallback # NoAddress /\ ResolveTo(Fallback)
     \/ Fails /\ pc' = AfterResolve /\ UNCHANGED goal
  /\ UNCHANGED <<host, disk, left, search, rowned, raddr, clean, edits, stops, kills>>

\* The rename that replaces whatever is there by now; a failure before it changes nothing.
Install ==
  /\ pc \in {"install0", "install"} /\ pc' = AfterResolve
  /\ \/ Works /\ file' = goal /\ rowned' = TRUE /\ raddr' = goal
     \/ Fails /\ UNCHANGED <<file, rowned, raddr>>
  /\ goal' = NoAddress
  /\ UNCHANGED <<shown, dns, disk, left, search, clean, edits, stops, kills>>

\* Mutant of Removable: a file with an older address is taken for somebody else's.
Current == file = dns

\* removeManagedResolverFile reads the file and removes nothing that is not maclet's.
Removable == Managed

\* clusterDNSResolver.cleanup, the last thing a session does
Unresolve ==
  /\ pc = "unresolve"
  /\ \/ ~rowned /\ Works /\ pc' = "down" /\ UNCHANGED <<rowned, raddr>>
     \/ rowned /\ ~Removable /\ Works /\ pc' = "down" /\ rowned' = FALSE /\ raddr' = NoAddress
     \/ rowned /\ Removable /\ Works /\ pc' = "uninstall" /\ UNCHANGED <<rowned, raddr>>
     \/ rowned /\ Fails /\ pc' = "down" /\ UNCHANGED <<rowned, raddr>>
  /\ UNCHANGED <<host, disk, left, search, goal, clean, edits, stops, kills>>

Uninstall ==
  /\ pc = "uninstall" /\ pc' = "down"
  /\ \/ Works /\ file' = "none" /\ rowned' = FALSE /\ raddr' = NoAddress
     \/ Fails /\ UNCHANGED <<file, rowned, raddr>>
  /\ UNCHANGED <<shown, dns, disk, left, search, goal, clean, edits, stops, kills>>

-----------------------------------------------------------------------------
\* The search domains

\* Mutant of Kept: the way to clear a list was once to set it to None.
NoneWhenEmpty(read, ours) == IF read \subseteq ours THEN {"None"} ELSE read \ ours

\* Mutant of Kept: the list is cleared.
Nothing(read, ours) == {}

\* splitSearchDomains: what others have there
Kept(read, ours) == read \ ours

\* Mutant of Plans: a service that maclet owns is not looked at again.
PlansOnce(read, new) == ~owned /\ read \subseteq list /\ new = list

\* What reconcile sets after it has read the list: what others have, when maclet owns the
\* service; its own list, when nobody else has anything there and it is not right already.
Plans(read, new) ==
  \/ ~(read \subseteq list) /\ owned /\ new = Kept(read, list)
  \/ read \subseteq list /\ ~(owned /\ read = list) /\ new = list

\* The list to set, if any
Planned == {new \in {list, Kept(shown[svc], list)} : Plans(shown[svc], new)}

Read ==
  /\ pc \in {"search0", "search"}
  /\ IF svc = NoService THEN pc' = "idle" /\ Works /\ UNCHANGED want
     ELSE \/ /\ want' \in Planned /\ Works
             /\ pc' = IF pc = "search0" THEN "apply0" ELSE "apply"
          \/ Planned = {} /\ Works /\ pc' = "idle" /\ UNCHANGED want
          \/ Fails /\ pc' = "idle" /\ UNCHANGED want
  /\ UNCHANGED <<host, disk, left, list, svc, owned, resolve, clean, edits, stops, kills>>

Apply ==
  /\ pc \in {"apply0", "apply"}
  /\ \/ /\ Works /\ shown' = [shown EXCEPT ![svc] = want] /\ owned' = (want = list)
        /\ pc' = IF pc = "apply0" THEN "record" ELSE "idle"
     \/ Fails /\ pc' = "idle" /\ UNCHANGED <<shown, owned>>
  /\ UNCHANGED <<file, dns, disk, left, list, svc, want, resolve, clean, edits, stops, kills>>

\* os.WriteFile empties the file before it writes it.
Tear == record' = {} /\ torn' = TRUE

\* writeSearchDomainsState, after the first reconcile alone
WriteRecord ==
  /\ pc = "record" /\ pc' = "idle"
  /\ \/ Works /\ record' = {[service |-> svc, domains |-> list]} /\ torn' = FALSE
     \/ Fails /\ (Tear \/ UNCHANGED disk)
  /\ UNCHANGED <<host, left, search, resolve, clean, edits, stops, kills>>

Heartbeat ==
  /\ pc = "idle" /\ pc' = "resolve"
  /\ UNCHANGED <<host, disk, left, search, resolve, clean, edits, faults, stops, kills>>

\* A signal, or a failure after the set-up; the deferred calls run, the last one first.
Stop ==
  /\ pc = "idle" /\ stops < MaxStops
  /\ pc' = "unsearch" /\ stops' = stops + 1
  /\ UNCHANGED <<host, disk, left, search, resolve, clean, edits, faults, kills>>

\* clusterDNSSearchDomains.cleanup
CleanupRead ==
  /\ pc = "unsearch"
  /\ \/ owned /\ Works /\ want' = Kept(shown[svc], list) /\ pc' = "unapply"
     \/ ~owned /\ Works /\ pc' = "unresolve" /\ UNCHANGED want
     \/ owned /\ Fails /\ pc' = "unresolve" /\ UNCHANGED want
  /\ UNCHANGED <<host, disk, left, list, svc, owned, resolve, clean, edits, stops, kills>>

CleanupApply ==
  /\ pc = "unapply" /\ pc' = "unresolve"
  /\ \/ Works /\ shown' = [shown EXCEPT ![svc] = want] /\ owned' = FALSE
     \/ Fails /\ UNCHANGED <<shown, owned>>
  /\ UNCHANGED <<file, dns, disk, left, list, svc, want, resolve, clean, edits, stops, kills>>

Kill ==
  /\ pc # "down" /\ kills < MaxKills
  /\ pc' = "down" /\ kills' = kills + 1
  /\ owned' = FALSE /\ rowned' = FALSE /\ goal' = NoAddress
  /\ (pc = "record" /\ Tear) \/ UNCHANGED disk
  /\ UNCHANGED <<host, left, list, svc, want, raddr, clean, edits, faults, stops>>

-----------------------------------------------------------------------------
\* maclet leave, after the daemon has stopped

\* cleanupLeaveResolver; an error does not end leave, but spoils it.
Leave ==
  /\ pc = "down" /\ ~left
  /\ \/ Works /\ clean' = TRUE /\ pc' = IF Removable THEN "leave_file" ELSE "leave_read"
     \/ file # "none" /\ Fails /\ clean' = FALSE /\ pc' = "leave_read"
  /\ UNCHANGED <<host, disk, left, search, resolve, edits, stops, kills>>

LeaveFile ==
  /\ pc = "leave_file" /\ pc' = "leave_read"
  /\ \/ Works /\ file' = "none" /\ UNCHANGED clean
     \/ Fails /\ clean' = FALSE /\ UNCHANGED file
  /\ UNCHANGED <<shown, dns, disk, left, search, resolve, edits, stops, kills>>

\* Mutant of Known: the record is not used.
NothingKnown == Assumed

\* What leave undoes
Known == IF record = {} THEN Assumed ELSE CHOOSE r \in record : TRUE

\* cleanupLeaveSearchDomains: without a domain of that list, nothing is set; with a record
\* that cannot be decoded, nothing is tried.
LeaveRead ==
  /\ pc = "leave_read"
  /\ \/ /\ ~torn /\ Works /\ list' = Known.domains /\ svc' = Known.service /\ UNCHANGED clean
        /\ want' = Kept(shown[svc'], list')
        /\ pc' = IF shown[svc'] \cap list' = {} THEN "leave_record" ELSE "leave_apply"
     \/ /\ (torn /\ Works) \/ Fails
        /\ clean' = FALSE /\ pc' = "leave" /\ UNCHANGED <<list, svc, want>>
  /\ UNCHANGED <<host, disk, left, owned, resolve, edits, stops, kills>>

LeaveApply ==
  /\ pc = "leave_apply"
  /\ \/ Works /\ shown' = [shown EXCEPT ![svc] = want] /\ pc' = "leave_record" /\ UNCHANGED clean
     \/ Fails /\ clean' = FALSE /\ pc' = "leave" /\ UNCHANGED shown
  /\ UNCHANGED <<file, dns, disk, left, search, resolve, edits, stops, kills>>

LeaveRecord ==
  /\ pc = "leave_record" /\ pc' = "leave"
  /\ \/ Works /\ record' = {} /\ UNCHANGED clean
     \/ record # {} /\ Fails /\ clean' = FALSE /\ UNCHANGED record
  /\ UNCHANGED <<host, torn, left, search, resolve, edits, stops, kills>>

\* runLeave goes on with the cluster and removes the state files unless something failed.
LeaveEnds ==
  /\ pc = "leave" /\ pc' = "down"
  /\ (Works /\ left' = clean) \/ (Fails /\ left' = FALSE)
  /\ UNCHANGED <<host, disk, search, resolve, clean, edits, stops, kills>>

-----------------------------------------------------------------------------
\* Others

Writing  == {"apply0", "apply", "unapply", "leave_apply"}
Settling == {"install0", "install", "uninstall", "leave_file"}

Others == /\ edits < MaxEdits /\ edits' = edits + 1
          /\ UNCHANGED <<disk, left, pc, search, resolve, clean, faults, stops, kills>>

\* Another program adds its domains to a service or removes what is there.
EditDomains(s) ==
  /\ Races \/ pc \notin Writing
  /\ \E new \in SUBSET (shown[s] \cup Foreign) : shown' = [shown EXCEPT ![s] = new]
  /\ Others /\ UNCHANGED <<file, dns>>

EditFile ==
  /\ Races \/ pc \notin Settling
  /\ file' \in {"none", "foreign"} \ {file}
  /\ Others /\ UNCHANGED <<shown, dns>>

\* kube-dns is replaced and gets another address.
ChangeDNS ==
  /\ dns' \in Nameservers \ {dns}
  /\ Others /\ UNCHANGED <<shown, file>>

-----------------------------------------------------------------------------
Step ==
  \/ Resolve \/ Install \/ Read \/ Apply \/ WriteRecord \/ Heartbeat
  \/ CleanupRead \/ CleanupApply \/ Unresolve \/ Uninstall
  \/ LeaveFile \/ LeaveRead \/ LeaveApply \/ LeaveRecord \/ LeaveEnds

Maclet == Join \/ Step \/ Stop \/ Kill \/ Leave

Environment == (\E s \in Services : EditDomains(s)) \/ EditFile \/ ChangeDNS

Next == Maclet \/ Environment

Spec == Init /\ [][Next]_vars

\* A running maclet goes on.
FairSpec == Spec /\ WF_vars(Step)

-----------------------------------------------------------------------------
\* Properties

\* maclet never takes away a search domain of somebody else, neither when it sets its list
\* nor when it hands the service back, stops or leaves.
ForeignKept ==
  [][Maclet => \A s \in Services : shown[s] \cap Foreign \subseteq shown'[s]]_vars

\* "unmanaged files are never overwritten": a resolver file of somebody else survives
\* sessions, shutdowns and leave.  Needs others who do not write the file between maclet's
\* look at it and the rename or the removal.
ForeignFileKept == [][Maclet /\ file = "foreign" => file' = "foreign"]_vars

\* A leave that succeeds has undone everything that any session before it did, however
\* that session ended: no domain of maclet is left on any service.
LeaveUndoes == left => \A s \in Services : shown[s] \cap Own = {}

\* It has also removed maclet's resolver file, whichever session wrote it and with whichever
\* address.
ResolverRemoved == left => ~Managed

\* leave gives the record of a session up only when every domain that the record names is
\* gone from the service that it names, after any number of failed or killed leaves.
RecordHonoured ==
  [][Step => \A r \in record \ record' :
       pc = "leave_record" => shown[r.service] \cap r.domains = {}]_vars

Listed == IF svc = NoService THEN {} ELSE shown[svc]

\* A domain of another program on a service that maclet owns makes maclet take its own
\* list away again.
HandedBack ==
  owned /\ ~(Listed \subseteq list)
    ~> Listed \cap list = {} \/ Listed \subseteq list \/ pc = "down"

\* A session that goes on gets its list onto a service that nobody else uses.
Published ==
  pc = "idle" /\ svc # NoService
    ~> pc = "down" \/ Listed = list \/ ~(Listed \subseteq list)

\* It also gets the address of kube-dns into the resolver file unless that is foreign,
\* after a change of the address, a removal of the file or a failed lookup.
ResolverCurrent == pc = "idle" ~> pc = "down" \/ file \in {dns, "foreign"}
=============================================================================
