# A TLA+ development of maclet

maclet is a node agent that makes a Mac a node of a K3s cluster. It registers the Node, keeps
its status and Lease alive, runs Pods as native processes under the Macker runtime, gives each
Pod an address of the node's PodCIDR on a bridge, joins Flannel's VXLAN, answers kubelet
requests and manages the Mac's DNS settings. This directory models the parts where failures,
crashes and interleavings decide whether it is right. Source paths below are relative to
`src/pkg/maclet/` unless they name another directory.

## 1. Inventory

| Component | Source | State it keeps | Operations | What is hard |
|---|---|---|---|---|
| Workload manager | `workload_manager.go`, `workload_reconcile.go`, `workload_logs.go`, `workload_network.go` | `m.workloads`, `m.retained`; on disk `workloads.json` and the archived logs; in Macker the containers; on the host aliases and mounts | load and persist the journal, one reconcile pass, removal, sweep, drain, pruning of logs | a crash between any two effects, a step of several failing, stale lists, restarts racing exits |
| Pod status | `workload_status.go` | status objects of the API server | build and PUT a status, retry on 409 | lost writes, conflicts, Pods recreated under one name |
| Pod translation | `workload_mounts.go`, `workload_volumes.go`, `workload_env.go` | volume directories | arguments of `macker run` | container names cut at 120 characters, partly built volumes |
| NFS | `nfs*.go` | mounts, records in the journal | mount, adopt, unmount through a helper | a mount made before it is recorded |
| Bridge, routes, addresses | `darwin_network.go` | aliases, routes, static ARP | set up, add and remove an address, peer routes, clean up | stale aliases, a partial set-up |
| Flannel and VXLAN | `flannel.go`, `vxlan.go`, `vxlan_recovery.go`, `network_platform.go` | Node annotations, feth interfaces, pid files | annotate, clear, set up, recover | what a killed daemon left, other people's interfaces |
| Join session | `join.go`, `bootstrap.go` | the running session | set up in order, heartbeat loop, shutdown | undoing a set-up that fails in the middle |
| Join supervisor, lock | `supervisor.go`, `daemon_lock.go` | delay and attempt, the lock file | retry with back-off, exclusion | reset of the delay, which errors end the daemon |
| Node ownership | `ownership.go`, `state_files.go`, `node_name.go` | instance ID and Node UID on disk, labels of the Node | adopt, verify, create, persist | a crash between the API write and the disk write, a Node replaced by name |
| Node status, cordon, Lease | `node.go`, `control_plane.go` | Node object, Lease | patch, full PUT, cordon, uncordon, renew | operator's cordon, conflicts, updates by name |
| Leave | `leave.go` | as node ownership | drain, delete the Node, remove state | runs without the daemon lock |
| Search domains | `dns_search_domains.go` | the Mac's search domains, a state file | reconcile, cleanup, leave | foreign changes, a crash between set and record |
| DNS resolver file | `dns_resolver.go` | `/etc/resolver/<domain>` | write, remove, find the helper address | files of somebody else |
| Kubelet server, tunnels | `kubelet_server.go`, `kubelet_handler.go`, `kubelet_exec.go` | a tunnel per server, sessions | discover, connect, serve logs, exec | servers that come and go, records copied out of the lock |
| Resource metrics | `resource_metrics.go` | a monotone CPU counter per Pod | scrape | concurrent scrapes out of order |
| Cleanup controller | `cleanup.go` | none | force-delete Pods of lost Nodes | old lists |
| State material, auth, kubeconfig | `state_material.go`, `auth.go`, `kubeconfig.go`, `node_discovery.go`, `workloads_api.go` | files under the state directory | request, store, read | little |
| API client, CLI | `src/pkg/kube/client.go`, `cli.go`, `privilege.go` | none | one request, flag parsing | little |

How they interact: the supervisor runs sessions one after another under the daemon lock. A
session verifies that it owns the Node, uncordons it, sets up the network, loads the workload
journal, starts the kubelet server and its tunnels, and then repeats, every ten seconds, the
DNS refreshes, the Node and Lease updates and a reconcile pass. The reconcile pass talks to the
API server (list, status), Macker, the bridge, the NFS helper and the disk. Kubelet requests
read copies of the manager's records. On SIGTERM the session cordons the Node and drains.

`PROJECT.json` lists, under "hazards", what is hard to test at the line where it bites.

What makes each component correct: the manager never loses track of a workload, an address or a
mount it made, never reports what is not so, and brings every Pod to its desired state; the
Node is written only by the installation that owns it, and an operator's cordon survives; the
search domains and resolver files end up as they were found; recovery takes over exactly what
maclet left; a counter never goes down or counts twice.

## 2. Plan

Done, in this order:

1. `WorkloadManager` with `MCWorkloadManager`, `WorkloadManagerProofs` and `WorkloadHostProofs` --
   the core (section 3).
2. `NodeOwnership` with `MCNodeOwnership` and `NodeOwnershipProofs`: adoption, recreation and
   persistence of the Node, the cordon marker, status writers by name, leave (section 4).
3. `HostDNS` with `MCHostDNS` and `HostDNSProofs`: search domains and the resolver file against
   foreign edits, failing commands and crashes, and what leave undoes (section 5).
4. `MacNetwork` with `MCMacNetwork` and `MacNetworkProofs`, on top of `PodAddresses` with
   `PodAddressesProofs`: the set-up and clean-up of a session's network, the recovery of what a
   killed daemon left, and the division of the PodCIDR (section 6).
5. `Kubelet` with `MCKubelet` and `KubeletProofs`: the tunnel supervisor and the CPU counters
   (section 7).
6. `PodLifecycle`, the abstract specification of the workload manager, which `WorkloadManager`
   implements, and `PodLifecycleProofs` (section 3).

Every invariant and every action property the passing runs check is also a theorem, and so is the
refinement; section 9 lists them with their assumptions.

Left, in this order:

1. Exit codes and the 409 retry of a status write; ConfigMap refreshes of running Pods.
2. The back-off of the supervisor as pure arithmetic, and the helper's hand-off of an NFS mount.

How the modules fit together: `MacNetwork` EXTENDS `PodAddresses`, and `WorkloadManager`
instantiates `PodLifecycle`. The other modules share no state: each models the rest of the daemon
by what it can do to the module's own state -- a session that ends at any step is a kill or a
failure in all of them -- and the README says at each where the others come in.

## 3. WorkloadManager

### State and actions

| Variables | In the code |
|---|---|
| `live born deleting phase podIP podRestarts` | the API server's Pods: existence, deletionTimestamp, `status.phase`, `status.podIP`, restart count |
| `assignable` | the addresses of the PodCIDR that no gateway of a peer reserves, as the session found them |
| `managed wl retained retLog` | `m.workloads` (address, RetryAfter, RestartCount, LogFile set, NFSMounts set) and `m.retained` |
| `journal logs` | `workloads.json`, the archived log files |
| `box boxIP aliases mounts` | Macker's container of each Pod and its address, addresses on the bridge, NFS mounts |
| `listed terminating used dirty report todo pc` | locals of `reconcile`: the list it works on, `used`, `journalChanged`, the status about to be written, the Pods left, the point of control |

A pass holds `m.mu` throughout. The model splits it where an effect leaves the process, since
the API server, an exiting workload or a crash may come between two of them. One action per
step, in the order of the code:

`BeginPass` (prune, list, `used`) - for each Pod: `RemoveDeleted`, `PersistRetained` (deletion
branch); `SkipForeign`; `RejectUnsupported`; `AdmitNew` or `AdmitKnown`; `NoAddressLeft` or
`RefuseAddress` or `AssignAddress`; `AddAlias`; `Inspect`; `InspectUnreadable`, `Complete` or `Restart` and
`PersistRestart`; `Prepare`; `PersistMounts`; `Start`; `WaitRunning` or `WaitFailed`;
`PersistStarted`; `PutStatus` - then `BeginSweep`, `SweepOne`, `EndPass`. `StartSession` is
the network set-up and `loadJournal`; `Shutdown`, `DrainOne`, `DrainAgain`, `EndSession` are the
drain, which the code runs twice; `Crash` kills the process at any step.

An action that calls something that can fail chooses the set `F` of operations that fail in it
from `FaultKinds`, at most `MaxFaults` times in a behaviour: `persist` (journal write), `put`
(status write), `alias`, `mount`, `unmount`, `args` (building the invocation), `run`, `ps`,
`stop` (`macker stop` or `rm`), `logs`, `inspect` and `decode` (`macker inspect` fails, or its
output cannot be read), `missing` (Macker is not on PATH), `crash` and `renumber`. A journal write
that fails leaves the old file or the new one (`FileAfter`): `writePrivateFile` can fail after
its rename, too. `Renumber` is the cluster: between two sessions the Node gets another PodCIDR or
other peers, and with them another set of `assignable` addresses. A Pod that reports an address
outside it is `Refused`: `RefuseAddress` reports it Pending in every pass, before the
terminal-phase check, so also when it had finished.

Abstractions: a Pod is a UID, a number in the order of the list; a container, a log file, an NFS
export per Pod; RetryAfter is set or not, and `RetryElapses` is the passing of ten seconds; the
log of a record is there or not. Not modelled: 409 conflicts of status writes, ConfigMap
refreshes of running Pods, changes of labels, a kubelet server that fails to start (which drains
like a shutdown), and a signal in the middle of a pass, which cancels the pass's requests to the
API server (`join.go:340`): the model shuts down between two passes.

### What it promises: PodLifecycle

`PodLifecycle` is what somebody sees who knows the API server and the processes of the Mac alone:
each Pod's phase and restart count, which Pods have a workload that runs, and which are being
deleted or gone. A workload runs only while its Pod is not finished; a Pod that is not restarted
for ever finishes with nothing left running and keeps its final phase until its deletion is
acknowledged, again with nothing left running, or its address is refused (`Refuse`), which reports
it Pending. `refused` is an input: the Pods whose reported address the Node cannot give. No
workload is started for such a Pod (`Run`). Every report adds to the restart count or keeps it
(`Add`), except `Acknowledge`, which may start it from zero: the deletion branch makes a new record
for a Pod it has none of, and that record has no count (`workload_reconcile.go:111-122`). There is
no journal, pass, fault or crash in it.

`WorkloadManager` implements it: `Lifecycle` instantiates it with `running` = the Pods whose
container runs, `doomed` = the Pods with a deletionTimestamp or without an object and `refused` =
`Refused`, and
`LifecycleKept == Lifecycle!Spec` is a property of `workload_faults`. Most steps are stutters; the
interesting ones are a status write that is late (the report was composed steps before), a
restart after a crash, and a removal that failed half-way. It holds with failing `macker stop`,
lost status writes, a renumbered Node and a crash or a shutdown at any step. It does not hold with a failing alias
(see below), when Macker cannot be found (a removal then succeeds with the workload running), or
when a journal write fails and the daemon is killed (the restart count falls back).

### Runs

| Run | Instance | Checks |
|---|---|---|
| `workload_faults` | service 1 on the host network, job 2, addresses {3, 4}; crash, stop, put, renumber; one fault, stop, exit | `TypeOK`, `RunningJournaled`, `DeletionAcknowledged`, `OwnershipInv`, `LifecycleKept` |
| `workload_host` | services 1 (with NFS) and 2, unsupported Pod 3, foreign Pod 4, one address; every preparation, journal, log, alias and inspect fault, renumber; one fault, stop, exit | `RunningMounted`, `MountsTracked`, `UniqueAddresses`, `AddressReported` |
| `workload_liveness` | services 1 and 2, one address; crash, stop, alias, run, renumber; one fault, one stop; fair | `DeletedStops`, `NativeSettles`, `AddressRestored` |
| `logs_served` | one job, no fault | `LogsServed` is violated |
| `sweep_order` | two services, no fault | `AddressServed` is violated |

Bounds: two Pods show every conflict between Pods (an address, the order of the sweep); one
fault, one crash or shutdown and one exit, freely placed, reach every pair of a failing step and
an intervening event. The journal, the API server and Macker are not bounded otherwise. Restarts are bounded by
`MaxExits`. The constraint `InertPodsFirst` of `workload_host` has the two Pods the manager does not
run exist from the beginning, before the daemon starts, and stay, with no address: a Pod rejected by
the manager is reported with the address it has, which is none, and a foreign Pod's status is not
the daemon's to write. They interact with the others only through the passes that come to them
and skip them. `NativeSettles` is checked with a start that fails, so that `RetryAfter` is set and
has to elapse (its mutant is a comparison that never comes true), and with an address that is
refused, which it excepts (`Refused`): such a Pod is Pending for good. The properties say in their
comments which faults they exclude:
`RunningJournaled` and `DeletionAcknowledged` exclude `missing`, the first also `persist`;
`UniqueAddresses` and `AddressReported` exclude crashes and lost status writes, because the code
chooses addresses from `Status.PodIP` alone and forgets a journaled address whose status was
never written; `RunningMounted` excludes `stop`, since a drain unmounts even when the stop failed.

Fairness (`FairSpec`): weak fairness of the daemon as a whole -- the heartbeat ticker goes on and
the supervisor, or launchd, starts a daemon that ended -- and of time passing a RetryAfter. No
fairness for the API server, exits, faults or crashes: these are bounded, never required.
Deadlock is checked: the system never stops, because a daemon always has a next pass.

### What the code does not keep

* **`logs_served`**: the pass after a job's completion admits it again with an empty record, which
  hides the retained one from `kubectl logs` (`workload_manager.go:364`; README.md:423-425).
* **`sweep_order`**: an address freed by a vanished Pod is given to a new one and then swept away
  with the old workload (`workload_reconcile.go:386`; ARCHITECTURE.md:139). `AddressRestored`
  shows that the next pass puts it back.

Seen while modelling, and listed as hazards without a run: a record whose first journal write
failed is never written again for that reason (`workload_reconcile.go:185`), and after a second
failure the workload is started without a record on disk; completion drops a failing stop and
the alias and mount of the record (`workload_reconcile.go:305`); a Macker missing from PATH
makes removals succeed (`:30`); a failing `macker inspect` reports a failed job as Succeeded
(`workload_manager.go:389`); a lost status write or a crash changes a Pod's address (`:192`); a
completed job with an address of its own runs again when the daemon restarts and its address
cannot be put on the bridge, because the address comes before the terminal-phase check (`:227`
before `:234`, the other way round in ARCHITECTURE.md:288-289); a completed job whose address is
refused after the Node was renumbered is reported Pending again, for the same reason and
without any fault of the Mac (`:206` before `:234`); every pass over a Pod that is still
terminating makes a new record without LogFile and replaces the retained one with it, so that
the archived log is neither served nor ever pruned (`:112`, README.md:426-427); and a retained
record that expires removes the log file of the record that came after it (`workload_logs.go:64`).

### Proofs

`WorkloadManagerProofs` proves, for every set of Pods, policies, addresses, fault kinds and
bounds that satisfy the named assumptions of `WorkloadManager`:

* `TypeCorrect`: `Spec => []TypeOK`. `TypeOK` is inductive. Its one lemma of substance is
  `FirstFreeType`: the `CHOOSE` of the lowest free address yields a free address, by
  well-foundedness of `<`.
* `DeletionAcknowledgedTruly`: without `missing`, `Spec => []DeletionAcknowledged`.
  `AcknowledgeInv` strengthens it: a Pod listed as deleted never enters the stages that start a
  workload, and the acknowledgement follows a removal that left no container.
* `OwnershipAlways` and `RunningAlwaysJournaled`: without `missing` and `persist`,
  `Spec => []OwnershipInv` and hence `Spec => []RunningJournaled`. `RunningJournaled` is not
  inductive: a record can be in memory alone, namely that of a deleted Pod whose removal failed (the
  code keeps it without persisting it), and starting that Pod would break the property. `OwnershipInv` says that such Pods are doomed -- deleted for good, and listed
  as deleted if a pass still has to come to them -- that memory knows every running workload while
  the daemon is up, that the Pod between admission and start is in the journal, and that a
  container found exited is not running. `OwnershipMove` and `OwnershipQuiet` are the two ways a
  step of the Pod loop keeps it.

`WorkloadHostProofs` proves what the manager does to the Mac:

* `AddressesAlwaysUnique` and `AddressesAlwaysReported`: without `put` and `crash`,
  `Spec => []UniqueAddresses` and `Spec => []AddressReported`. Neither is inductive, since an address is
  chosen many steps before it is reported and the allocator looks at reported addresses alone.
  `AddressInv` says that no two Pods report the same address, that the pass has every reported one
  in `used`, that a workload runs on the address its Pod reports, and that the Pod between
  `AssignAddress` and `PutStatus` holds an address nobody reports. It needs no journal: a session
  that begins after a drain finds the reported addresses in the list.
* `RunningAlwaysMounted`: without `stop` and `missing`, `Spec => []RunningMounted`, crashes, failing
  journal writes and unmounts included. `MountedInv` follows a mount through `Prepare`,
  `PersistMounts` and `Start`: made, then in memory, then in the journal, and only then needed.
* `MountsAlwaysTracked`: without `crash` and `unmount`, and when the Pods with NFS volumes have the
  policy Always, `Spec => []MountsTracked`. `TrackedInv` adds that a drain still has every Pod with a
  mount before it. The condition on policies is one the code needs: completion retires the record
  of a Never or OnFailure Pod without unmounting (`workload_reconcile.go:305`).

`PodLifecycleProofs` proves the refinement, `ManagerImplementsLifecycle`: without `missing`, `alias`
and `persist`, `Spec => LifecycleKept`. Initial states map to initial states, and `LifecycleStep` gives for
each action the step of `PodLifecycle` it is: `Start` is `Run`, a stop, an exit, a sweep or a drain is
`Halt`, `PutStatus` is `Report`, `Refuse`, `Finish` or `Acknowledge`, the rest are stutters. A report is written
several steps after it was composed, so the mapping needs `LifecycleInv`, which joins the invariants
of `WorkloadManagerProofs` with two more. `PhaseInv`: a Pod that finished by itself
reports an address, so a later pass refuses that address or reaches the terminal-phase check before
it could report anything else; a final phase that has no address is an acknowledgement, and its Pod
stays in the deletion branch. That `Refused` cannot change under a report is why it matters that a
session keeps the PodCIDR and the peers it began with. `RestartInv`: whichever of memory and journal a
later pass continues from, it has counted at least what the Pod reports; of a Pod that is being
deleted a record may also have no count at all (`Recalled`), which is why its acknowledgement may start
from zero.

The two modules share the lemmas on how a step of the Pod loop leaves the other Pods alone
(`PodLocal`, `OneCurrent`, `PersistRecord`).

Only model-checked: `DeletedStops`, `NativeSettles` and `AddressRestored` (liveness).

## 4. NodeOwnership

### State and actions

Several installations (`Dirs`, one instance ID and one state directory each) are configured with
one Node name.

| Variables | In the code |
|---|---|
| `node` | the Node object: UID, instance marker, `spec.unschedulable`, shutdown-cordon marker, who wrote the Flannel annotations and the status; UID 0 when there is none |
| `secret` | the node-password Secret of K3s: whose password it has |
| `asked` | whether the operator's last word on this Node was to cordon it |
| `disk uid` | `state.json`: absent, there, removed by leave; its `NodeUID` |
| `pc` | where a session, or a leave, of the directory has come to |
| `snap fresh` | the local `node` of `runJoinSession`; whether its resourceVersion is current |

One action per request to the API server and per write of `state.json`, so that two
installations and the operator come between any two of them:
`Join`, `WriteState` (bootstrap); `FindNode`, `PostNode`, `FindWinner`, `PatchNode`
(`ensureOwnedNode`); `PersistUID`; `Uncordon`; `AwaitPodCIDR`; `ConfigureFlannel`; `Serve`;
`Refresh`, `UpdateStatus` (a heartbeat); `Shutdown`, `Cordon`, `ClearFlannel`; `SetupFails`;
`Kill` at any point; `Leave`, `LeaveSecret`, `LeaveNode`, `LeaveFiles`. `DeleteNode`,
`CreateNode` and `SetCordon` are the operator. A patch that carries a resourceVersion
(`PatchNode`, `UpdateStatus`) takes effect only when `fresh`; the others hit whatever Node
has the name.

Abstractions: the network is configured (VXLAN on, so Flannel data are published), `--once` is
off; labels, taints, addresses, the Lease and certificates are left out; the number of
conflict retries of a status patch is not counted, and the cordon patch, which carries no
resourceVersion, does not conflict. `PatchNode` is the adoption; the patch that restores a drifted
label or taint of a Node that is already marked changes nothing of the model's Node. `WriteState` is the
state file of the first join, which the code writes in the bootstrap (`bootstrap.go:242-246`) and
again after it. `SetupFails` undoes the annotations, as most of the early returns after their
publication do; the one at `loadJournal` leaves them (`join.go:151-155`), which `LoadJournal` of
`MacNetwork` has. A session reads the annotations and patches them in one
step of `ClearFlannel`: the patch removes its four keys whatever the read said. `maclet leave`
runs "after the daemon has stopped" (ARCHITECTURE.md:361 of the repository); the code does not
check that.

`LiveReplacement` says whether a Node may be deleted or created while a session that has
claimed it goes on. With TRUE the ownership properties fail, because requests after
`ensureOwnedNode` address the Node by name, and `configureFlannel` even repeats the old
annotations, the marker among them. The passing run and three of the theorems assume FALSE;
`NodeTypeCorrect` and `CordonsAlwaysMarked` do not.

### Runs

| Run | Instance | Checks |
|---|---|---|
| `node_ownership` | installations A (`--adopt`) and B; two stops or failures, one cordon or uncordon by the operator; fair | `NodeTypeOK`, `SessionOwnsNode`, `WrittenByOwner`, `CordonsMarked`, `MarkerStable`, `CordonLifted` |
| `operator_cordon` | one installation, one shutdown, one cordon | `OperatorCordonKept` is violated |
| `owner_lockout` | one installation, two kills, one deletion | `OwnerAdmitted` is violated |

Bounds: two installations show every race for a Node, two stops a shutdown and a crash in the
next session or in its set-up; `MaxNodes` = 2 lets the operator delete or create a Node until
there were two, and sessions and leave go on beyond it. Deadlock is not checked: once every
installation has left and the operator has done what the bounds allow, nothing happens any
more, as in the real system.

Fairness: a session that has begun goes on (each of its steps is a request or a write that
returns), a leave goes on, and a stopped daemon of a joined directory is started again
(launchd or its user). The operator, kills and failures are never required. `CordonLifted`
needs it: the next join is what lifts the cordon.

### What the code does not keep

* **`operator_cordon`**: on shutdown a Node the operator cordoned gets maclet's marker
  (`node.go:70` skips only a Node that has both), and the next join lifts the operator's cordon
  (README.md:459-460, ARCHITECTURE.md:356).
* **`owner_lockout`**: between the POST that recreates a Node and the write of its UID a crash
  leaves a Node with this installation's marker that every later join refuses
  (`ownership.go:66`, `:103`; ARCHITECTURE.md:202-203).

A hazard without a run: K3s stores the hash of the node password before `state.json` exists
(`bootstrap.go:180`), so a first join that stops in between cannot be repeated.

### Proofs

`NodeOwnershipProofs` proves for any number of installations and any bounds:

* `NodeTypeCorrect` and `CordonsAlwaysMarked`, without further assumptions. `CordonsMarked` is
  inductive: both fields are set in one patch, and the operator's word is forgotten with the
  Node.
* `SessionsOwnTheirNode`, `OwnersWrite` and `MarkersStable`, for `LiveReplacement = FALSE`, from
  one inductive invariant, `OwnershipInv`. `SessionOwnsNode` alone is not inductive: the adoption
  needs that a copy with the current resourceVersion is the Node (`FreshCopies`) and was
  unmarked when it was inspected (`AdoptsUnmarked`), so that nobody can hold the Node it marks;
  the requests by name need that the session's copy has its own marker (`Holds`).
  `OthersHold` is the argument for everybody but the actor: the Node keeps UID and marker,
  or nobody holds it.

Only model-checked: `CordonLifted` (liveness).

## 5. HostDNS

### State and actions

| Variables | In the code |
|---|---|
| `shown` | what `networksetup -getsearchdomains` shows of each network service, a set of domains |
| `file` | `/etc/resolver/cluster.local`: none, somebody else's, or maclet's with its nameserver |
| `dns` | the address of the kube-dns Service |
| `record torn` | `search-domains.json`: one record or none; whether it cannot be decoded |
| `left` | whether nothing has joined since the beginning or since the last leave that succeeded |
| `list svc owned want` | `clusterDNSSearchDomains`: `domains`, `service`, `owned`; the argument of `apply` |
| `rowned raddr goal` | `clusterDNSResolver`: `owned`, `nameservers`; the address `writeManagedResolverFile` is about to write |
| `pc clean` | the stage of the session or of leave; whether leave has had no error |

A session is sequential and runs under the daemon lock, so one `pc` serves it, the sessions that
follow it and leave. `Join` creates the two objects; `Resolve` is the resolver's `reconcile` up to
the look at the file (`dns_resolver.go:158`), `Install` the rename (`:189`); `Read` and `Apply` are
the two halves of the search domains' `reconcile`, one command each. Others may come in between; `WriteRecord` writes the record, after the first reconcile alone;
`Heartbeat` starts the two reconciles again; `Stop` leads to `CleanupRead`, `CleanupApply`,
`Unresolve` and `Uninstall` (look and removal of the file), in the order of the deferred calls; `Kill` may come at any step; `Leave`, `LeaveFile`,
`LeaveRead`, `LeaveApply`, `LeaveRecord` and `LeaveEnds` are `maclet leave`, whose requests to the
cluster are in `NodeOwnership` and here may only fail. Every command that can fail may fail,
`MaxFaults` times. `EditDomains` and `EditFile` are other programs, `ChangeDNS` the cluster.

Abstractions: the order of a list, the global override that `verify` warns of, two lookups of
kube-dns with different identities (a success of either is a success) and the
helper process that writes or removes the resolver file under sudo (the same two steps in another
process). The file itself is replaced in one step, by a rename; the record is not: `os.WriteFile`
empties it first, so that a failure or a kill may leave it undecodable (`Tear`), with which
every later leave fails (`dns_search_domains.go:453-456`). Other programs add only their own domains. A service is found by device or flag at
the start of a session; if the underlay has no device the session does without (`NoService`).

`Races` says whether others may edit a list, or write the resolver file, between maclet's look at it
and its write, rename or removal. With TRUE `ForeignKept` and `ForeignFileKept` fail: macOS has no
conditional write of a list, and the rename replaces, and the removal removes, whatever is
there by then, although ARCHITECTURE.md:247-248 says that "unmanaged files are never
overwritten". The run and the two theorems assume FALSE, and show that nothing else
than this window loses a domain or a file of others.

### Runs

| Run | Instance | Checks |
|---|---|---|
| `host_dns` | one service, a session with the default list and one with a longer one, two addresses, one of them the fallback; two edits, one fault, one shutdown, one kill; fair | `DNSTypeOK`, `ResolverRemoved`, `RecordHonoured`, `ForeignKept`, `ForeignFileKept`, `HandedBack`, `Published`, `ResolverCurrent` |
| `late_ownership` | the same lists; one edit, one fault, one shutdown, no kill | `LeaveUndoes` is violated |

Bounds: two lists are needed for a record to say something the default does not; two edits make
a foreign domain come and go; one fault, one shutdown and one kill, freely placed, reach a clean-up that
fails followed by a killed leave, and a session after a killed one. Deadlock is checked: another
join is always possible.

Fairness: a maclet that runs goes on (`WF_vars(Step)`: each step is a command that returns, and
the ticker goes on). Joins, shutdowns, kills and others are never required, hence the
liveness properties allow that the session ends.

### What the code does not keep

* **`late_ownership`**: other domains keep maclet off a service when the session begins and go
  away later; a heartbeat then publishes the list, but the record is written at the start alone
  (`join.go:199`). One failed command in the clean-up and `leave` works with the default list: a
  domain given by `--dns-search-domain` stays, and leave reports success
  (README.md:663-664, ARCHITECTURE.md:269-270). A kill between the set and the record does the same.

### Proofs

`HostDNSProofs` proves, for any services, lists, addresses and bounds: `DNSTypesKept`,
`LeaveRemovesResolver` and `RecordsAreHonoured`, and for `Races = FALSE` `ForeignFilesKept` and
`ForeignDomainsKept`. They come from one inductive invariant, `DNSInv`: a session knows the
service it writes (`ServiceKnown`); from its first step on a leave without errors keeps the
file gone, because nothing of maclet that writes it runs meanwhile (`FileGone`); what leave is about
to set has none of the recorded domains, so that the record may go (`RecordUndone`); what
is about to be set has everything foreign that is there (`NothingForeignLost`), and whoever is
about to rename or remove the file has not found a foreign one (`FileLooked`), which is where
`Races` comes in. The types are proved in two lemmas, the Boolean variables by Zenon and the
others by SMT.

Only model-checked: `HandedBack`, `Published`, `ResolverCurrent` (liveness).

## 6. MacNetwork and PodAddresses

### State and actions

`PodAddresses` is pure: addresses are offsets in a PodCIDR of `Size` addresses, and its operators
are the bridge address, the gateway of each Flannel peer, what is reserved, what the allocator
looks through and chooses, and what `addWorkloadIP` refuses.

| Variables of `MacNetwork` | In the code |
|---|---|
| `podCIDR peers flannel assigned` | the API server: `spec.podCIDR`, the VTEP MACs of the peers (the remote first), whose MAC the Node's annotations publish, addresses of Pods |
| `proc cidr bridges addrs` | the Mac: each darwin-vxlan process and the CIDR of its command line, its vmnet bridge, the addresses on it |
| `routes arps` | the routing table, the static ARP entries of each bridge |
| `child iface handle stale retried` | locals of `startVXLAN` and the `DarwinNetworkHandle` |
| `pc cancelled outcome` | where the session is, whether a signal has come, what it will return |

A tunnel's number stands for its process ID, its interface and its MAC; the number is used again when
nothing of the tunnel is left. Numbers in `Others` are tunnels of another identity.

One action per command or loop of commands: `Begin` (PodCIDR, peers); `Inspect`, `Terminate` or
`TerminateFails`, `Unaddress` (`recoverStaleVXLAN`); `Start`, `WaitForBridge` (`startVXLAN`);
`InstallARPs`, `InstallRoutes` (`setupDarwinNetwork`); `Publish`; `LoadJournal`; `StartKubelet` - then
`Heartbeat`, `AssignAddress`, `AddWorkloadIP`, `RemoveWorkloadIP` - then `Shutdown`, `Drain`,
`Unpublish`, `CleanAliases`, `CleanRoutes`, `CleanARPs`, `StopChild`, `Reap`; `Retry` is the
supervisor's wait. Every early return goes to the first stage of the clean-up the code runs for
it, and to the supervisor as an error it retries or not (`Either`: a failed `ps` or `ifconfig` may be
either): from `wait` only the child is stopped, from `arps` on the handle is cleaned up, from
`kubelet` on there is a drain. `Kill` and `Signal` may come at any step. `BridgeUp`, `CannotBind`,
`TunnelStops`, `TunnelDies`, `Teardown` are darwin-vxlan and vmnet; a loop of commands stops after
any number of them.

Abstractions: the ClusterCIDR and the ServiceCIDR are one destination; matching a command line
is membership in `Others`; an interface that holds the bridge address without being a bridge of
some tunnel, and a listing that cannot be parsed, are the `inspect` fault; a gateway MAC given by
flag is left out; DNS, Node ownership and workloads only end the session.

### Run

| Run | Instance | Checks |
|---|---|---|
| `mac_network` | tunnels 1 to 3 and one of others, PodCIDRs of 8 addresses, at most two peers, one Pod address; any command may fail; one fault, one stop, one event; fair | `NetTypeOK`, `RoutedThroughOwnBridge`, `AnnotationCurrent`, `NothingLeft`, `OthersUntouched`, `OneHolder`, `AliasesTracked`, `NetworkReturns`, `GatewayFresh` |

Bounds: three tunnels are the one a killed session left, an intruder and the new one; one
fault, one kill or signal and one event (a tunnel dies, a peer joins or changes its MAC, the
PodCIDR changes, an intruder starts), freely placed. The constraint `FirstNames` names the first PodCIDR
and MAC 1, which are interchangeable with the others, and lets either the remote's MAC change
or a second peer join. `OneHolder` needs the bound of one event: with two, an intruder may make its
bridge and die between the inspection and the start, and its bridge has the new one's address until
vmnet takes it away (a second look is taken only when the command itself cannot be started,
`vxlan.go:77-87`). The other safety
invariants also hold with two events (2.1 million states; no run of its own). Deadlock is checked.

Fairness: the session goes on and is started again by launchd or its user; a heartbeat comes;
darwin-vxlan and vmnet do what they were asked to; the cluster assigns a PodCIDR. Faults, kills,
signals and events are never required.

Seen while modelling, and listed as hazards: a tunnel that dies during a session is not noticed
before the session ends (`vxlan.go:93`; ARCHITECTURE.md:81 says maclet supervises the child); when
`loadJournal` fails the annotations stay (`join.go:151`); a peer that joins takes an address from
the end of the range that a Pod may already report, and that Pod's address is refused from the
next session on (`darwin_network.go:294`).

### Proofs

`PodAddressesProofs` proves for every size of the PodCIDR and every number of peers:
`GatewaysDistinct` and `GatewaysAreHosts` (so the duplicate check of `setupDarwinNetwork` cannot fail
on the gateways); `AllocationAccepted`, that `addWorkloadIP` accepts what the allocator chooses
and that it chooses the lowest such address, by well-foundedness of `<`; `AssignableRange`, that
what is left to Pods are the addresses from the fourth to just below the gateways; and
`NewPeerTakesAddress`, that each further peer takes the highest of them, the source of the hazard
above.

`MacNetworkProofs` proves about the state machine, for any number of tunnels, peers, Pods and
PodCIDRs, any faults, stops and events -- so also for two events and more, where TLC stops:

- `NetTypesKept`. The types (`Types`) come in four parts, one for each group of variables, and
  carry that a session past its beginning has a PodCIDR and at least one peer: without it the
  allocator and the refresh of the gateway MAC would leave their types.
- `OthersNeverTouched`, from `OthersInv`: nothing of others carries a CIDR of this Node, so no
  bridge the daemon finds by its address, waits for or empties is one of theirs.
- `AnnotationAlwaysCurrent`, which is inductive by itself.
- `AlwaysRoutedThroughOwnBridge`, from `RouteInv`: from the moment the bridge is found it exists or
  its tunnel does not run, and only a start makes a tunnel run, so a lost bridge never comes back
  under the session's eyes with empty tables; the ARP entries are there one stage before the
  routes.
- `AliasesAlwaysTracked`, from `AliasInv` and `RouteInv`: when the child is started no bridge holds
  the requested address any more, so whichever bridge is found later, an intruder's included,
  carries no workload address yet.

- `NothingEverLeft`: `Spec => []NothingLeft`. What a session has left can only be counted against its
  handle: `TrailInv` says that every route and ARP entry through its bridge is in the handle, and that
  the bridge it finds, an intruder's included, has none of anybody else; `TakenInv` that the
  addresses are, and that each stage of the clean-up that did not fail took away its kind; `ChildInv`
  and `LostInv` that the annotation is its own and a bridge that vanished does not come back. It
  builds on `AliasInv`.
- `AlwaysOneHolder`: `Spec /\ Undisturbed => []OneHolder`, where `Undisturbed` says that no intruder
  starts, for the reason given under "Run". `HolderInv` says that a tunnel which has yet to make its
  bridge finds no other with the address; it holds at the start because recovery ends with no
  process of this identity left. The property is about addresses of PodCIDRs: two tunnels
  of others may have whatever addresses they like.

Only model-checked: `NetworkReturns` and `GatewayFresh` (liveness).

## 7. Kubelet

### State and actions

| Variables | In the code |
|---|---|
| `listed answering` | the API servers `/v1-k3s/apiservers` names, those that accept a connection |
| `sup queue tunnels current closing` | the goroutine of `startKubeletTunnelSupervisorWithConnector`: its stage, the servers left in this pass, its map, the attempt it waits for, its context |
| `link dest live connected` | the goroutines of `startKubeletTunnel`: state, server, context, `connected` channel |
| `cpu alive parent root` | the processes of the Mac and the PID Macker reports for a workload |
| `scrape nodeCPU containerCPU` | the locals of each scrape, the two counters of `resourceMetrics` |

`StartServices`, `Tick`, `NextServer`, `PassDone`, `TunnelConnected`, `TunnelTimeout`,
`SupervisorDone` are the supervisor; `Cancel` ends its context; `Dial`, `ConnectionLost`, `Redial`,
`GoroutineEnds` one tunnel. A tunnel may connect at the moment its attempt is given up, since
`select` chooses freely. `ReadProcesses` reads the process table without a lock, `CountNode`,
`InspectWorkload` and `CountContainer` follow; processes fork, end and are replaced in between.

Abstractions: one workload; PIDs are not used twice; memory figures, formatting, the certificate
of the server and what runs through a tunnel (logs, exec) are left out.

### Run

| Run | Instance | Checks |
|---|---|---|
| `kubelet_services` | two servers (1 the fallback), two goroutines, three processes, one scrape at a time, two sessions, one change of the servers, two failures; fair | `KubeletTypeOK`, `TunnelsHeld`, `NeverOvercounted`, `EveryServerReached` |

Bounds: two servers show one that delays the other, and a fallback that is or is not in the list;
two sessions and two failures show an attempt given up and tried again. Three processes are a root,
its child and the root after a restart. The constraint `OneAtATime` explores tunnels and
counters one at a time -- they share the session only, and a new session begins with new counters --
and lets the list name no server or all of them at first. Deadlock is not checked: with the bounds used
up nothing needs to happen any more.

Fairness: the ticker fires every 15 seconds, an attempt ends after ten, a goroutine that can go on
does. Cancellation, changes of the servers, processes and scrapes are never required.

`NeverOvercounted` holds for one scrape at a time. With `Scrapes = {1, 2}` TLC finds two that run side by
side, of which the one with the older table updates the counter last; the next scrape counts the
difference again (`resource_metrics.go:121`; the HELP text says "Cumulative cpu time consumed").

### Proofs

`KubeletProofs` proves, for any servers, goroutines, finite set of processes and bounds:

* `TunnelsAlwaysHeld`: `Spec => []TunnelsHeld`. It is not inductive: `HeldInv` adds that a goroutine
  whose context lives exists (so a new one is not one that runs), that the server being connected
  has no tunnel yet, and that a cancelled or ended supervisor has cancelled all of them.
  `HeldStutters` is the step of everything that does not touch the tunnels.
* `KubeletTypesKept`: `Spec => []KubeletTypeOK`, for any number of scrapes side by side.
* `NeverAnOvercount`: `Spec => []NeverOvercounted` when scrapes are answered one after the other
  (`\A i, j \in Scrapes : i = j`; with two side by side it is false, see above). It is not inductive:
  `updateMetricCounter` takes a reading below the last one as it is and adds nothing, so that what
  ended processes had consumed is in the counter and no longer in the reading. `NodeInv` and
  `ContainerInv` say that this surplus was consumed by processes no later scrape will read --
  outside the table a scrape holds, and outside the tree of the workload it will count.
  `ContainerInv` tells apart whether the root has changed since, because then the next reading
  counts in full. `BornInv` supplies what makes this so: PIDs are new, so a tree only ever gains
  processes that have consumed nothing (`TreeOfFork`, `TreeOfExit`, `TreeOfRun`), and the
  tree of a new root has nobody in common with a table that was read before.

A total of CPU times is written as the number of consumed units (`Total`, the cardinality of the
pairs of a process and a number up to its CPU time), and a tree of processes as the smallest closed
set (`Descendants`): both are definitions one can reason about without induction over a set or a
recursion. `TotalGrows` and `TotalSplits` are the two facts about totals the proof needs.

Only model-checked: `EveryServerReached` (liveness).

## 8. Not modelled

* The length of waits: the delays of the supervisor, of tunnels and of polls are steps that happen some time.
* `--once`, a gateway MAC given by flag, verification that only logs.
* The 409 retry of a Pod's status, exit codes and messages; ConfigMap refreshes; image pulls;
  changes of a Pod's labels; Pod translation beyond its failure and its NFS mounts.
* The hand-off between the daemon and the privileged NFS helper.
* The cleanup controller: one request per Pod of a list, no state. What it deletes is
  `RemovePod` of `WorkloadManager`.
* Certificates, tokens, kubeconfig, node discovery, the HTTP client and the command line: requests,
  parsing and files, without an order of events that a model would add to.
* Memory figures of the metrics; the traffic of logs and exec through a tunnel.

## 9. What is proved

| Theorem | Property | Assumed beyond the modules' named assumptions |
|---|---|---|
| `TypeCorrect` | `TypeOK` | - |
| `DeletionAcknowledgedTruly` | `DeletionAcknowledged` | Macker is found (`missing` is no fault) |
| `OwnershipAlways`, `RunningAlwaysJournaled` | `OwnershipInv`, `RunningJournaled` | no `missing`, no `persist` |
| `AddressesAlwaysUnique`, `AddressesAlwaysReported` | `UniqueAddresses`, `AddressReported` | no `put`, no `crash` |
| `RunningAlwaysMounted` | `RunningMounted` | no `stop`, no `missing` |
| `MountsAlwaysTracked` | `MountsTracked` | no `crash`, no `unmount`; Pods with NFS volumes have the policy Always |
| `ManagerImplementsLifecycle` | `LifecycleKept` | no `missing`, no `alias`, no `persist` |
| `NodeTypeCorrect`, `CordonsAlwaysMarked` | `NodeTypeOK`, `CordonsMarked` | - |
| `SessionsOwnTheirNode`, `OwnersWrite`, `MarkersStable` | `SessionOwnsNode`, `WrittenByOwner`, `MarkerStable` | no Node is replaced under a session |
| `DNSTypesKept`, `LeaveRemovesResolver`, `RecordsAreHonoured` | `DNSTypeOK`, `ResolverRemoved`, `RecordHonoured` | - |
| `ForeignFilesKept`, `ForeignDomainsKept` | `ForeignFileKept`, `ForeignKept` | nobody writes the file or edits a list between maclet's look and its write (`~Races`) |
| `GatewaysDistinct`, `AllocationAccepted`, `NewPeerTakesAddress` | - | - |
| `NetTypesKept`, `OthersNeverTouched`, `AnnotationAlwaysCurrent`, `AlwaysRoutedThroughOwnBridge`, `AliasesAlwaysTracked`, `NothingEverLeft` | `NetTypeOK`, `OthersUntouched`, `AnnotationCurrent`, `RoutedThroughOwnBridge`, `AliasesTracked`, `NothingLeft` | - |
| `AlwaysOneHolder` | `OneHolder` | no intruder starts (`Undisturbed`) |
| `TunnelsAlwaysHeld`, `KubeletTypesKept` | `TunnelsHeld`, `KubeletTypeOK` | - |
| `NeverAnOvercount` | `NeverOvercounted` | one scrape at a time |

Each exclusion is one the code needs: TLC finds the property violated on an instance with two Pods,
one or two addresses and the excluded fault (for `persist` of `LifecycleKept`, together with a crash),
and sections 3 to 7 say for the others why. Liveness properties, ENABLED and what recursive definitions
compute for every input are beyond TLAPS; they are model-checked only, and each section ends its
proofs with their names.
