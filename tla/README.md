# A specification of Stash

TLA+ modules, TLC configurations and TLAPS proofs for Stash, a distributed
content-addressed storage written in Go.  Paths are relative to the repository.
The definitions are translated from the code; where a comment, a test or the
documentation says something else, a run shows the disagreement.

## 1. The system

A node is one process.  It serves gRPC requests, each in a goroutine of its own,
and runs a sender with three more goroutines (health check, rebase, replication).
All of them share one hash ring and one storage; nothing but the ring's mutex and
two unbuffered channels orders them.

| Component | State | Operations | What is hard | Correct when | Modelled |
|---|---|---|---|---|---|
| Ring searches `pkg/dht/dht.go` | none | `findIndex`, `findClosestElement`, `getClosest` | 64-bit overflow, gaps at both ends, a loop that ends without looking at the last element, slices that are not sorted | index in range, right neighbour, an id of the ring for a key, every call returns | yes |
| Hash ring `pkg/dht/dht.go`, `internal/services/dht.go` | `ids`, `nodes`, `mu` | `AddNode`, `RemoveNode`, `GetNodeForKey`, `NodeExists`, `GetNodes` | reads without the mutex, an index used after it went stale, a panic under the mutex, map races | slice and map name the same nodes, a lookup finds a node, nobody waits for ever | yes |
| Membership `transporter/server.go`, `sender/client.go`, `app.go` | the rings of all nodes | `AnnounceNewNode`, `AnnounceRemoveNode`, `SyncNodes`, `LoadNodesFromSync`, `LoadNodesFromList`, `loadRingFromConfig` | check and act apart, aliases of an address, partial announcements, restarts | processes that have started all know each other; a start ends | yes |
| Content store `pkg/cas/*.go`, `internal/services/storage.go` | files, directories, rows of `keys(key, hash unique)` | `SaveCompressed`, `SaveRaw`, `GetHashesByKey`, `GetFileDataByHash`, `RemoveByKey`, `RemoveByHash` | no lock at all: file and row are separate steps, `os.Create` truncates, directories vanish, crashes | a row stands for a whole file, a removal removes, an upload is kept | yes |
| Transfer `server.go`, `client.go` | a buffer per stream | `SendChunks`, `ReceiveInfo`, `ReceiveChunks`, `sendFile` | streams cut off, a file read while it is rewritten | what arrives is what was stored | partly: saving, and a transfer as reading the file, then what its receiver does |
| Rebase `client.go` | `notifyRebase`, offset | `Rebase`, `handleRebaseSignal`, `checkForRebase`, `copyStorage`, `removeKeys` | paging over rows that are being removed, uploads between copy and removal, transfers that truncate the receiver's file, receivers that hang, retries | no content is lost, every foreign key moves | yes |
| Replication `client.go`, `server.go` | `replicationChan` | `handleReplication`, `nextKeyGenerator` | unordered senders, replica keys that meet at one node, dead nodes | copies lie where their keys lead, stay, and are not copied in turn; every upload is dealt with | yes |
| Health check `client.go` | `Node.Alive` | `healthcheckLoop`, `checkHealthDispatcher`, workers | the live map changes under the loop, channels sized before it, no deadline | every node is checked again and again, and what is noted becomes true | yes |
| Start and stop `cmd/server/main.go`, `app.go` | readiness, signals | `NewApp`, `Serve`, `Run`, `Stop` | serving while the ring is still loaded, a panic that ends the process, goroutines the stop does not wait for | an accepted upload survives a graceful stop | partly |
| Local trees `pkg/cas` | files | `Store`, `saveTree`, `NewTree`, `RecreateTree` | partial trees, return values | the tree comes back | no: nothing a node runs, see 7 |
| Compression, configuration, logging, protocol and generated code | – | – | – | – | no: no state of their own |

Interactions: the transporter server calls both services; an upload ends in a
goroutine that blocks on `replicationChan`; `Rebase` blocks on `notifyRebase`; the
sender reads the ring and the storage from its own goroutines and calls the same
RPCs of other nodes.  At the start the configuration's nodes are loaded before the
server listens, and those of a synchronization peer while it serves.

## 2. Modules

| Module | Content |
|---|---|
| `RingOps` | the arithmetic on Go ints (`Minus` wraps at `2 * HalfRange`) and the two searches as functions, their loop a recursive function of its state |
| `SearchContract` | what the ring may rely on of its two searches |
| `RingSearch` | the two searches as a machine, one loop iteration per step |
| `MCRingSearch` | its instance for TLC |
| `RingSearchProofs` | theorems about `RingSearch`, and about the functions of `RingOps` that the ring takes its searches from |
| `HashRing` | the ring of one node with handlers and the loader, one action per stretch of code that nothing can interleave with |
| `MCHashRing` | addresses, hashes and aliases for TLC; the searches from `RingOps` |
| `HashRingProofs` | theorems about `HashRing`, for handlers that run beside each other |
| `SerialRingProofs` | theorems about `HashRing`, for requests that come one at a time |
| `ContentStore` | what the storage promises: a content becomes readable under one key, whole and at once, until the key is removed |
| `Storage` | files, directories and rows, one action per call to the operating system or the database |
| `MCStorage` | uploads, keys and directories for TLC |
| `StorageProofs` | theorems about `Storage` |
| `Rebase` | the rebase loop of one node: signals, pages, copies to peers, removals, with uploads and ring changes beside it |
| `MCRebase` | keys, peers and destinations for TLC |
| `RebaseProofs` | theorems about `Rebase` |
| `HealthCheck` | the health check of one node: the dispatcher, its two channels, the workers, `Node.Alive`, with announcements and removals beside it |
| `MCHealthCheck` | two addresses for TLC, one of them known at the start |
| `HealthCheckProofs` | theorems about `HealthCheck` |
| `Replication` | the replication loops of all nodes, with uploads, ring changes, faults and rebases beside them |
| `MCReplication` | uploads, the nodes replica keys fall on, and what may change, for TLC |
| `ReplicationProofs` | theorems about `Replication` |
| `Membership` | the processes of a system: start, synchronization, announcement, failure and restart |
| `MCMembership` | a seed and two joiners for TLC, on one host or on two |
| `MembershipProofs` | theorems about `Membership` |

Composition: `MCHashRing` takes the searches of a ring from `RingOps`, which `RingSearch` is
checked and proved against; `SearchContract` stands between the two, assumed by `HashRing`
and proved of `RingOps` in `RingSearchProofs`; `Storage` is shown to implement `ContentStore`.  `Rebase`
has the steps of uploads and removals on files and rows again, without the directories of
`Storage`, as they meet transfers there.  Elsewhere a larger module takes what a smaller one
has checked as one step: `Replication` an upload of `Storage`, and of a rebase only the
listing, each copy and the removal; `HealthCheck` and `Membership` an addition or a removal
of `HashRing`.  Each says at its head what it takes from where.

Operators named after a deviation (`GoRightSkips`, `RmPanicWaits`, ...; each says
so in its comment) are not part of a specification.  They are what a plausible bug
would make of the action after them, and each property of a passing run is violated
when one of them takes that action's place.

### RingSearch and RingOps

Variables are those of the Go functions (`arr`, `target`, `low`, `high`, `mid`); `fn`
says which of the two runs, as their loops differ only in what they return.
Every `return` is an action and so is every way through the loop body; `FallOut` is
the `return mid` behind the loop.  Slices are arbitrary sequences, since `insertId`
does not keep them sorted.  The property `Functional` ties the machine to the
functions of `RingOps`, which other modules use to take a search as one step.

In `RingOps` the loop is a recursive function on the states `Probes(n)`: `Iterate` is one
iteration, given what the iterations after it come to, and `Stop` says how the loop
ended (at the target, in a gap, or out of the loop) and where; the two searches differ in
what they make of that.

### HashRing

`mu`, `ids`, `nodes` are the fields of `HashRing` (of the map only its keys: nothing
compares the nodes).  `pc`, `id`, `newIds`, `index` are the locals of the goroutines.

- `AnnounceNewNode` and `AnnounceRemoveNode` are the handlers up to the call of the
  ring: the `NodeExists` check of the address as it was sent, then its resolution.
  `AddLock`/`AddStore`/`AddPut` are `AddNode`: `insertId` builds its slice, stores it,
  and the map is written.  `RmIndex`/`RmLock`/`RmDelete`/`RmCut` are `RemoveNode`, which
  searches before it locks; `RmPanic` is the slice expression out of range, after which
  the interceptor of `internal/app/grpc/app.go` recovers and the mutex stays locked.
- `LookupId`/`LookupNode` are `GetNodeForKey`.
- A read of `h.ids` without the mutex is a data race.  `VisibleIds` is what it may
  find: the slice; while a new one is stored, any pairing of the old and the new
  pointer and length (`StaleWords` stands for what lies behind the shorter array);
  while a removal shifts elements, a slice shifted in part.  One read of the slice
  header serves a whole search, as Go passes slices by value; elements shifted in the
  middle of a search are covered only as far as a single partial shift describes them.
- `FatalMapRace` is the runtime's check of concurrent map access, which ends the
  process; that it may also go unnoticed is the other outcome.
- `LoadNext` adds the next address of the configuration, then of the synchronized
  list.  An address of the configuration that does not resolve is added as a nil
  address (`utils.HandleFatal` only logs); one of the synchronized list panics the
  process (`LoadFails`).

`Scenarios` is a set of records, one of which is chosen in `Init`: the lists that are
loaded, the handlers that serve, the arguments of their requests and the bound on the
slice.  One run so covers several situations, and the properties say in which of them
they hold (`AddsOnly`, `OneHandler`).

`AddressAssumption` is what the serial properties need of the hash: that the FNV hashes of
the addresses at hand do not collide, and that a resolved address resolves to itself.  Else a
removal would find, in the map, the id of another address and look for its own in the slice.

Abstracted: `HashKey` is any function; the state `Alive` of a node, which is in
`HealthCheck`; the payload of replies.

### Storage

`file[h]` is `none`, `partial` or `full`: the content of a hash is fixed, because it is
the hash of that content.  Two assumptions lie in that: clients of compressed uploads
send the right hash (the server does not check it), and packing a content gives the
same bytes on every node.  A write is one call for all of the data, so it is one step;
one that stops short leaves the file partial.  `attached` says whether the file a
writer has open is still the one at its path: bytes written to an unlinked file are
lost.  `rows[h]` is the key of the only row of a hash (the column is unique).

- Uploads (`Writers`): `Receive`, `Mkdir`, then for raw ones `Stat` and `Compare`, for the
  others `Create` at once, `Write`, `Insert`, each with its failure.
- The removal (`Remover`): only the rebase goroutine removes keys, one after the
  other.  `RemoveByKey` lists the hashes, `Unlink`/`UnlinkFails`, `ReadDir`, `Rmdir` and
  `RmdirFails` are `RemoveByHash`, `DeleteRows`/`DeleteFails` the statement on the rows.
- `Crash` ends every goroutine; files, directories and rows stay.

A content is readable (`Readable`, the refinement mapping) when its row is there
(`ReceiveInfo` lists it) and its file is whole (`ReceiveChunks` sends it).

### Rebase

`rows` and `older` are the table `keys` (`older[h]` stands for the column `id`: the rows
inserted before that of `h`), `file` the files of this node (`none`, `part` or `whole`),
`peer` the rows of the others and `torn` those of their files that are not whole.  `dest[k]` is
what `checkForRebase` learns of `GetNodeForKey(k)`: `Self` when its address is `":port"`,
`Nobody` when there is no node or it is not alive, else a peer.  `hung` are the peers that keep
their connections and do not answer.

- `Call` is the handler of `Rebase`, blocked on `notifyRebase` until `Signal`.
- `CheckForRebase`/`CheckFails` read a page (`GetKeysByChunks`: distinct keys by their
  first row, from `offset` on) and look up its keys.  One step stands for all lookups, as
  the ring changes key by key here and a lookup has no effect.
- `CopyKey`, `SendFile`, `NoFile`, `KeyCopied`, `CopyStorage` are `copyStorage` on this side.
  `SendFile` reads the file, which a handler may be rewriting (`data` is what was read).
- The receiver of a transfer runs `SaveCompressed`, which truncates and rewrites the file
  before its row may refuse it: `Accepted`, `SendRefused`, `ReplyLost` (it arrives, and the
  call fails all the same), `ReceiverFails` (it dies or its disk is full behind `os.Create`).
- `Alias` is this node under an address it does not recognize: it is sent its own content,
  truncates the file it has just read (`SelfCreate`), rewrites it and is refused by its
  own row (`SelfRefused`), or fails or dies in between (`SelfWriteFails`, `Crash`).
- `Hang` and `Resume` are a peer's; `sendFile` has no deadline, so a rebase whose receiver hangs
  is `Stuck` until that resumes or `ConnectionBreaks`.
- `RemoveKey`, `Unlink`, `DeleteRows` are `removeKeys`; `NextPage` advances the offset.
- `Stat`, `Create`, `Write`, `UploadRow`, `UploadFails` are the handlers of uploads; a
  compressed one does not look for the file before it truncates it.  `linked` are those
  whose open file is still the one at its path.  `RingChange` is an announcement, a removal or
  the health check.

`exposed` are the contents that met the rebase, a crash or a fault half done, in one of the ways
`NothingLost` lists; it only grows, and no guard reads it.  Directories are in `Storage`.
Peers do not rebase or remove, and only the transfers of this node write their files.

### HealthCheck

`nodes` is the map of the ring with the `Node` objects in it: an address that is removed
and added again, or added twice under an alias, has a new object, and `made` counts them.
`alive` are the objects of the map whose `Alive` is set, `peer` what the process at an
address really is.

- `Tick` to `EndRound` are `checkHealthDispatcher`, line by line: it reads `len(nodes)`
  for one channel (`MakeJobs`), again for the other (`MakeResult`), ranges over the map
  (`RangeNext`, `SendJob`), and starts as many workers as a third reading says
  (`StartWorkers`).  Between any two of them the map may change.  `left` and `new`
  are what a Go range must and may still produce.
- `Take`, `Answer`, `Put`, `Finish` are `checkHealthWorker`.  Nobody reads the second
  channel, so `Put` counts.  A process that hangs is waited for: the request has no deadline.
- `AddNode` and `RemoveNode` are what handlers do to the map, `GetDestination` what a
  request is told of a node.
- `FatalMapRace` is the runtime's check of a range beside a write.

A node is dead until its first answer, and one that joins while the dispatcher is between
the readings of `len(nodes)` and the start of the workers can leave it, or a worker,
blocked on a channel that is full: health checks then stop until the process is restarted.
`BlockedOnlyByJoin` says that nothing else does that.

### Replication

`rows[n][h]` is the key under which node `n` has content `h`; a key is a pair of an
upload's key and a level, the number of `_replica` behind it.  `dest[n][k]` is what
`GetNodeForKey` answers on node `n`, so rings may disagree.

- `Upload` is an accepted upload; when it asks for replication, its goroutine waits for the
  unbuffered channel (`outcome` is `waiting`), and `TakePair` takes any that waits.
- `NextKey`, `Done`, `NoDestination` are the loop of `handleReplication`; `SendFile`,
  `SendFails` and `ConnectionBreaks` its call of `sendFile`, an upload at the receiver that
  asks for no replication.
- `Exit` is a crash or a stop: those that wait, and the one at work, are lost.  `Hang` is a
  process that does not answer: `sendFile` has no deadline, and the sender waits with it.
- `RingChange` changes one destination at one node.
- A rebase is that of a page with one key: `RebaseLists` the contents of a key that leads to
  another node, `RebaseCopies` them one after the other, `RebaseRemoves` every row the key has
  by then, and `RebaseFails` anywhere, with what was copied staying.  Several nodes rebase
  beside each other.  `late` are the contents recorded at a node whose rebase was at
  their key; no guard reads it.
- A content arrives with its row in one step, and a removal of a key is one step: what
  can happen in between is in `Rebase` and `Storage`.

`ReplicasKept` says which copies there are, and it is fewer than the configuration's
documentation promises (`README.md:55`: a factor of 1 "results in 2 copies, etc."):
a replica key that falls on an address already used is skipped and not replaced;
one that falls on the sending node, or on one that has the content already, is refused
there (the column `hash` is unique) and ends the replication.

### Membership

The processes of a system with a port and a host each.  `ring[p]` are the addresses in the
ring of `p`; `Target(p, a)` is the process that `p` reaches at `a`, which for an address
without a host is one of its own host.

- `Start` loads the configuration and begins to serve; `SyncNodes`, `Receive` and `Load` are
  `LoadNodesFromSync` against the live map of the synchronization node; `AnnounceNewNode`,
  `RequestAccepted`, `Added`, `Announced` are the announcement, node by node, over the live
  map of the process itself, with the check and the addition at the receiver apart.
- `SyncFails`, `NobodyToTell`, `RequestFails` end the process, as `MustRun` panics on the
  error; `ReplyLost` adds the address all the same.
- `Exit`, `Hang`, `Resume` are what happens to processes; `OperatorRemoves` is
  `AnnounceRemoveNode`, which no code of a node calls.

What the model shows beyond its properties: of two processes that start at once each may
learn of the other before the other announces itself, and the one refused ends
(`StartsSucceed` is stated for starts that do not overlap); a configuration that names the
synchronization node twice, by an alias, makes the second announcement to it fail; and
a synchronization node that does not list itself is not in the ring of the process that
asked it.

## 3. Runs

`tlc -config <cfg> <module>` in this directory.  Deadlock is not checked where the
system really may stop: a search that has returned, a process that has died, a ring
whose mutex is never released.

### Runs that pass

| Run | Instance | Question |
|---|---|---|
| `ring_search` | 3-bit words; all sorted slices, all slices up to length 4, and up to length 6 of four of the words; all targets | `IndexInRange`, `LowerNeighbour`, `HitOrNeighbour`, `ClosestNode`: what the searches return; `LoopInvariant`, `LoopNarrows`: why, and that they get there; `Functional`: `RingOps` computes the same |
| `ring` | four scenarios: `Adds`, 2 handlers that add and look up, 4 addresses, a loader with lists that do not resolve, 6 ids; `Serial`, 1 handler, 4 addresses, an alias and one that does not resolve, 5 ids; `Full`, 2 handlers and a loader that add and remove, 3 ids; `Shifting`, 2 handlers that remove and look up, 4 ids | `TypeOK`, `LockDiscipline`, `LeakFreezesRing`, `EveryCallReturns`, `LookupFindsAnId` in all, this one also of a slice that a removal is shifting; `IdsMatchNodes`, `RingShape` (which order the slice really has) without removals; `NoLeakAlone`, `RemovalExact` for one request at a time |
| `store` | 2 writers, 4 contents in 2 directories, 2 keys, raw and compressed uploads that meet each other, the removal of a key, or only its directories; two faults | `TypeOK`, `RowHasFile`, `AtRestConsistent`, `FirstKeyWins`, `RowsReadable`, `RemovalComplete`, and `ImplementsContentStore`, the refinement |
| `rebase` | 2 keys in pages of one, 3 contents, a peer with a row of its own that may hang, an alias, one fault, one ring change; two uploads, again and again: a raw one of a new content, and a compressed one of a content that is there | `TypeOK`, `NothingLost`, `RebasesConverge`, `CallsReturn` |
| `health` | 2 addresses, one that goes down and up and one that hangs and recovers, up to 2 nodes made for each, 2 workers | `TypeOK`, `BlockedOnlyByJoin`, `RoundComplete`, `RoundsEnd`, `AliveConverges` |
| `replication` | 3 nodes, one under two addresses, 2 contents; 2 uploads to be replicated by one node and one in their way; factor 3, two replica keys at one node; one fault, one changed key, two rebases | `NoChains`, `ReplicasKept`, `Findable`, `EveryPairHandled` |
| `membership` | a seed and two joiners on one host, one fault, one edit by an operator, restarts | `MeshComplete`, `StartsSucceed`, `RejoinNeedsRemoval`, `StartsEnd` |

Why the bounds are enough.  Every loop exit of the searches needs at most five
elements, and overflow happens with words of three bits as with 64.  Two handlers
and the loader give two that race and a third that waits; three ids are one more than
the two whose removals make the third panic.  The removal errors of unsorted slices appear at four
ids in a row (five when the slice is sorted), and four ids leave elements
that shift behind a removed one and others in front of it.  Two contents in one directory and one in another
give every case of `ReadDir`; two writers of one content can truncate what the other has
compared, and a content of its own in a directory that is being removed gives the case that
they do not meet; two faults are a crash, and a failure in the retry.  Pages of one key make two
keys two full pages and a last empty one; the first key starts as the node's own, so that
a rebase passes it, and may become foreign, which is when the offset skips the second.  A caller that asks again as soon as it is served is
one more than `notifyRebase` holds.  A compressed upload of a content that is there is the one
that truncates a recorded file without getting a row, a new content under the key at work the
one that comes too late for the copy.
Two addresses, one known and one that joins, are enough for every channel of the health
check to be one place short, and two nodes for one address for a worker to note its answer
in one that has left the map.  A factor of three has two replica keys meet and a third
apart; two pairs make one wait for the other; two rebases are those of two nodes at once, and
one that moves on what the other has moved.  Three processes are a joiner, one that knew it before and one that
did not; a third start after two is where a list has two entries.

`RowHasFile` and `AtRestConsistent` are stated for contents no removal is after
(`Safe`), beside removals of others in the same directory: a removal may unlink the file
that an upload has found, before its row is recorded, although `services/storage.go:22-23`
promises that both are there.
`NothingLost` leaves out four kinds of contents that the code really loses: one
recorded between the listing of its key for the copy and the removal of the key, which is
removed without having been copied; one whose file is unlinked while an upload that has written
or found it is not over; one the rebase reads while a handler rewrites its file, so that what
arrives is cut short; and one whose file a handler has truncated, a transfer to the node
itself included, and then failed or died.  `RebasesConverge` has as its premise that the
rebase does not wait for ever for a receiver that hangs, and does not go on meeting a
key without a live owner, a missing file, or a content its owner refuses, be it because
an earlier rebase that failed halfway has sent it already.  `CallsReturn` has the same
exception for the receiver that hangs: it blocks every later call.

`ReplicasKept` leaves out a content that arrives at a node while the rebase there is at
its key: the removal takes it along without a copy.

`RemovalExact` is stated for at most four ids in order: with five, `findIndex` may
answer a neighbour of an id that is there (`HitOrNeighbour` allows that), and
`RemoveNode` then cuts the wrong id.  `ImplementsContentStore` and `RowsReadable` are
stated for contents whose raw upload meets no other upload or removal of the same
content (`Apart`), in the same run as contents where that happens.  `RemovalComplete` is
stated for contents nobody uploads while their key is removed.

`RoundsEnd` has the three exceptions the code has: a join that blocked the round, a peer
that hangs, and the runtime's end of the process.  `Findable` is stated for replica keys the
rings agree on, as nothing in the code brings rings together.  `EveryPairHandled` counts a
pair lost with its process as handled, and leaves out a loop whose receiver hangs.

### Runs that show a disagreement

| Run | Property, from | What happens |
|---|---|---|
| `ring_sorted` | `IdsSorted`, from `TestInsertId` | an id below the first is inserted behind it |
| `ring_leak` | `MutexReleased`, from `services/dht.go:61-62` | of two overlapping removals the second panics and leaves the mutex locked |
| `store_retry` | `RemovalSucceeds`, from `storage.go:391-394` | after a crash every retry of the removal stops at the file that is gone |
| `rebase_skips` | `AllChecked`, from `stash.proto:26-27` | the first key moves, and the advanced offset passes the second |
| `membership_hosts` | `MeshComplete`, from `config.go:69-70` | a process announces itself as `:port`, and a process of another host takes that for one of its own |

The models contain further ones that no run is spent on: two announcements of one
address both pass `NodeExists` and insert its id twice; a map read beside a write ends
the process; two raw uploads of one content both find no file, and the later truncates
what the earlier has recorded (`storage.go:175-176` says it is not overwritten); an
upload recorded between the listing and the deletion of its key's rows leaves a file
without a row, and one recorded between the copy and the removal of its key is lost;
`DB.RemoveByKey` returns nil when its statement fails; a rebase that failed halfway is
refused for ever what it has sent; a compressed upload that is refused, because its hash has a
row, has already overwritten the file; a replica that arrives at a node between the listing
and the removal of its key there is lost; and there are fewer copies than `README.md:55`
promises, as told under Replication.  `proto/stash.proto:31-37` says that a node passes
an announcement or a removal on to the nodes it is connected to; the handlers
(`server.go:213-252`) change the ring of their own node and pass on nothing, which is how
`Membership` has them: the one that announces calls every node itself, and
an operator has to call each node to remove an address from all rings.

## 4. Fairness

`RingSearch` needs none: `LoopNarrows` bounds its steps.  `HashRing`: weak
fairness of every started stretch of a goroutine and of the loader, as the Go scheduler
runs what can run; strong fairness of taking the mutex, as `sync.Mutex` hands itself
over to a waiter passed by for a millisecond.  No fairness of requests.  `Storage`: weak
fairness of the removal and of its retry, which the refutation of `RemovalSucceeds`
needs so that the removal is not merely never tried again.  `Rebase`: weak fairness of
the goroutine's steps and those of a receiver that does not hang, and of the callers, so
that there is always another rebase; a receiver that hangs blocks the goroutine, and nothing
makes it answer or its connection break.  `HealthCheck`: weak fairness of the dispatcher (the
ticker ticks) and of each worker; a request to a process that hangs is not enabled, so
nothing assumes that it is answered.  `Replication`: weak fairness of each node's loop, with
the same exception.  `Membership`: weak fairness of what a process that does not hang does,
as the requests of its start have a deadline of five seconds; none of crashes, restarts,
`Resume` or the operator.

## 5. Proofs

All theorems hold for every value of the constants that satisfies the named
assumptions.

`RingSearchProofs` (from `HalfRangeAssumption`, `ArraysAssumption`).  First the loop as a
function: `LoopExists` shows that the recursive definition of `RingOps` has a solution, and
`LoopEnds` where it ends.  Both go by the width of the interval, and the induction is not a
theorem with an operator for a parameter but the least element of the set of widths for which
the claim is false (`LeastElement`, from the library's fact that `<` is well founded on the
naturals).  `FindIndexLocates` and `FindClosestElementRoutes` follow: for every slice of ints,
sorted or not, of any length, the functions keep the contract `SearchContract`, which is
`SearchAssumption`, what the ring assumes of its searches.

Then the machine: types (`low`, `high`, `mid` stay in the slice); `LoopInvariant`: the target
stays between `arr[low]` and `arr[high]`, on any slice, and when the interval has closed to
one element, the last probe was next to it.  The second half is what makes the `return mid`
behind the loop wrong by at most one, and needs the case distinction of both ways through
the body.  `Functional` needs `InLoop`: wherever the loop is, the function of what is left
is what it was at the beginning.  `LowerNeighbourHolds`, `HitOrNeighbourHolds` and
`ClosestNodeHolds` follow at the returns, and only an id that is there and the nearest one need
a sorted slice; `IndexInRangeHolds` and `LoopNarrowsHolds` need no order.

`HashRingProofs` (from `StringsAssumption`, `ProcsAssumption`, `ScenariosAssumption`,
`SearchAssumption`): the inductive invariant is `TypeOK`, `LockDiscipline`, and three parts
that no property states: an id being added is a hash (`IdTyped`), a slice under
construction is `InsertId` of the current slice (`InsertBuilt`: true only because the
mutex is held, which is why `LockDiscipline` comes with it), and nobody removes when no
removal is requested (`NoRemovals`).  `IdsMatchNodes` rests on a lemma about `InsertId`: it
keeps all elements and adds one, wherever the search says.  `LeakFreezesRing` follows
from `LockDiscipline`: whoever changes the ring holds the mutex, and the holder of a
leaked mutex is not in its critical section.  `RingShape` goes by
the one place where an insertion splices the slice (`SpliceKeepsShape`): the id goes
behind one that is smaller and in front of one that is greater, or, below the first, right
behind the first.  `LookupFindsAnId` needs that a slice shifted in part has only elements of
the slice (`ShiftedElements`); it has no use for any order.

`SerialRingProofs` (from the same, and `AddressAssumption`): with one handler and nothing to
load while it serves, one process is in the ring at a time (`Alone`); so what a removal has
found is still so when it cuts (`Fresh`: its id is in the map, and its index is the one the
search gives of the slice as it is).  `Balanced` counts: the map never has more nodes than the
slice has ids, and one less between the halves of an add or a removal, so that the slice is
not empty when a removal cuts it, whatever has gone wrong with the ids before.  `Origin` (an id in
the map is that of an address given) is what `AddressAssumption` needs.  `NoLeakAlone` is
then that the index is one of the slice, and `RemovalExact` that it is the right one, if the slice
is in order and has at most four ids.

`StorageProofs` (from `StorageAssumption`): `TypeOK` and `TornOnlyInWrite` are inductive
(a step that opens a file truncates it, one that closes it has completed it or used up
a fault, an unlinked file is detached).  `FirstKeyWins` needs `RemoverKey`, that the
remover works on a key of `RemovedKeys`.  `RowHasFile` and `AtRestConsistent` follow
from `Uploading`, about contents no removal is after: a writer about to record one has its
file, a file without a row has a writer about to record it, unless a fault stopped one,
and the remover never lists one, because its rows have no removed key.

`RowsReadableHolds` and `Implements` add `Wholeness`, about the contents of `Apart`: such a
content that has a row is whole; the one writer that is after it creates its file only
where none is, writes it before there is a row, and records it when it is whole.  The
refinement then goes action by action: no write completes a recorded file, so a content
becomes readable by `Insert` only (a `Put`), and stops being so by `Unlink` and `DeleteRows`
only (a `Remove` of the removed key's contents, which nobody uploads).  `RemovalComplete`
needs `Listed`: while a removal is at work, a content of its key that nobody uploads is still
to be removed or has no file.

In `HashRingProofs`, `TypeOKHolds` also bounds the slice: with the ids being added and the
addresses still to load it has room, whatever is removed meanwhile.

`RebaseProofs` (from `RebaseAssumption`): `NothingLost` is not inductive.  `Kept` adds, each but for
`exposed` contents, that what is about to be removed has arrived (`Arrived`: of each key listed
for copying every content but those still to send is held, whole, by its destination, which
is another node), that the hashes at work have the key at work (`AtWork`), that rows name the
key last acknowledged (`RowAcked`), that an upload in flight has its file, whole or being
written (`InFlight`), and that what is being sent was read whole (`Sending`).
`Arrived` is what a refusal that ends the rebase buys, the one by this node itself included, and
what a changed ring cannot break, as the destination is the one of the check; a copy at a
peer stays whole because whole contents are all that is sent over it.

`HealthCheckProofs` (from `HealthCheckAssumption`): types with `Working` (the first worker
exists while the dispatcher waits, and none is done before the channel is empty).
`RoundComplete` needs `Cover`: a node that is due is still to be ranged over, in the
dispatcher's hand, in the channel or with a worker.  `BlockedOnlyByJoin` needs `Room`: jobs,
what the range must still produce and the node in hand fit both channels; later, the
answers, the jobs and the busy workers do.  The argument counts, so it rests on lemmas about
the cardinality of sets that gain or lose an element.

`ReplicationProofs` (from `ReplicationAssumption`): types with `Loops` (only pairs of uploads
that asked for it are replicated, each by the loop of its node).  `RowsStep` reduces the
steps on rows to four (`Uploaded`, `Copied`, `Moved`, `Removed`), which the lemmas of all
properties go through.  `Findable` needs `Routed`: rings differ only in changed keys, and a
loop sends to where its key leads, and `Directed`: so does a rebase.  `ReplicasKept` needs `Kept`,
which strengthens "some node has the row" to `Safe`: some node has it that is not about to
remove it without a copy (`Doomed`), unless the content is late.  That survives
several rebases at once because a copy is made before a node's own row is doomed, and because
the receiver of a copy at work on the same key makes the content late.  It also needs `Covered`: every
address a loop has looked up is in `usedNodes`, and every one there has a copy or is
the one at work.

`MembershipProofs` (from `MembershipAssumption`): `RejoinNeedsRemoval` needs `Ahead`: of a
process that announces itself, those it knows and that knew it are all still before it in
its range, each at an address it has not come to, and it is adding itself at none of them.

`MeshComplete` and `StartsSucceed` depend on how the processes are configured, so their
theorems have that as a hypothesis, which the instance that TLC checks satisfies
(`ConfigAssumption`): one host (`OneHost`; `membership_hosts` shows what happens with two), and
one seed, all others asking some other process and announcing themselves (`Seeded`); for
`StartsSucceed` also that each process goes by one name and lists no other than the one it
asks (`Named`): a second name for a process makes the second announcement to it fail, and a
listed process that is down fails the start of those that learn of it.  The invariant
speaks of `Calm` systems, where nothing has failed and no two starts overlapped, and `CalmSteps`
says which steps keep a system calm.  `InTurn`: one process starts at a time, after the seed, and
rings keep their configured nodes.  `Meeting`: a process that has its list knows all that
are ready, and those that do not know it yet are before it in its range; `NamesInTurn`: rings
name only processes that are ready or announcing themselves, and a process that announces
itself is known only to those it has come to.  The hosts come in where an address that one
process has learned is used by another (`SameTarget`).

Only model-checked: liveness (`EveryCallReturns`, `RebasesConverge`, `CallsReturn`,
`RoundsEnd`, `AliveConverges`, `EveryPairHandled`, `StartsEnd`), which needs fairness and
ENABLED and is out of the prover's reach.  Every invariant and action property of a passing
run is proved.

## 6. What could be added

The rings of two nodes that learned of the same addresses in different orders are not
compared: `RingShape` says what the order of insertion does to one of them.  `Rebase` has the
steps of `Storage` without its directories, and `Replication` takes an upload or the removal of a
key as one step; neither is itself shown to be a refinement.

## 7. Not modelled

- Local trees (`Store`, `saveTree`, `NewTree`, `RecreateTree` of `pkg/cas`): no code of a node
  calls them.  `NewTree` answers an error for every path, so `Store` ends at its first call.
- The chunks of a stream, `ReceiveInfo` and `ReceiveChunks`: they keep no state beyond the
  call.  What a reader gets is the refinement mapping of `Storage`.
- The signal handler and the calls `GracefulStop` waits for: a stop is an `Exit` between them.
- Compression (the storage models use that a content is packed to the same bytes),
  configuration, logging and the generated protocol code, which keep no state of their own.
