# Spegel: a TLA+ model of the mirror

Spegel runs on every node of a Kubernetes cluster and lets the nodes pull images from each
other. This directory holds a model of it: TLA+ modules translated from the Go source, TLC
configurations that check them on small instances, and proofs that TLAPS checks for every
value of the constants.

    tlc -workers 2 -config TrackerSync.cfg MCTracker     # a run
    tlapm TrackerProofs.tla                              # the proofs of a module

`PROJECT.json` lists the runs, the map from definitions to source lines, the hazards, the
mutants (a plausible bug per property, which the property catches) and the theorems.

## The system

| Part | Source | Module |
| --- | --- | --- |
| State tracker: `Track`, `all`, `update`, `channel.Merge` | `pkg/state/state.go`, `internal/channel` | `Tracker` |
| Containerd client, images: `Subscribe`, `ListImages`, `Parse` | `pkg/oci/containerd.go`, `image.go` | `Tracker` |
| Containerd client, images: the walk of `AllIdentifiers` | `pkg/oci/containerd.go` | `Serving` (by its result in `Tracker`) |
| Containerd client, content: `Resolve`, `Size`, `GetManifest`, `lookupMediaType`, `GetBlob` | `pkg/oci/containerd.go` | `Serving` (by their result in `Registry`) |
| Mirror configuration: `AddMirrorConfiguration` and its helpers | `pkg/oci/containerd.go`, `main.go` | `MirrorConfig` |
| Registry: `handle`, `registryHandler`, `handleMirror` | `pkg/registry` | `Registry`, which implements `MirrorPromise` |
| Registry: `handleManifest`, `handleBlob` | `pkg/registry` | `Serving` in detail, `Registry` as part of the chain |
| Response writer | `internal/mux` | `Serving` |
| Throttler, byte rates | `pkg/throttle` | `Serving` |
| P2P router: `Resolve` | `pkg/routing/p2p.go` | `Registry` |
| P2P router: `Advertise` | `pkg/routing/p2p.go` | `Tracker` |
| P2P router: `NewP2PRouter`, `Run`, `Ready`, `Close`; the health handler | `pkg/routing/p2p.go`, `pkg/registry` | `Bootstrap` |
| Bootstrappers: leader election, HTTP | `pkg/routing/bootstrap.go` | `Bootstrap` |
| Start and shutdown: `run`, `registryCommand`; `Containerd.Verify` | `main.go`, `pkg/oci/containerd.go` | `Bootstrap` |
| Metrics | `pkg/metrics` | the `Advertised*` gauges in `Tracker` |

How they interact: an init container runs the configuration writer, which points containerd
at the local registry. Containerd then asks the registry for manifests and blobs. The registry
looks providers up in a distributed hash table (DHT) and proxies the request to one of them,
whose registry serves it from containerd. The tracker keeps the DHT informed of what the
node's containerd holds. The bootstrapper gives the DHT its first peer: the leader of an election,
or the answer of a fixed HTTP endpoint. `registryCommand` runs all of this in one error group.

## Tracker

State: containerd's image store and the envelopes it has published; the subscriber goroutine
and the value a `Merge` goroutine may hold; the ticks that wait; where `Track` is, with the
local variables of `all` and `update`; the gauges; what has been provided to the DHT. `fresh`
and `dirty` are history variables: what the running re-sync has provided, and which names
have changed since its listing.

Actions: `SubReceive`, `SubReport`, `SubClose` are the goroutine of `Subscribe`; `TickerFire`
the ticker; `TrackDone`, `TrackTick`, `TrackEvent`, `TrackError`, `TrackClosed` the cases of
the select; `SyncImage` and `SyncEnd` the loop of `all`; `AdvertiseOK` and `AdvertiseFail` the
rest of `update` once the keys are known. Containerd (`SetImage`, `RemoveImage`,
`StreamFails`), the signal (`Cancel`) and failing calls (`Fault`) are the environment. The
store may change between the listing, the walk and the advertising of an image.

An image name is a record of repository, tag and digest, what `Parse` splits it into. The walk
of a target is a constant, `Identifiers`: content is addressed by digest, so what a digest
contains does not change. The walk itself, with parts of an index missing, is in `Serving`.

| Run | Shows |
| --- | --- |
| `tracker_sync` | `all` skips the digests of an image whose target it has done. In every state of a re-sync the targets it would skip are fully advertised, unless the store changed (`TargetsAdvertised`). A re-sync without error or change covers the store (`SyncCovers`) and makes the gauges right whatever events did to them (`SyncRepairsGauges`). Without waiting for the ticker, the first re-sync and the events leave no image out that shares its target with no other (`UnsharedAdvertised`). Three names, two of which can share a target, two changes, one fault, ticks without end. |
| `tracker_liveness` | One image that comes and goes, one fault, cancellation and the end of the stream. |
| `tracker_shared_target` | **Violated**: for images that share targets the last property fails (`StoredImagesAdvertised`), see Findings. |

Bounds: `MaxChanges` (store changes) and `MaxFaults` (failing calls). A skipped image needs two
names on one target and one change, a lost key needs one fault, so these bounds reach the
cases; ticks and re-syncs are not bounded.

Fairness: a goroutine that can run does (weak fairness of the subscriber, the ticker and
`Track` between two selects). Go's select chooses uniformly among the ready cases, so a case
that is ready again and again is taken: strong fairness of each case.

## MirrorConfig

State: the registry directory, the `_backup` directory, the call the run is about to make, the
local loop variable, and as history the directory before the first run. A `hosts.toml` is the
set of hosts in its table, or one of: no table, unparsable, no file. The other fields of the
file (capabilities, server) are left out.

Each action is one file system call of `AddMirrorConfiguration`, `backupConfig`, `clearConfig`
or the write loop; `afero.WriteFile` is two, because it truncates before it writes. `Fail` ends
a run before any call. `Start` begins the next: after a failure with the same arguments, as the
kubelet does, or with any arguments, as a later version of the chart does.

| Run | Shows |
| --- | --- |
| `mirror_config` | What the node had is where it was or in `_backup` (`OriginalsKept`); what is in `_backup` stays as it was saved (`BackupWrittenOnce`); a completed run leaves a function of the original directory and its arguments (`OutcomeFromOriginal`); a run is followed by one that completes (`Converges`). Two runs of four kinds of arguments and two crashes, on five directories. |
| `mirror_config_interrupted`, `mirror_config_no_table` | **Violated**, see Findings. They mark the limits of the properties above: `OriginalsKept` and `OutcomeFromOriginal` exclude a run cut short while it fills `_backup`, `Converges` excludes files without a table or that do not parse. |

`OutcomeFromOriginal` and `Converges` also exclude a node that had no configuration: its second run
backs up the files the first one wrote, a file cut short included, and appends to them from then on.

Bounds: `MaxRuns` and `MaxFaults`, both two: a crash, its repair, and a run with other
arguments. Fairness: a run makes progress, and the kubelet restarts a failed init container.

## Registry

One client request and the chain of handlers it starts: hop 1 is the node containerd asks, hop
2 the peer it is proxied to, and `MaxHops` allows one more, so that a loop would show. Each hop
has a handler and a goroutine of `P2PRouter.Resolve` that run concurrently and share the
bounded channel `peerCh`. The content of nodes changes; the client may go away. Requests have no
state in common but the content of the nodes, so one is enough.

A node takes a new identity in the DHT at every start, while its records of earlier ones live on. So
`PeerIDs` and `Nodes` are apart: `HostID` gives a node's present identity, `Address` the node that a
record leads to. The DHT yields any identities in any order, each once, stale or without a usable
address. `Resolve` skips its own identity (`p2p.go:174`) and passes on an address (`p2p.go:190`);
`handleMirror` asks whatever is there. The model shows an address in the channel by the identity it is
from, of which the handler uses only `Address`.

A tag reference is the sequence its colons separate, all that `hasLatestTag` looks at.

`MirrorPromise` is the abstract specification of the client's handler: it asks one peer at a time
and follows no provider record twice, gives one answer, and passes content on only from a peer that held
it when it was asked. A peer may be asked again, once for each of its records. It has no lookup,
channel, header or retry. `Promise` in `Registry` instantiates it: the peer
being asked is the node of hop 2 while hop 1 proxies, its offer the outcome of hop 2, the answer the
outcome of hop 1.

| Run | Shows |
| --- | --- |
| `registry_safety` | The mirrored header ends a chain after one peer (`NoForwardingLoop`); a request made to a node comes back to it only by a record from before a restart (`SelfOnlyByOldRecord`); retries bound the attempts (`AttemptsBounded`); the non-blocking send and the closing of the channel lose no provider (`NoProviderLost`); one response (`RespondsOnce`); the whole is an implementation of `MirrorPromise` (`PromiseKept`). Three nodes, one of which has an earlier identity (`old`), every route, two retries, one change. |
| `registry_liveness` | No limit on retries and a channel of one, so that providers are dropped. The client is answered unless a peer holds its request for ever (`Answered`); the handler returns when the client goes, even then (`HandlerReleased`); the goroutine of `Resolve` ends (`ResolverEnds`). Two nodes, three identities, one of them without a usable address, one change. |
| `registry_port` | **Violated**, see Findings. |

Bounds: four identities give a second peer after the first has failed, and more providers than
retries. `UnlimitedBuffer` is 20 in the code and 1 in the runs, to reach a full channel.

Fairness is that of the client's node only: its goroutines run, the lookup ends by
`resolveTimeout`, an answer that has come is passed on, and the end of the client's context ends
the attempt. Nothing is assumed of peers. `http.DefaultTransport` has no response timeout, so
`Answered` has to say "unless a peer holds its request for ever".

## Serving

How a node answers a request that it does not mirror, and how it walks an image. State: the image
store and the content store; the limiter (tokens, who sleeps); per call its task, where it is,
what it has found, the `response` of package `mux`, and, as the client sees it, what was sent. `now` and
`total` are history variables: the time, and the bytes of blobs written. Calls interleave, and containerd retags, removes and collects between any two of their steps (`Change`).

Actions follow the calls into containerd: `ManifestDigest`, `ManifestRead`, then the four steps of
`lookupMediaType` (`LookupImages`, `LookupInfo`, `LookupParent`, `LookupDescriptor`) for a document
that does not state its type; `BlobSize`, `BlobOpen`, `BlobCopy` (a round of `io.Copy`, through
`writer.Write` if there is a throttler), `BlobEnd`; `WalkStart`, `WalkVisit` (the handler of
`images.Walk` on a descriptor), `WalkPlatform` (for an index, one question to the content store for each
platform), `WalkDescend` (the platforms that were there are visited next), `WalkEnd`. A document is a
record of its type, its form (JSON that states a media type, that is an image config, or neither; or no
JSON), its children, size and source labels.

A byte rate is a product of ints that wraps (`Wrap`). The limiter of `x/time/rate` is external: at a
negative rate it delays for ever, at rate zero it delays for ever or refuses, which depends on the
version of the library and is left open.

| Run | Shows |
| --- | --- |
| `serving` | Two calls of any of nine tasks, and two transfers of a layer at each of five rates. What `handle` records is what was sent (`RecordedAsSent`); a manifest is whole and has the type of the document its digest header names, although tags move and parents vanish (`ServedAsStored`); with a content path a blob is whole even if it is collected meanwhile (`BlobWhole`); a walk finds the closure of the target, and never part of a manifest (`WalkComplete`, against a definition by closed sets); all transfers together keep to the rate but for a buffer each (`RateBounded`); every call ends if the rate fits an int (`CallsEnd`). |

`BlobWhole` says "with a content path" because without one the content store is asked for each part
and a collected blob is cut short. `CallsEnd` and `BlobWhole` except rates that do not fit or are zero:
there `writer.Write` may sleep for ever or fail.

Bounds: `MaxChanges` is one, enough to invalidate what a lookup has in hand at any step, and an index
of two platforms gives a missing one and a present one. Ints have four bits, `Chunk` is 2 and a layer 3
bytes long, so that rates overflow to negative and to zero and the last buffer is not full. `MaxIdle`
bounds the clock only while nobody sleeps. Deadlock is not checked: calls end.

Fairness: a goroutine that can run does, and time passes.

## Bootstrap

State, per node: the process and the goroutines of its error group; where `bootstrapper.Run` is; the
leader last reported, the `OnNewLeader` callback in progress, `initCh`, `id`; the goroutine of the
routing table and the table; the readiness handler. And the lease. A node's identity has a number that
grows with each start, since the host makes a new key.

Actions: `Start` is `registryCommand` up to `g.Wait`, on nodes that pass `Verify` and have one
address; `RouterRun`; `CallbackClose` and `CallbackStore` are the two halves of `OnNewLeader`, between
which `Get` fails; `ProbeStart` and `ProbeAnswer` the readiness handler with `Ready`; `Terminate` the
signal or a failing part, then `TrackReturns`, `RouterReturns`, `RouterClose`, `ServerShutdown` in any
order, and `Exit`. External are the election (`Observe`, `Acquire`, `LoseLease`), the table (`FixStart`,
`FixConnect`, `Discover`, `Evict`), and `Kill`. The table asks for bootstrap peers only when it is empty.

`Report` calls back with every holder that is observed, the empty one of a released lease too:
`OnNewLeader` returns early only for `UnknownLeader` (`bootstrap.go:67`), a value that client-go's
`LeaseLock` never reports. The empty identity is then stored, `Get` fails to parse it, and the node is
not ready until the next leader is reported. `RouterReturns` releases a lease that is held, or fails to:
the election logs that and returns (`elect` is then `"kept"`). `Get` has no timeout in either
bootstrapper; a cluster's `peer` says whether the HTTP peer answers the requests it accepts.

| Run | Shows |
| --- | --- |
| `bootstrap` | Both bootstrappers, on three nodes that start without faults, and on three of which one cannot start with one fault at any point. `initCh` is closed before a leader is stored (in `TypeOK`). A process that ends by itself leaves the lease in its name only if its election had lost it or failed to release it (`LeaseReleased`). It ends although a handler waits for a first leader or for an HTTP peer (`Stops`). A handler does return (`ProbeReturns`). A node that keeps running becomes ready and stays so (`BecomesReady`; for HTTP while the peer serves). Without faults all that start end up joined (`Forms`). The last three need an HTTP peer that answers; one cluster has one that does not. |
| `bootstrap_restart` | **Violated**: all nodes are ready and nothing is in progress, yet the cluster is in two parts, see Findings. It starts from a cluster of three that has formed. |

Bounds: `maxFaults` of a cluster, zero or one; starts are bounded by it, since only a fault ends a
process. Two nodes that start give a leader and a follower, in any order; three give peers that can be
acquainted with each other by a third, and a cluster that falls apart.

Fairness: goroutines run, candidates retry every `RetryPeriod`, dead peers are noticed, the kubelet
restarts and probes. Nothing is assumed of `Discover`: no lookup has to happen. One assumption is made
of the election: a callback has returned before the next leader is reported, two seconds later. Two
callbacks at once could close `initCh` twice.

## Proofs

All are safety properties, for any constants that satisfy the assumptions of the module
(`TrackerAssumption`, `MirrorConfigAssumption`, `RegistryAssumption`, `BootstrapAssumption`, and
`ContentAssumption`, `BoundsAssumption`, `WorkloadAssumption` of `Serving`: the kinds of the
constants, that special values are distinct, that a buffer fits the burst, that there are finitely many
calls, that a node's present identity has its address, that only a config has the form of an image
config, and that what a manifest names as its config and layers is neither a manifest nor an index).

* `TrackerProofs`. `TypeCorrect`; `TargetsAreAdvertised` and `SyncCoversStore`. Neither is
  inductive. `SyncInv` ties `syncing` to the place of `Track`, and adds, for a re-sync during which
  the store has not changed: images of the listing and the image in hand still have the target they
  were listed with; the keys in hand hold its tag, and its digests unless its target is done; and
  unless an error was collected, every stored image is waiting, in hand, or covered.

  `UnsharedAreAdvertised` needs two more. `ListInv`: `all` comes to a name once, and never finds the
  digest of an image that shares none in `targets`, so it does not skip its digests. `WayInv`: while no
  call has failed and the context and the stream are open, the keys of a stored image that shares no target are advertised or on their way, in
  an envelope not yet read, in the event the subscriber offers, in `update`, or in a listing that is
  still to be made or worked off. The theorem has a hypothesis, `NamesParse`: no image is ever bound to
  a target its name does not parse with. `ListImages` fails as a whole for such an image, which is not a
  failing call of the environment, and nothing is advertised then. The run has names of both kinds and
  satisfies it.
* `MirrorConfigProofs`. `TypeCorrect`, `OriginalsAreKept`, `BackupIsWrittenOnce`,
  `OutcomeIsFromOriginal`. `BackupInv`: without `_backup` the directory is the original; while
  `_backup` is being filled each entry is still in place or saved; after that `_backup` equals the
  original. `SavedInv`: nothing is in `_backup` before it exists, and an entry still to be moved is
  not in it yet. `WriteInv`: in the write loop every registry done has its final content and everything
  else but the current one is absent.
* `RegistryProofs`. `TypeCorrect`; `NoForwardingLoops` and `HandlerRespondsOnce`, with `ChainInv`: a
  hop beyond the first has the mirrored header, so it serves and never mirrors; `ProxiedToSelfByOldRecordOnly`,
  `AttemptsAreBounded` and `NoProviderIsLost`, with `SupplyInv`: attempts, channel and provider in
  hand together never exceed what the lookup has yielded, which never exceeds the count, so the
  channel has room for every send.

  `RegistryKeepsPromise` is the refinement: with `TypeOK`, `ChainInv` and `OnceInv`, the initial states
  are initial states of `MirrorPromise`, and each step is one of its steps or leaves its variables alone.
  `OnceInv`: an identity in the channel or in hand was not tried and is there once.
* `TrackerGaugeProofs`. `GaugesAreRepaired`, on top of `SyncInv`. `GaugeInv`: during a re-sync without
  error or change the gauges count the stored images it is through with, and the image in hand is not
  one that still waits.
* `BootstrapProofs`. `BootstrapTypes`; `LeaseIsReleased`, with `LeaseInv`: the lease is never in the
  name of a future process; a process in whose name it is has been elected, and unless it lost the
  lease or failed to release it its goroutine of the group has not returned; a process that has ended is
  down. `BootstrapTypes` includes that `initCh` is closed when `OnNewLeader` stores.
* `ServingProofs`. `RecordsWhatIsSent`, `ServesAsStored`, `ServesWholeBlobs`. `ServingInv`, for each
  call: a handler is where its task leads; nothing is sent before the answer; while a blob is copied,
  what was sent and what is left add up to its size, and the recorded size follows what is sent through
  a throttler; a call that is done satisfies the three properties. The other calls, the limiter and
  containerd do not disturb it (`Frame`).

  `ServingTypeCorrect`, with `TypeInv`, on top of `ServingInv`: each function has the calls as its domain,
  which `TypeOK` leaves open and an `EXCEPT` depends on; the part of a blob a round copies is never
  longer than what is left of it, and what `Delay` gives is a number of ticks or for ever.
* `ThrottleProofs`. `RateIsBounded`. The sum over the calls is avoided by counting calls. `RateInv`:
  the bytes written are at most rate times time, minus the tokens, plus a buffer for each call that has
  ended (`PaidFor`, which allows for a reservation that was refused after the write); and, whatever `k`,
  the debt that `k` more ticks leave is at most a buffer for each call that will still sleep then
  (`InDebt`). A sleeping call writes nothing until it wakes, which bounds the tokens from below. It uses `TypeInv` and facts about cardinalities.
* `WalkProofs`. `WalksAreComplete`. That the walk reaches the least closed set needs no induction over
  the content. `WalkInv`, for each walk: the target is among the keys and the descriptors to visit; a
  manifest among the keys has all its children there; an index has a platform found, to be visited or
  still being looked for; and while containerd changes nothing, the local children of an index among the
  keys are keys, to be visited, to be looked for or found, and all of these are in every closed set with
  the target (`Exact`). At the end nothing is left to visit, so the keys are such a set themselves.

Only model-checked: the liveness properties, because TLAPS does no fairness. `StoredImagesAdvertised`
and the other properties of the violated runs do not hold.

## Findings

Each is a run in which TLC finds the counterexample.

1. `tracker_shared_target`. `all` marks the digest of its listing as done (`state.go:82`), but
   `AllIdentifiers` walked the target the name has by then (`containerd.go:209`). If a tag moves in
   between, another image with the old digest is skipped until the next tick.
2. `mirror_config_interrupted`. A run stopped while it fills `_backup` leaves files that the next
   run neither saves nor keeps (`containerd.go:564`).
3. `mirror_config_no_table`. Appending to a `hosts.toml` without a host table assigns to a nil map
   (`containerd.go:515`).
4. `registry_port`. `hasLatestTag` takes a port for the start of the tag (`distribution.go:30`).
5. `bootstrap_restart`. `Ready` is true for the leader whatever its table holds (`p2p.go:143`), and the
   others look for bootstrap peers only when their tables are empty. A leader that is killed and
   takes the lease again when it comes back is alone and ready, beside a cluster that is ready.
   `docs/FAQ.md:16` takes readiness of all pods for a sign that things work. Lookups that happen to meet
   it, or a node that restarts, join the parts again.

Noticed, and left without a run:

* `OnNewLeader` means to ignore an election without a leader (`bootstrap.go:67`), but compares with
  `UnknownLeader`, not with the empty identity a released lease has. `BecomesReady` shows that the next
  leader makes up for it.
* A node that has restarted does not know its old records for its own (`p2p.go:174`) and may spend
  attempts on itself. `NoForwardingLoop` and `AttemptsBounded` hold all the same.
* `HTTPBootstrapper.Get` uses a client without a timeout (`bootstrap.go:144`).
* `--blob-speed` is documented as a speed per request (`main.go:53`), but the limiter is one per node
  (`throttle.go:26`). `RateBounded` states what holds: the bound is on all transfers together.
* `handleBlob` has set `Content-Length` to the blob's size when `GetBlob` fails and it answers 500
  (`registry.go:346`).
* Between two re-syncs the image gauge may be wrong or negative, because a delete event is subtracted
  whether or not the image was counted (`state.go:104`), and the delete of a name without a digest is an
  error (`containerd.go:172`). The comment in `all` says as much; `SyncRepairsGauges` shows that a
  re-sync puts it right.

## Not modelled

* Time, except in the limiter. That records of the DHT live for `KeyTTL` and re-syncs start a minute
  earlier is not compared with how long a re-sync takes, which depends on the DHT.
* Text: regular expressions of references and byte rates, filters of `createFilters`, the format of log
  lines and of `hosts.toml` beyond its host table. Their results are what the modules start from.
* `Flush`, `Hijack` and `Unwrap` of the response writer, called at most by the reverse proxy, and the
  histograms, which only observe.
* The DHT, the election, containerd, `net/http` and the limiter: external, by what the code sees of them.
* The memory router and the mock client (only tests construct them), the construction of a Kubernetes
  client and the parsing of flags (library calls).
* `Tracker` and `Registry` are not composed. What they share is the DHT, which promises nothing about
  when a record is found, so a property of the composition would be one of the DHT.
