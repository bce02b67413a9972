# Specview: a TLA+ model of the host observer

Specview (`src/`) is a Go program that runs on one machine, watches which coding
agents work in which repositories, keeps a catalog of their sessions, serves live
pages and a search index, and exchanges snapshots with other Specview hosts.
This directory holds TLA+ modules translated from its source, the TLC runs that
check them and the TLAPS proofs of what they show in general. Line numbers are
those of `src/`; `PROJECT.json` maps every definition to its lines.

## 1. Inventory

`specview serve` is one process: a refresh loop (every 2 s), a federation poller
(every 30 s), and the HTTP server's handlers. `specview federation ...` and
`specview mcp` are short-lived or separate processes over the same files.

| Component | State | Operations | Hard behaviour | Correct when |
|---|---|---|---|---|
| Execution adapters (`internal/hoststate/execution_adapter.go`, `scanner*.go`) | none | scan processes, group them into logical executions | one adapter fails, another does not; a root has several spellings | an execution ID is stable, one execution a group |
| Host catalog (`catalog*.go`) | repositories, sessions, dirty flags, time of the last write; `catalog.json` | open (with v1 migration), observe executions, save, flush | failed and throttled writes, kills, aborted observations, legacy history | history survives, lifecycle changes are durable, what is active is what runs |
| Host runtime (`runtime.go`, `serve` in `cmd/specview/main.go`) | loop position, signal context | refresh, run, callback, shutdown | the callback skipped after errors, exit while the loop works | changes reach file, index and pages |
| Host index (`internal/hostindex`) | SQLite tables, fingerprint, sync error | open, sync, search | failed sync, tables of an earlier process | never silently stale |
| Live projection (`internal/web`: hub, `events`, page scripts) | subscribers, one pulse each, a fingerprint per stream | render, subscribe, probe, emit, fetch | changes between render and stream, changes undone, full buffers, lost connections, failed fetches | a change that stays reaches the page or a fetch that failed, heartbeats do not; what is shown is never older or another query's |
| Federation peers (`internal/federationpeers`, CLI) | `federation-peers.json`, one observation file per peer | add, remove, refresh, project status | two processes over one file, crashes between two files | the last valid snapshot survives failures, status is honest |
| Federation runtime (`internal/federationruntime`) | material key of the last cycle | poll cycle, notify, project | peers removed during a cycle, failing peers | one peer's failure stays its own |
| Federation aggregation, snapshots (`internal/federation`) | none | build and validate a snapshot, newest per Host, grouping | a repository gone between two reads, equal times, matches that are not transitive | groups are all-pairs matches of the newest snapshots, in any order of the peers |
| Federation HTTP (`internal/federationhttp`) | none | serve v1/v2, fetch v2 then v1 | peers of an older version | a valid snapshot in the schema that was asked for |
| Identity (`internal/identity`) | `host.json` | load or create, correlate | two first starts at once, a kill while creating | one ID per machine, for ever |
| Acceptance, evidence, revision (`internal/acceptance`, `evidence`, `revision`, `projectstate`) | none (files of the work tree) | decide checks from records | stale, queued and equal-time records, configuration, git and evidence read one after the other | a pass counts for its revision only, and everywhere |
| Source control (`internal/sourcecontrol`), footprint | maps with expiry times | inspect git, ask gh through a cache | check-then-store races, cancelled requests | no answer older than the limit, or of another remote |
| Control plane, history (`internal/controlplane`, `executionhistory`) | none | its read models over catalog, processes and files | sessions and files that go between two reads | list, detail, totals and pages say the same |
| Web pages (`internal/web`) | none | Host, repository, work item, evidence, acceptance, history, federated Host | the same facts by a path of their own | a page never contradicts the tools |
| MCP server (`internal/mcpserver`) | a session: lines in, responses out | initialize, ping, list and call tools | malformed lines, notifications, failing tools | one response per request, in order, under its ID |
| Configuration, conventions, specifications (`internal/config`, `specs`) | `.specview.yaml` | load, detect, init, scan | detection written twice | init keeps what is detected |
| Logging | none | - | - | - |

How they interact: the loop calls the adapters, then `Catalog.ObserveExecutions`
under the catalog's mutex, then, unless that returned an error or there was
nothing to tell, the `onChange` callback: `Index.Sync` and `Hub.Broadcast`. The
handlers read copies of the catalog at any time. The poller shares nothing with
the loop but the hub. The files are shared between processes without locks.
`specview mcp`, the pages and the snapshots for peers answer from several reads of
the catalog, the processes, the files of a project, git and the forge; nothing
holds them still between two reads. They share the provider cache of their
process and the machine's `host.json`.

## 2. Modules

| Module | Models | Role |
|---|---|---|
| `HostCatalog` | adapters, catalog, `catalog.json` | content and persistence of the catalog, one step per operation under `Catalog.mu` |
| `MCHostCatalog` | - | small instances: directories, first files, processes, when the convention changes |
| `Counting` | - | facts the proofs share: least elements, sorting, sums |
| `HostCatalogProofs` | - | TLAPS proofs about `HostCatalog` |
| `HostRuntime` | refresh loop, `serve`, index | the steps between the catalog's operations and the processes around them |
| `LiveProjection` | hub, `events`, a page and its search box | extends `HostRuntime` with its readers |
| `MCLiveProjection` | - | a page over a process with an index that nobody stops |
| `LiveProjectionProofs` | - | TLAPS proofs about `HostRuntime` and `LiveProjection` |
| `FederationPeers` | peer registry, observation files, Poller, CLI commands | processes that meet in files only |
| `MCFederationPeers` | - | the registries `serve` starts with |
| `FederationPeersProofs` | - | TLAPS proofs about `FederationPeers` |
| `AgreedIdentity` | - | abstract: what a machine's identity promises |
| `HostIdentity` | `identity/host.go` | processes that create and load `host.json`; refines `AgreedIdentity` |
| `Conventions` | `.specview.yaml`, detection, `config.Init` | operators over the lines of the file and the directories |
| `Acceptance` | projects, revisions, evidence, decisions, overviews | operators over what was read; extends `Conventions` |
| `Correlation` | fingerprints, aggregation, projection, selectors | extends `Acceptance` |
| `ControlPlane` | the Reader's operations, history | extends `Correlation` |
| `HostSnapshots`, `WebPages` | snapshots for peers; pages | extend `ControlPlane` |
| `ReadService` | MCP session, HTTP handlers, provider cache | composes all of these with `HostIdentity` |
| `ReadProperties` | - | what the answers promise |
| `MCReadService` | - | the worlds of the runs `reads`, `reads_order`, `reads_peer` |
| `ReadServiceProofs` | - | TLAPS proofs about `HostIdentity` and about `ReadService`: its processes, cache, forge and wire |
| `ReadAnswersProofs` | - | TLAPS proofs about what the answers say: acceptance |
| `FederationAnswersProofs` | - | TLAPS proofs about what the answers say: the federation |
| `RepositoryAnswersProofs` | - | TLAPS proofs about what the answers say: a machine's repositories |

**HostCatalog.** `repos` and `sessions` are `Catalog.repos`, split so that a
session's key (`logicalSessionKey`) is a pair of repository ID and session ID;
`materialDirty`, `heartbeatDirty` and `lastPersistedAt` are the fields of those
names; `disk` is the file. `repositoryID` and `executionSessionID` are hashes,
modelled as injective: the ID of a root is the root, that of an execution the
triple of adapter, resolved directory and working directory. A *spelling* (`Root`) and
a *directory* (`Place`) are different things because `canonicalRepositoryRoot`
does not resolve every symlink and `sameFilesystemPath` does. `Observe` is
`ObserveExecutions` up to its return, the write of `finishObservationLocked`
included; `AbortedObserve` is its early return with the error of
`ensureExecutionRepositoryLocked`, which leaves the executions of earlier roots
applied. An adapter failure makes its processes invisible (`Executions`), and a
scan left empty by it is an error (`ScanFails`), which changes nothing.
`Restart` may follow any step: a kill needs no step of its own since `Rename`
replaces the file at once. Not part of the model: `FirstSeenAt`, names, working
trees and hostnames (never compared), `detect` errors (a convention like any
other), and `StartedAt` of an execution, which the adapters leave zero.

**HostRuntime.** One life of `serve`. The catalog is reduced to its `content`, what
the fingerprints of the index and of the streams hash: the active sessions, when the others
ended (`EndedAt`), and the detected convention, but no `LastSeenAt`. A session that is found again is
the one it was, so a change may be undone and the content equal an earlier one;
`edition` only counts the changes. `fingerprint` is a content, hashed injectively, and `indexed` what the
tables hold, with the edition it was read in. A process that stopped does not return
(`gone`): a new one is another session. The loop's position (`loop`) separates scan,
observation, `Sync` and `Broadcast`, so the main goroutine (`main`), the agents
and the readers act in between. The order of the returns is the code's: a failed
write skips `onChange`; with no change and no session `broadcastChange` skips it
too. `Exit` may come at any time after serving began, because `serve` waits for
`server.Shutdown` only.

**LiveProjection.** A page renders (`Load`), its script opens the stream
(`Connect`: first fingerprint, then `Subscribe`), pulses and the one-second probe
emit `changed` when the fingerprint differs, the page fetches (`Fetch`), and a
connection may break and be opened again. `Search` enters or clears a text in the
search box, which counts as entered when the 120 ms of the debounce are over. A request
(`Sent`) carries its text and what it read of the catalog; one without text is then
answered, a search reads `Index.syncErr` (`Check`), then the tables (`Answer`), and the
refresh loop may synchronize, or fail to, between any two. `Display` shows a response, and
`FetchFails` is the `catch` of `refresh`: at any point of the request what is shown stays,
nothing is sent again, and the stream's fingerprint has moved on. A new request aborts the
one in flight, as `requestController` and `requestSequence` do. The stream's fingerprint is
that of the unfiltered host view: a change that was undone before the handler looked is not
emitted. A request that is on its way for long is as if sent late. `told`, the catalog at
the end of the last `Sync`, `spent`, and the edition in `failed` are history.

**FederationPeers.** `registry` is `federation-peers.json`, `obs` and `tmp` are the
observation files and their fixed `.tmp` names, and `op` says where each process
is in `Refresher.Refresh` or a CLI command. An attempt fetches (`Fetch`), loads
the file (`Load`: what `RecordSuccess` or `RecordFailure` will save), and saves in
the three steps of `atomicWrite`: `Open` truncates the temporary file, `Write`
fills it, `Rename` publishes whatever the path then names. `op[p].file` follows
an open file when another process renames it, so that two writers of one name may
publish an empty or a mixed file (`Empty`, `Torn`), which `Load` then refuses until
the peer is removed. `poll`, `cycle`, `materials` and `lastMaterial` are the Poller's
cycle and its material key (the hash is modelled as injective); `StartCycle`
reads the registry anew. `Stop` is `ctx.Err` between two peers and `ctx.Done` in
`Run`; a fetch cancelled in flight is recorded as the peer's failure, since
`redactCredentialError` hides `context.Canceled`. `Kill` is a kill or an exit, after
which the process starts again with the files as they are. Abstractions: a
snapshot is its host and its time, the clocks of hosts agree, every cause of a
failed fetch is a host that is not up, the registry file is saved in one step, and
staleness, which depends on when a reader looks, is left out. `raced`, `disturbed` and
`viewed` are history.

**HostIdentity.** `LoadOrCreateHost` by any number of processes: `Look` is the
first `LoadHost`, `Create` the exclusive `OpenFile`, `WriteHost` the encoding by the
process that created the file, `Reload` the second `LoadHost` of one that lost the
race. `host.json` is absent, empty or an ID; a file that does not decode ends the
process. `Kill` may follow any step, and one between `Create` and `WriteHost` leaves an
empty file for ever: every later start fails, which keeps the agreement and loses
the machine until the file is deleted by hand.

**The operators.** `Conventions`, `Acceptance`, `Correlation`, `ControlPlane`,
`HostSnapshots` and `WebPages` hold no variables: each is the code's function of what
was read, an error being `Error` and a value `Ok(v)`. A read model of the Reader
takes `see`, which says for each read what it found. Texts are model values of a
small shape: a line of YAML is its indent, kind, key and value; a name is its folded
form and its spelling; a path is a sequence; the hash of a root is named by the
root, and `HostRank` and `RootRank` are the order of the hashes. Warnings are one bit.

**ReadService.** `now` is the state the machine is in (catalog file, processes, trees,
git, forge, registry, observations), `Environment` replaces it. A request
(`work[w]`) goes through the reads of its operation in the code's order
(`Steps`, which depends on what was read), one step per read (`ReadNext`); a read of git
is followed by `Lookup` in the cache, `Ask` or `Cancel`, and `Store`, so that two
handlers may interleave anywhere between `cachedProvider` and `storeProvider`. `Reply`
makes the answer from what was read. `TakeLine` takes the next line of the MCP
client when the last one was answered; `Browse` is a request that arrives at a handler.
`Begin` and `Die` are the life of a process: a process must hold an identity before it
answers, and loses its cache, requests and session when it dies. Abstractions: the
files of one repository are read at one instant on the Host plane, and so is the
second `Resolve` of a page (`again`); the pages' catalog is in memory and always
readable; the observation time of a snapshot is taken when it is answered, and the
clock stands still in the worlds that have snapshots; the keys that lists are sorted
by are distinct, so that `sort.Slice` has one outcome. Of the records of a work item this is an
assumption (`PossibleFiles`): they differ in time or ID, as `project.go:137` sorts by these two
alone and not stably. `config = "unreadable"` is a `.specview.yaml` whose stat succeeds and
whose reading fails; a stat that fails for a file that is there, which the pages pass over
(`host_server.go:368`), is left out.

## 3. Runs

| Run | Instance | Shows |
|---|---|---|
| `catalog` | 2 spellings of one directory, a legacy record, a Codex process in one spelling and one of Codex or Claude in the other, 2 conventions, times 2..4, interval 2, three first files | the catalog's six properties |
| `catalog_abort` | the same, Codex and Claude in either spelling, one convention | violation: a session started by an aborted observation is not persisted by later successful ones |
| `runtime` | 2 agents, 2 conventions, 2 events | search is honest, file and index recover |
| `runtime_index` | 1 agent, 2 events | violation: an index silently behind the catalog |
| `runtime_shutdown` | 1 agent, 2 events | violation: a shutdown that drops pending heartbeats |
| `live` | 1 agent, 2 conventions, 2 events, 1 page, 2 queries, 1 move, any fetch fails | a change that stays is shown or its fetch failed, heartbeats emit nothing, searches are honest, the page shows what was asked and nothing older |
| `live_gap` | 1 agent, 1 event, 1 page, no move | violation: a change before the first fingerprint is not shown |
| `peers` | 2 peer names, 2 hosts, 1 CLI, times 1..2, 2 upsets | attempts decide, the observer is current, a failing peer does not hold up another, a peer that answers is shown |
| `reads` | thirteen worlds, below | the identity, acceptance, the read models, the federation, the forge cache and the MCP session |
| `reads_order` | world `retold` alone | violation: the order of the peers decides whether a conflict is refused |
| `reads_peer` | one unreadable observation beside two that can be read | violation: one peer takes the projection from all |
| `peers_pin` | 1 peer name, 2 hosts, 2 commands, no fault needed | violation: a removed Host's snapshot under a new pin |

The bounds: two spellings are the least that make twins, a legacy record next to
a derived one, and an ambiguous root; three clock values with an interval of two
hold a write, a throttled heartbeat and a due one; two processes of one agent make a group
that spans both spellings, grows and shrinks, and of two agents two sessions side by side. The
convention changes at the last clock value, where only the record of one root exists: a
change of convention meets pending, throttled and failed writes there as anywhere. Nothing in the code counts
beyond two of any of these. In `runtime` an *event* is an agent starting or
stopping, a partial scan, an aborted observation or a new convention; two allow a change and its
undoing, or a change behind a lost one, while failing writes, scans and
synchronizations are not bounded at all. `live` starts with its one agent observed, with an
index, and nobody stops it: the starts, signals and exits are in the runs of `HostRuntime`.
Two events hold a change that is undone and one that is not, one move a broken connection or
another query, and a page may be loaded with either query; failed fetches are not bounded. In
the peers' runs an *upset* is a command, a failed save, a kill, a signal or a host going down:
a race of poll and command takes one, a remove and an add under the same name two, or one of
them and a fault in its middle. Files are per name and processes meet in one
file, so one name has every race; the second name is for the cycle's loop. Two
times order attempts that overlap, and one clock value shared by several is the case
of equal times.
`MaxTime`, `MaxTurmoil` and `MaxMoves` are the only bounds on behaviours. Deadlock is not checked: the clock ends in the catalog's
runs, a process exits or the Poller stops in the others.

A *world* of `reads` is a set of machine states and how much may happen: changes of
the machine, HTTP requests, clock ticks, kills, and the lines a client may send. TLC
starts in every world at once. `changes`, `requests`, `ticks` and `kills` are the only
bounds on behaviours, and `TTL` is 2.

| World | Instance |
|---|---|
| `acceptance` | every pair of records of a check (two revisions, results, equal and unequal times), six odd sets of records, three policies, clean, dirty and nested worktrees; `get_acceptance` |
| `wire` | any two of 19 kinds of lines, one kill of the process |
| `hosts` | 400 states: four catalogs (one with a record under an ID that is no hash of its root), five sets of live sessions, ten project directories, git with and without an answer |
| `inits` | every set of convention directories |
| `correlation` | three instances of two Hosts over seven fingerprints; `get_federation_status` |
| `retold` | three snapshots of one Host by three peers, two of one time, which are the newest or not; the Host another one or this machine itself; same tool |
| `tools` | each of the 14 tools, one change among three states of a whole machine |
| `pages` | ten pages, one change |
| `copied` | a page of this Host, whose `host.json` a peer has a copy of and a snapshot to show under it |
| `peer` | both snapshot paths, one change |
| `forge` | two handlers over one cache, two clones of one remote and another remote, two requests, two ticks, requests that are cancelled |
| `flapping` | one handler, two requests, three ticks, a forge that comes and goes |
| `identity` | three processes, two IDs, two kills |

One change between the reads of a request is enough to make any two of them
disagree, since its states differ in every part; two requests and `TTL` ticks hold an
entry stored, served and expired, and two handlers a slow answer that overwrites a
newer one. Three instances are the least for a group that one instance matches in
part. Deadlock is not checked: every bound ends.

The properties, by hazard:

- `CleanMeansDurable`: the flags never claim less than what the file lacks, whatever
  writes failed, save after an aborted observation (`torn`). It is what makes
  "persists immediately" (H25) true across failures; `LifecycleDurable`, H25's own
  words, is violated by aborts alone.
- `HistoryKept`: no write of the file loses or rewrites a session (H26), a live
  process fragment is replaced by a session that starts no later.
- `ActiveMatchesScan`, `OneRecordPerPlace`: sessions end, and a directory keeps
  one record, under all spellings and legacy IDs.
- `HeartbeatLagBounded`: ADR-014's loss of at most one window at a kill. It is
  stated for observations that returned success; a failing disk may lose more.
- `SearchNotBehindAnnouncement`, `IndexCatchesUp`, `MaterialChangeSaved`,
  `EventsOnlyForChanges`, `ChangeReachesPage`: what reaches index and pages.
  `ChangeReachesPage` names what it excuses: a stream that is gone, a fetch sent after the
  change that failed (H16: "leaves the last successfully rendered DOM in place"), and a change
  that was undone before the handler looked.
- `SearchNeverSilentlyOld`: H16's "marks itself stale instead of silently serving the
  previous snapshot", of a search during which synchronizations come, succeed and fail.
- `ShowsWhatWasAsked`, `NeverGoesBack`: H16's "cancels obsolete requests instead of rendering
  responses out of order", under events, queries, failures and answers in any order: the text
  answered is the one in the box, unless the last fetch failed, and what is shown of the
  catalog never becomes older.
- `UnracedAttemptDecides`: H22's "keeps the previous valid observation intact", for
  attempts whose `Load`..`Rename` no other process overlaps, also after kills that left a
  temporary file. Overlapping attempts may lose a snapshot or leave an unreadable
  file; the code has no lock against it.
- `NotifiedViewCurrent`: the material key misses nothing a reader would see. It
  speaks of cycles that recorded every peer and that no command disturbed: a peer
  added and removed during one cycle may be seen by the observer and never retracted.
- `PollerConverges`: kills, failures and commands leave nothing behind that keeps
  a peer that answers from being shown, as long as its file can be read.

- `OneHostIdentity`, `ImplementsAgreement`: starts that race, kills at any step.
- `AcceptedOnCurrentEvidence`: ADR-004's "accepted means every required logical
  check is satisfied for the exact current revision" and the README's "Dirty
  worktrees fail closed", of answers whose configuration, git state and evidence were
  read at different times. It is stated apart from the decision's code: by
  the records that must exist.
- `AcceptanceViewsAgree`, `RepositoryViewsAgree`, `HostTotals`, `AttentionLinked`: facts
  computed by several pieces of code are the same facts, for every state of a machine.
  `RepositoryViewsAgree` leaves out a session without an agent, which the list counts
  and the detail does not; `AttentionLinked` one of two records of the same root, and a Host
  that a peer has a later snapshot of, which then replaces what this machine reads of itself
  (a copied `host.json`, world `copied`; the proof would not go through without it).
- `SnapshotFailsOnlyForLost`: what may make a Host unreadable. No broken file of a project does.
- `GroupsSound`, `NewestDecides`, `InstanceSelectable`: aggregation is greedy over a relation
  that is not transitive, and must drop no instance of a newest snapshot. Every order of the
  peers gives the same groups or is refused: refused if two newest snapshots of a Host differ,
  accepted if no two of one Host and time do. Between the two the order decides, against ADR-009
  (`OrderIndependent`, run `reads_order`), and one unreadable observation fails the projection,
  against ADR-012 (`PeerFailureStaysItsOwn`, run `reads_peer`).
  `InstanceSelectable` leaves out observations of another Host than the one their peer is
  expected to be, which finding `peers_pin` is about: no line of the projection is of that Host.
- `InitKeepsConvention`: detection is written twice (`convention.go:37`, `config.go:356`).
- `ForgeContextSound`, `ForgeContextFresh`: remote, content and age of what the cache
  gives out. Clones of
  one remote share an entry, so a context may list the pull requests of the other
  clone's branches, and an error, a cancelled request's too, is kept like an answer.
- `ResponsesMatchRequests`: one response per request, in order; none to a notification.

**Fairness.** `ReadService` states none: its properties are about the answers that
were made. That every request is answered needs fairness of each of its processes and
handlers, which the product of the worlds makes too large to check.
`HostRuntime!Fairness` is weak fairness of the loop and of
`Serve` (a goroutine that can run does; the ticker fires) and strong fairness of
a successful scan, observation and synchronization: the code retries each
every two seconds, so a cause that goes away lets it succeed. A disk or a
database that fails for ever is excluded, and then the properties do not hold.
Nothing forces a signal, an exit or an agent. `LiveFairness` is weak fairness of
handlers and pages, and of the probe's ticker; `LiveSpec` needs no fairness of
the loop, since its claims are about changes that have happened.
`FederationPeers!Fairness` is weak fairness of each process that is in an attempt or a
command (an HTTP fetch has a timeout, so it ends) and of the Poller's ticker; nothing
forces a command, a fault or a host that comes back.

## 4. Disagreements between code and documents

Each is a violation run and a finding of `PROJECT.json`: an aborted observation
is only half applied and not marked dirty (`catalog_abort`); the retry of a failed
write is not announced when no session is left (`runtime_index`); a graceful shutdown
does not wait for the flush (`runtime_shutdown`); the stream's first
fingerprint is taken after the page was rendered (`live_gap`); a poll in flight
brings back the observation of a removed peer, and the expected Host ID is not
compared again when it is shown (`peers_pin`; a kill between the two deletions of
`peer remove` does the same); of two different snapshots of a Host with one time the second
is compared with the newest read so far, so that a newer one in between hides the conflict
that another order of the peers shows (`reads_order`); and an observation that cannot be
loaded fails the projection of this Host and of every other peer (`reads_peer`).

Seen while reading, without a run: `HostSnapshot.ObservedAt` is the time a snapshot
is built, and the material key hashes the whole snapshot, so every successful poll
of a live peer calls `onChange`, where H23 wants no notification "when peer facts
are unchanged"; the streams' own fingerprints keep it from the pages. The probe of a
stream may see a change before `onChange` has synchronized the index: a page with a
query then fetches results of the older tables, and the broadcast after the
synchronization finds an equal fingerprint, so they stay until the next change. Each
such answer keeps `SearchNeverSilentlyOld`. The fingerprint of a stream is one of contents: when
an adapter that failed for one scan, or a convention that went and came back, returns the content to what the handler
saw last, nothing is emitted, and a page that fetched in between shows the ended session, or
the other convention, until the next change (`ChangeReachesPage` excuses it by name).

## 5. Proofs

Every theorem holds for all values of the constants under the named assumptions of its
module. Each rests on an inductive invariant.

**HostCatalogProofs.** `TypeCorrect == Spec => []TypeOK`. `TypeOK` is inductive because
it orders times: a session was not seen before its start, after its end or after its
repository, and nothing is in the future; in memory and in the file, as a restart swaps
one for the other. The lemmas follow the code: `AttachType`, `ObservedReposType`,
`ObservedSessionsType` (over the cases of `SessionCases`), then one per action.
`LifecycleIsDurable` is inductive relative to `TypeOK`. `NoMaterialChange` is its core: an
observation without a material change leaves everything but times last seen as it
was. `SaveDurable` covers the writes, and the flags cover the rest.

`OneRecordPerDirectory`: a new record is that of the first
root of its directory (`MinNat`), where no record was. `ActiveAreScanned`: every
session that was not seen ends, in every record, and no two records hold one live
session. `WritesKeepHistory` by `KeptInv`: a session of the file is in memory, or was
absorbed there by the session that replaced it, so no write can lose it; the step of a
migrated fragment is the one with work in it. `KillCostsLittle` by `LagInv`: while no
material change is pending the file has every session, and the live ones with a time no
older than the last write.

**LiveProjectionProofs.** Of the refresh loop: `RuntimeTypesCorrect`, and `SearchIsHonest`
by `IndexInv`: the fingerprint is the content of the last good `Sync`, it is what the tables
hold, and what was announced except while a synchronization is due. Of its readers:
`LiveRefines`: readers leave the refresh loop as it is.
`EventsAreChanges` by `EventInv`: the events of a stream are paid for by the editions
between its first fingerprint and its last; a fingerprint that differs is of an earlier
edition. `PagesShowWhatWasAsked` and `PagesNeverGoBack` by `AskedInv`: the one request of a page
is for the text in its box, has not failed, and was sent after what the page shows was
read. `SearchesKeepPromise` by `TablesInv`: an index that is not stale covers what was told
(`Covers`: the tables are as new, or say the same), requests promise no more than that, and
one that has passed the check is covered, as the tables never go back.

**ReadServiceProofs.** Of `HostIdentity`: `IdentityTypesCorrect`; `HostIdentityIsOne`, whose
invariant adds that an unwritten file has one writer; `HostFileImplementsAgreement`: the
refinement of `AgreedIdentity`, where the agreed identity is the content of `host.json`.

Of `ReadService`: `ReadsImplementIdentity`: each step of the composition is one of
`HostIdentity` or leaves it alone; from it `ReadsHoldOneIdentity` and
`ReadsImplementAgreement`. `ForgeContextsAreFresh` by `FreshInv`: nothing in a
cache was stored in the future, and what a request took was stored less than `TTL` before.
`ReadsAreTyped`: what a request has seen was so in some state of the machine, each phase
holds what it needs, and a cache holds remotes only that the provider supports. `ForgeContextsAreSound`:
what a cache holds under a remote, and what a request takes from it, came from that
remote's forge, whatever handlers of one process do between `cachedProvider` and
`storeProvider`. `EveryRequestIsAnswered`: the output is the answers to the lines taken, in
their order, with the line in hand as the only one missing; a kill empties both.

**ReadAnswersProofs.** `AcceptanceIsBorneOut`, that "accepted" is never said but on records of
the revision that git showed clean, in any world, for requests of which every read met
another state of the machine. It has two halves. *What was read*: `GitInv` (what a request
has seen of git is what some machine of the world says at the root the request has
resolved; it rests on `GitOfNext`, a root resolved once is not resolved otherwise by later
reads) and `AcceptanceParts`, which undoes `ItemSteps` step by step: a request with
nothing left to read has read all that its answer is made of. *What is decided*: lemmas
about the operators. `FirstOf` says that sorting with an order a finite set puts its least
element first, by counting (`FewerBelow`, `Ranked`); `EvidenceLists` that the list of
`Evidence` is the records of the files; `NewestIsNew` that the record decided from is newer
than the others of its check and revision; `CheckSupported` that a check that passes has it;
`InnermostWorktree` and `ResolvedClean` that a revision is resolved for a clean worktree
that contains the project and no nearer one does. `AnswerInv` carries the claim from `Reply`,
where the answer is made, to the states after.

**FederationAnswersProofs.** Two of its theorems are about every answer of `get_federation_status`, and one
about every order of what the peers have shown, for any number of peers, snapshots, instances and
worktrees. They share three layers.

- *The folds.* `CurrentSnapshots` and `PlacedCandidates` are recursive functions; `KeptExists`
  and `PlacedExists` show that these functions exist for sequences of every length, by
  `EveryNumber` (induction over a set of numbers, from their least element). What holds after
  each element is stated without the fold: `KeptFrom`, that what is kept are the newest
  snapshots, one of each Host and none with a rival of its time; `PlacedFrom`, that the
  groups are not empty and apart, the pairs in a group match, everything that was placed is in
  one, and all ambiguous or conflicting pairs are reported. `OneMoreKept` and `OneMorePlaced`
  are the steps, over the cases of `KeepNewest` and `PlaceCandidate`.
- *The reads.* As for acceptance: `AnswerInv`, `TypedInv` and `StatusRead` give that all that the
  answer is made of has been read and was so in some state of the machine, although each
  read met another. `OwnSnapshot` then shows that what this Host publishes is a snapshot that
  the aggregation can rely on, from `ListedAre`, `DetailRoot` and `BuiltInstance`.
- *The order.* `Ranked` and `InPlace` (the element of a finite ordered set with *n* elements
  below it stands at place *n* + 1) show that the candidates are all instances, each once.

`NewestAreAggregated`: whatever the order, what is kept are the newest snapshots and they are
all there (`NewestKept`), everything after is a function of that set (`NewestAggregated`), and
`KeepNewest` fails on no sequence without two different snapshots of one Host and time; the
orders of what the peers have shown are sequences of possible snapshots (`SeenIsPossible`,
`NewestOfAnyOrder`). `ProjectionsAreSound` is `PlacedFrom` of all candidates of the newest snapshots.
`InstancesAreSelectable`: instances are told apart by Host and ID, since an ID names its Host
and its root (`InstancesApart`), and every Host of an instance has a line in the projection,
the first of which `SelectHost` finds.

`AttentionIsLinked`: a page that has an item has totals, so the local line is that of this
Host and its snapshot was kept (`HostLine`, `LocalLine`, `LastIsKept`); the item is of a record
that `FoundID` finds again, whose instance was built if every detail was read (`OneBuilt`); it
is shown, and nothing else is shown under its ID (`OneShown`, `PageParts`, `LinkIsShown`).

`RepositoriesAgree`: `ListedFrom` says of each listed repository which record or session it
comes from (`EldestExists`: every root of the catalog has a record that is listed), `ListedFound`
that `GetRepository` finds by its ID what is listed under it, and `DetailAgrees` that it then
says the same. Records of one root and IDs of old catalogs are covered; a session without an
agent is left out, as in the property.

`OnlyLostFailsSnapshots`: a request that was answered has asked for each repository of the
list up to the first that was gone (`SnapshotStepsRead`, `DetailsRead`), and one that was gone
is lost (`GoneIsLost`). Otherwise each is found at the root it was listed at, however the
machine has changed since (`SameRoot`), so its instance is built (`BuiltOK`) and the instances
have IDs of their own (`InstancesBuilt`); what is assembled of them validates in both schemas
(`SnapshotIs`, `ByRootIs`, `ValidOwn`). Only a process that is up answers, and it holds a Host
ID (`UpHolds`).

**RepositoryAnswersProofs.** Three theorems about a machine that stands still, for any files,
records and sessions it may have; the invariant of each is `WorldInv`, that the machine is in a
state of its world, and the work is in the operators. What they compare is computed twice, by
different code, over lists that have no common order.

- *Lists in an order.* `SortedLists` and `ScanLists`: a list made of a finite set has each
  element once and nothing else, so that its length, what is counted in it
  (`CountListed`, `NumbersList`) and what is kept of it (`KeptLists`) are those of the set. History
  is such a list too (`HistoryLists`): its order is total, as ties of time are broken by
  repository and session (`history.go`).
- *Sums.* `FoldExists` makes a fold over the parts of a finite set, one element at a time, and
  `FoldUnique` shows that there is one only (a smallest part that two folds differ on has no
  element to differ by). Hence `SumSplits`, that `SumFunction` adds up in whatever order; `SumByKey`, that
  a sum may go over what is summed up or over its keys; and `SumOfParts`, that parts with
  nothing in common count as their union.

`InitKeepsConventions`: the parser of `.specview.yaml` is a recursive function over the
lines. `ParseExists` shows that there is one for a list of any length, `ParsesInOrder` that it
goes line by line, and `InitialParses` follows it through the lines `config.Init` writes:
the one parser state after each. Then both detections are compared for every set of
directories (`KeepsConvention`).

`HostTotalsAreSums`: `CountsAre` compares what a repository adds to each count of the Host with
what its own summary says (over `ItemsParsed`, `OverviewIs` and the counts of evidence), and
`AddsNow` finds both while nothing changes; `CountedNow` has the answer of the Host, and `TotalIs`
sums over the repositories. The active sessions are counted from
the one history of the Host, and are the sum of those of the repositories, as an entry
names the repository whose session it is (`ActiveSum`).

`AcceptanceViewsOfOneTruth`: the overview and `get_acceptance` look for the record that decides
a check in two lists of the same records, the one of a project and the one of a work item.
`NewestIsTop` and `OneTop`: what the sort puts first of the relevant records is the only
one that no other comes before, whatever the list; hence `SameRequirement`, `SameEvaluation`
and `SameDecision`. `EntryIs`, `ItemFound` and `PathFound` find the entry of a work item in the
overview; `SameConvention`, `SourceIs` and `PageIs` show that the pages, which detect the
convention, find the project and take git by a path of their own, arrive at the same project
(`OnPageIs`), and `EntryAgreesNow` puts the parts of one entry together.

**FederationPeersProofs.** `FederationTypes`: `TypeOK` with `ServeInv`, what the Poller is
doing. `AttemptsDecide` by `AloneInv`: a process that saves, and that nobody has raced, is
the only one with its observation in hand, and what it will rename is the outcome of its
attempt on the file as it is. `NotificationsSuffice` by `ToldInv`, in parts by phase:
`QuietInv` (while no command disturbs a cycle no other process saves), `CycleInv` in a
cycle and `WaitInv` between cycles (what was found out is what is shown), `ViewedInv` for
what the observer was told.

Assumptions: IDs of derived and legacy records, and of executions and legacy
sessions, are different; a first file is missing or of version 1 with consistent
times (`FirstFileAssumption`), as later files come from the model itself; peer names are
numbers, and the first registry holds names and Host IDs (`RegistryAssumption`); bounds
are naturals; a drawn identity is none of the other contents of `host.json`; `TTL` is
positive, and every worker belongs to a process. Of the worlds of `ReadService`
(`WorldsAssumption`, `MachinesAssumption`): a client sends finitely many lines, each blank,
garbage or a request; a machine starts in one of its states; the evidence files of a project
are finitely many, of different paths, times in them are numbers, and the records of one work
item differ in time or ID (`os.ReadDir`, `time.Time`, `project.go:137`; `PossibleFiles`); `git worktree list` gives a list, and counts dirty files; a catalog holds
finitely many repositories by their IDs, and an ID that is the hash of a root is that of its
repository (`c.repos` is keyed by ID, and `catalog.go:342` makes the IDs; `PossibleCatalog`);
no ID is blank, and no repository changes its root (`RootsAssumption`, `catalog.go:346`); the
IDs that are drawn are valid Host IDs and the hostname is not blank (`HostAssumption`,
`catalog.go:143`); live sessions are finitely many; the registry is a list; an observation that can be read holds
valid snapshots (`decodeObservation` validates them; `PossibleSnapshot`); the orders of the
hashes of Hosts and roots are total and no hash is that of no root (`RankAssumption`). TLC
evaluates all of them on the worlds of `reads`.

Of the files of a machine: artifacts have paths of their own, and a directory the fields
of any other (`PossibleArtifacts`, `PossibleDir`); the sessions of a repository are kept by their IDs
(`PossiblePast`, `findSessionByID` at `catalog_execution.go:45`); the order of repository IDs is injective
(`IDRankAssumption`, they are strings).

Only model-checked: liveness (`IndexCatchesUp`, `MaterialChangeSaved`, `ChangeReachesPage`,
`PollerConverges`), which rests on fairness and `ENABLED` and is out of the prover's reach. Every
invariant and every other property of the passing runs is stated by a theorem above.

## 6. Plan

Done: the catalog, runtime and live pages with their searches, the peers, the
identity and its abstract specification, the operators of acceptance, correlation,
control plane, snapshots and pages, the composition `ReadService`, and the proofs above.

What is left, in this order:

1. Two `serve` processes over one `catalog.json`: the second observes and writes before
   it fails to bind the port, through the same temporary file. `HostCatalog` would need two
   memories and the steps of its write apart.
2. The registry file's own races: two `peer add` commands lose an update. It needs the
   three steps of `atomicWrite` for the registry as `FederationPeers` has them for
   observations, and multiplies its largest run.
3. `FetchWithHeaders` falling back from the newer snapshot path to the older one while the
   remote host is upgraded between the two requests.
4. The catalog's records in the index model: one session ID in two records of one
   directory makes every synchronization fail.
5. An abstract observation store that attempts nobody raced implement.

## 7. Not modelled

Parsing (`ps`, `lsof`, `git`, `gh`, markdown of the three specification adapters, JSON,
flags), SQL text and ranking, rendering, logging, and URL, header, peer-name and ID
syntax: pure functions of text, or I/O. YAML is parsed from classified lines on. The
footprint cache (`hoststate/footprint.go`) feeds a label only. The PID-shaped
`Catalog.Observe` has no caller in `serve`. A directory that a
symlink moves while the program runs, and clocks that go backwards, are left out
(`PlaceOf` is constant, `Tick` only adds). Status per component is in
`PROJECT.json`.
