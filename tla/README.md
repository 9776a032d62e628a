# A verification project for Ryzen.Build.1

The repository is a collection of programs around one kernel module, `dawnhex_kmod.c`, the
"DawnHex" cluster control plane: a character device, `/dev/dawnhex`, and sysfs attributes over a
table of nodes, links between them, pairs of nodes that are pulsed, and a timer that ages the
nodes.  Around it stand a second kernel module, an epoll TCP proxy, a client that polls a remote
service, an FFI for packed deltas and a number of floating-point calculations.  This directory
holds TLA+ models of the parts that carry state, TLC configurations that check them on small
instances, and proofs that TLAPS checks for all instances.

Some files are pasted together.  In `dawnhex_kmod.c` the `DAWNHEX_DUO_IOC_*` cases stand inside
`dh_handle_command_locked`, and two structures are declared twice; `infinity.c` holds several
revisions of `session_destroy` and of `main`.  Where the text cannot be compiled as it stands we
model what each handler does: we take the pasted cases for cases of the ioctl, which is what their
`switch` labels and their `arg` say they are, and in `infinity.c` the event loop of line 1034,
whose call of `session_destroy` passes `cfg` and so is the one that writes the artifact.

## Inventory

| component | state | operations | interacts with | hard behaviour | what makes it correct |
|---|---|---|---|---|---|
| DawnHex cluster (`dawnhex_kmod.c`) | `nodes` with link masks, `duo.pairs`, `next_pair_id`, `hooks`, `generation` | text commands, ioctls, tick, seeding in `dawnhex_init` | hooks of other modules, event ring | redundant link masks, pairs that outlive nodes, clients before seeding, u32 arithmetic | masks are an undirected graph; ids are not reused; values stay in range; every change is told by an event |
| DawnHex event ring | `events`, `ev_head`, `ev_tail`, wait queue | `dh_emit_event_locked`, `dh_read`, `dh_poll` | all handlers emit, clients read | wait outside the lock, overwriting, competing readers, wrap | a bounded queue without lost wake-ups |
| DawnHex tick work and module life | `tick_work`, `interactive`, `tick_ms`, `lock` | `dh_tick_workfn`, `interactive`, `tick_ms` in both forms, init, exit | the kernel's workqueue | unlocked re-reads, cancellation under the lock, unloading | off is final, on goes on, nothing is left after unloading |
| Simplex ladder (`simplex_adalter_kmod.c`, `dawnhex_kmod.c`, `xem_fib_recursion.py`) | none | recompute | pulses, reports | u32 products that wrap, rounding and clamps, the same code twice | ratios add up; the two copies agree; energy and pressure move it the way the comment says |
| Infinity proxy (`infinity.c`) | sessions, descriptors, two buffers a session, idle clock | accept, connect, relay, half-close, idle scan, shutdown | peers, epoll | stale events, half-close, limits, partial writes | bytes in order and none lost, sessions end, the limit holds |
| Simplex adalter module (`simplex_adalter_kmod.c`) | configuration, base, report, one work item on a workqueue | `SET_CFG`, `RUN_BASE`, `GET_*`, `last_key`, init, exit | clients, the ladder | callers share a pending work item; the queue is destroyed before the device goes | a call that returns has its write in a report; a report is made of one input; open files keep the queue alive |
| Delta FFI (`deltaffi.c`, `delta_link_ffi.lua`) | buffers of a call | pack, unpack, reversals, xor delta, block hashes | Lua callers, files | measuring and writing in two calls, field widths, cut streams | unpacking inverts packing; no byte of a buffer is left unset; a stream cut inside a packed run is an error, and one cut elsewhere unpacks to a beginning of the data |
| Runway hook (`runway_hook.c`) | task id, last status | submit, poll without limit | HTTP service | lost requests and answers, errors between polls | the exit status is the task's outcome; an ended task ends the client |
| Caustic (`caustic.c`) | payload of a pass | stat, list and read extended attributes, score, post | other users of the file, HTTP service | the file changes between two calls; calls are refused; posts fail | a report is right in what nobody changed or refused; sampling goes on; scores are ordered |
| Dawnstar, cross node, simplex adapter, XEM, clamp | none or local | floating-point calculation | - | - | numeric only |
| Client, daemon, scripts, build | none | forwarding | devices | - | I/O only |

The hazards of this code, each at its line and with the properties that would catch it, are in
`PROJECT.json`.

## Models

**DawnHexCluster** is the core.  Every handler takes `g_dawnhex.lock` before its first read and
drops it after its last write, so one handler is one action; the text command and the ioctl that
reach the same `*_locked` helper share the action, and each early return is a disjunct (`Fail`).
`nodes` is the node table with `links` the set of bits of `links_mask`; `pairs` is the used part
of the pair table, in table order, because lookups stop at the first match and `DelPair` moves
the rest down.  `out` is what the handler returned, the events it emitted in order and the calls
it made to the hooks.  The simplex ladder is abstracted to the energy and pressure it was
computed from (`ladder`), which is enough to say that no stale ladder is seen.  Names of nodes,
which nothing compares, are left out.  `Seed` is the part of `dawnhex_init` after
`misc_register`; any handler may run before it.

**ClusterGraph** is what the node table promises: an undirected graph.  `ImplementsGraph` maps
the present ids to vertices and the masks to two-element edges, and says that the link count the
module reports is the number of those edges.

**DawnHexMirror** composes the cluster with a client that reads all events and nothing else.  The
client is no program of the repository but the measure of the events: could one be written that
keeps a copy?

**EventLog** is what the ring promises: a bounded queue that loses only the oldest event of a full
queue.  **EventRing** is the ring at the grain of loads and stores: an emission is four steps
(make room, publish, wake, unlock), a read tests the condition outside the lock with two loads
in either order, joins the wait queue, tests again, sleeps, locks, looks again and pops.
`wait_event_interruptible` and `wake_up_interruptible` are modelled as the kernel implements them
(external).  Signals end a wait, copying to the user may fail, and a read of no bytes returns at
once.

**DawnHexTick** is the life of the module and of `tick_work`.  Sections under the lock that cannot
block are one action; `interactive 0`, which waits inside the lock, is two, and
`dh_tick_workfn` is three because it reads `interactive` and `tick_ms` after unlocking.  The
workqueue is external: one instance of a work item runs at a time, it may be scheduled while it
runs, and it cannot be scheduled while it is being cancelled.  File writers hold a reference to
the module, so unloading waits for them; sysfs writers do not, until `misc_deregister`.

**InfinityRelay** is one session of the proxy with the event loop that serves it.  `buf[0]` is
`to_upstream` and `buf[1]` is `to_client`, each with its `start` and `end`; a byte is its position
in the stream it belongs to, so order, loss and duplication show.  `epoll_wait`, the receive, the
send and the rest of `handle_side_io` are separate steps, because the remote ends, the pending
connect and the clock move between the system calls; `batch` holds the events one `epoll_wait`
sampled, which may be stale when they are handled.  The sockets are external: `SocketEvents`
follows the kernel's `tcp_poll` (level-triggered, `HUP` when both directions are closed, `OUT`
while the socket has room), and shutting a socket down that is still connecting gives the
connection up.

**InfinitySessions** is the other half of the proxy: the descriptor map, the set of sessions in
the list, the counters and the accept loop.  What a session does with an event is a choice here,
because `InfinityRelay` is about that; what matters is that an event names a descriptor only, that
descriptors are the lowest free numbers, and that the handlers of a batch close and reopen them.
Of the revisions of `session_destroy` it follows the one at line 85.  `AcceptDrops` closes a
connection that never gets a session (`set_nonblocking` or the allocation fails); `AcceptFails` is
every way to lose a session while it is set up (no upstream socket, connect refused at once, a
descriptor beyond the map); and `accept` itself may fail at any time, not only without descriptors
(`AcceptNone`).  `dropped` is history, the connections lost in the first way.

**RecalcService** is what the Simplex adalter module promises: a call that writes the
configuration or the base returns only when a report has been made of an input with the write in
it, and a report is made of one input.  **SimplexWork** is how it does that: every caller puts the
same work item on a queue and flushes it.  A section under `g_sa.lock` is one step, and so are
`queue_work`, `flush_work`, the three moments of the work function (it leaves the queue, it has
recomputed, it has returned) and the steps of `simplex_init` and `simplex_exit`.  The queue and
the references that open files hold are external: `queue_work` does nothing when the item is
pending, `flush_work` waits for the pending instance, else for the one that runs, a draining queue
refuses work that does not come from itself and leaves the item marked as pending, and the use of
a freed queue ends what is known (`wq = "freed"`).  `owed` is history: whose write no report has
in it.  The ladder is a parameter there, and **SimplexReports** says that it is the real one.

**SimplexLadder** is that ladder, `sa_recompute_locked`, exact to the last digit; products are put
together from parts because TLC's integers have 32 bits where the code has u64.
**DuoLadder** is the part of the DawnHex ladder that goes through the same steps, the retained
ratios, with the factors each mode gives its pairs.  Both are constant operators.

**HostTools** holds three programs in user space.  Each is a module over the variables of
**HostProgram** (which program, where it is, its memory, and the world it works on); one of them
runs, from any start.  **RunwayClient**: a request is one step that may not arrive, and whose
answer may be lost, be an HTTP error or bring no status; the service is external and works on its
tasks on its own.  **CausticSampler**: each system call on the file is a step, and others set and
remove attributes, replace and delete the file between them.  Any call may be refused for reasons
of its own, on a file nobody changes too: `user.*` attributes of a file one may not read are listed,
but their values are not given.  Names have one length.  A value is its size, which decides whether a
call fails, and the size of its text up to the first NUL, which is what a payload gets of it.  With a
buffer of no bytes the second call measures again; when something has been added in between, the
program reads or writes behind its memory, and is "undefined" from there.  `astray` and `filled` are
history: which of the questions a pass asks (the stat, the list of names, the value of each) were
refused, or have had their answer changed, since it began, and whether something was added or given
its first bytes.  **CausticScores** is `compute_magenta_scores`, exact,
and **CausticReports** says over which samples its scores are to be in order.
**DeltaPack**: one round of the loop of `dl_pack_rle` or `dl_unpack_rle` is a step; a byte
has `Width` values, a buffer is made with `Unset` bytes, and a stream may be cut between packing
and unpacking or come from anywhere.  **DeltaTransforms** has the other transforms as operators; a
block's hash is the block, and xor is a constant operator, of which only is assumed that it gives a
byte and undoes itself; `MCHostTools` gives it the bit operation.

The `MC*` modules give the constants their small values.

## Runs

| run | instance | shows |
|---|---|---|
| `cluster_graph` | 3 nodes (the seeded ones), ids 0..3 so that one is out of range, table of 2 pairs, 2 pair ids | the masks stay an undirected graph and refine `ClusterGraph`; the link count is exact; seeding reaches its end state through any client activity; pair ids are not reused |
| `cluster_energy` | ppm range 0..4, 1 pair, a hook, a client that follows the events | contraction of pulses, fresh ladders, events that carry the value stored; the node table never changes under an unchanged generation |
| `ring_readers` | 3 slots, 2 readers, 5 events | bounded queue, no lost wake-up, no reader left asleep, `read` returns 0 only to competing readers; the ring wraps and overflows |
| `tick_switch` | one file writer and one sysfs writer | a cancellation is final when it returns, on goes on, off dies out; the deadlock below is the only way to get stuck |
| `tick_off_returns` | one file writer | **violated**: `interactive 0` may never return |
| `tick_ms_text` | one file writer | **violated**: `tick_ms N` ticks and sets nothing |
| `relay` | buffers of 2 bytes, sockets of 1, 3 bytes up and 1 down; the client may reset | no byte lost, doubled or reordered; half-close only behind the bytes received; the artifact holds the next bytes; sent bytes are received and move on, finished sessions close, silent sessions time out |
| `relay_tail` | buffers of 1 byte, 2 bytes up | **violated**: the upstream may be shut down before it was sent every byte |
| `relay_idle` | buffers of 1 byte, 2 bytes up | **violated**: a half-closed session never times out |
| `sessions_table` | 5 clients, limit 2, descriptors for one session more | map, list and counter agree through every reuse of a descriptor; nothing leaks; every connection is accepted, refused or closed, unless `accept` fails for ever |
| `simplex_work` | two files, one sysfs store, a loader; the default configuration, a smaller one and a refused one, two keys; pairs of every mode with energies and pressures of 0, 450000 and 1000000 | a call that returns is in a report, calls return, loading and unloading end, open files keep the queue, nothing is left after unloading; `SimplexWork` implements `RecalcService`; every reported ladder adds up, and the two ladders agree and follow energy and pressure |
| `host_tools` | 2 tasks; 2 attributes with values of 0 to 2 bytes; bytes of three bits, data of up to 9 of them | the client's exit status and the task's outcome agree, an ended task ends the client; a report is right in all that was not changed or refused during the pass, and sampling goes on; packing is undone, measured and written sizes agree, a stream cut inside a run is an error and one cut between two gives a beginning; transforms invert, blocks tile, scores are ordered |

*Bounds.*  Three nodes are the least the seeding needs and let a node be deleted from the middle
of a path and of a triangle.  Two pair ids in a table of two fill the table and let the first pair
be deleted before the second; longer lives of the table are left to the theorems, which hold for
any number of pairs.  Counters run modulo a small number (`GenerationModulus`, `PulseModulus`) as
the code's run modulo 2^32; where the property compares generations the modulus is 2, with which
two bumps in one step would show as none, so that run is the stricter for it.  In `cluster_graph`
the ppm constants are chosen so that energies cannot move and the generation does not count, which
keeps the graph and the table small; `cluster_energy` moves them, with every node online.  A ring
of three slots holds two events; with five emissions it fills, overflows and wraps for every
position of the readers.  A buffer of two bytes before a socket of one lets a partial send leave a
start index behind, so that the next receive compacts, and a third byte is one more than it holds.
Five clients at a limit of two let a descriptor be closed, reused and refused within one batch; the
descriptors to spare make the limit, not the descriptors, what stops a third session; that they run
out is among the failures of `accept`, which are a free choice, and so is the failure to register one
(`AcceptFails`).
Two files and a store let a third caller arrive while one waits for the pending instance of the
work item and another for the one that runs.  The ladders in its reports are computed with the
source's numbers, one of 22 levels of 12 nodes and one of 2 levels of 5 whose clamps let a node keep
the whole; configurations for which a u32 difference goes below zero are left out.  The samples
that are scored lie at both sides of every limit of the scores.  A byte of three bits
has its largest value, 7, for the marker and the longest run, as the code's byte has 255; data of nine bytes outgrow a run of seven by two.  Blocks
of one to four bytes divide them with and without a rest.  Values
of 0, 1 and 2 bytes are what tells a buffer of none, one that is outgrown and one that is too large;
that of two ends with a NUL, so its text is cut.
`MaxPairId`, `MaxEvents`, `Bytes` and `MaxArrivals` are the only bounds the code does not have.
Three cuts are smaller than they look: an age stops counting one above the idle limit, descriptors
of one batch are not limited to 128, and the receive queue of a socket has no limit.

*Fairness.*  `EventRing!Fairness`: a handler inside the lock runs to its end, a thread inside
`read` that is not blocked is scheduled, and a reader that waits for the mutex gets it (strong
fairness: Linux mutexes hand over to waiters).  Nobody has to emit or to call `read`.
`DawnHexTick!Fairness`: timers fire, the workqueue runs what is queued, mutex waiters get the
mutex, and threads whose wait is over go on.  Nobody has to send a command or to unload.
`InfinityRelay!FairSpec`: the event loop, which never blocks for more than the timeout of
`epoll_wait`, goes on, and the clock does.  Nothing is assumed of the remote ends, except where a
property says so: `RemotesFair`, that a remote end reads what it is sent and that a connection
attempt ends, is a premise of the two properties about bytes and finished sessions, and not of
`QuietSessionsTimeOut`.  `InfinitySessions!FairSpec`: the loop goes on; no session has to end.
`ConnectionsAnswered` has a premise, `AcceptRecovers`, that `accept` does not fail for ever: strong fairness of its success, as
the loop leaves and enters the accept loop again and again.
`SimplexWork!Fairness`: the queue's worker runs, a thread inside a call goes on, and a loading or an
unloading that has begun goes on; nobody has to call, close or unload.  `HostTools!FairSpec`: the
program is scheduled; requests have time-outs (30 s and 120 s in the source), so every one of its
steps ends.  Nothing is assumed of the service or of the file's other users; that the status is
answered now and then is a premise of `RunwayFollowsToEnd`.

*Deadlock* is checked wherever the system cannot stop.  It is off in the tick runs (the module
may be unloaded, and `tick_off_returns` shows it can lock up), in the proxy runs (the session
is closed, or the program has been told to stop), in `simplex_work` (the module is gone) and in
`host_tools` (the program has ended).

## What the violated runs show

* `tick_off_returns`: `interactive 0` calls `cancel_delayed_work_sync` with the mutex held that
  the work it waits for is about to take.
* `tick_ms_text`: `strncmp(cmd, "tick", 4)` comes before the test for `tick_ms`.
* `relay_tail`: `EPOLLRDHUP` ends a side after a single receive, whatever is left in its socket.
* `relay_idle`: `EPOLLRDHUP` is always asked for and level-triggered, so a side that has finished
  is reported in every round, and every report counts as activity.

Seen while modelling, without a text that says otherwise and so without a run: a sysfs store
between the cancellation and `misc_deregister` of `dawnhex_exit` arms the tick work again; an
event popped from the ring is lost when copying it to the user fails; when both buffers hold more
than one buffer's worth the artifact keeps only part of each (`infinity.c:155`); an event
sampled for a session that died in the same batch may be given to a new session that has its
descriptor (`infinity.c:1056`); at the limit of descriptors `accept` fails and the listener stays
ready; a store to `last_key` while `simplex_exit` drains the queue marks the work as pending and
never gets its report, and one after `destroy_workqueue` uses a freed queue
(`simplex_adalter_kmod.c:327`); the summary can be read as zeros before the first recomputation;
the products at `simplex_adalter_kmod.c:258` and 263 wrap in u32 with the default configuration; an
attribute whose value may not be read is left out of a payload without a trace, though it was listed
and counted (`caustic.c:347`, 352), and a value is cut at its first NUL (184, 358); an
attribute that is set, or given its first byte, between the two calls that read it makes
`caustic.c` read or write behind its buffer (lines 290, 351); `--no-stat` has no effect and
`--once` exits with 0 when the post failed; the output address `runway_hook.c:132` prints is always
the word `output`, because the first quotation mark found is that of the key; a `--task-id` the
service does not know is polled for ever; `hex64_u64` formats a 64-bit hash as a Lua number.

## Proofs

`DawnHexCluster_proofs` proves, for all values of the constants that the named assumptions admit:

* `Invariance`: `Inv == TypeOK /\ LinksWellFormed /\ PairTableOrdered /\ LadderFresh` holds
  throughout, hence `TypeCorrectness`, `LinksStayWellFormed`, `PairTableStaysOrdered`,
  `LaddersStayFresh`;
* `PairIdsNotReused`, `PulsesContract`, `SeedingEstablishesDefaults` and, for counters that wrap at
  two or more, `GenerationCoversTable`, action properties;
* `GraphRefinement`: the node table implements `ClusterGraph`.

The argument.  A node handler either fails and changes only `out`, or commits a table; so there is
one lemma for each way to build a table (`WithNodeGood`, `WithLinkGood`, `WithoutLinkGood`,
`WithoutNodeGood`, `RewrittenGood`) saying that it keeps a well-formed table well-formed, and
`CommitInv` for the rest.  That an absent slot is all zero is needed for adding: a new node
starts with an empty mask, and symmetry holds only because the slot had none.  Pulses need the
pair table's order: it says that a pair's ends differ, without which the second feedback would
overwrite the first and contraction would fail.  `PairIndexFinds` needs a least element of a set
of indices, which comes from the well-foundedness of `<` on the naturals.

For the refinement, every bit of a mask is half a link, written as a pair of ids.  The half-links
that point up and those that point down are as many, because turning a pair round maps one onto the
other, and each of the two maps one to one onto the edges; so the sum of the bits, halved, counts
the edges (`EdgesAreHalved`, `HalfTheSum`).  That the sum over the nodes counts the half-links
(`SumCountsHalves`) would be an induction over the ids; it is proved by the smallest id at which it
fails, which needs no induction theorem.  Each handler then is a step of the graph or leaves it
alone.

Assumptions used: at least three nodes (`NodesAssumption`), natural limits, a positive modulus,
`EnergyFloor` in range and `HealthDrop <= HealthFloor` (`PpmAssumption`, as 250 and 250000 are).
Pair ids are bounded by `MaxPairId`; the wrap of `next_pair_id` after 2^32 pairs is outside the
theorems.

`DawnHexMirror_proofs` proves `MirrorStaysExact`: after every handler a client that has heard its
events, and asked nothing, has the module's nodes, links and pairs.

The argument.  The client folds over the events of a handler, of which a tick or the seeding makes
many.  `FoldingExists` (again by the smallest counterexample) gives the fold its recursion, and from
there on a *trail* names the client's copy after each event; a trail that starts at the old table
and ends at the new one is given for each handler.  The events of a tick and of the seeding come
with rising ids, so the trail of one is the table with all nodes up to some id renewed.  Pairs are
compared by id, not by place in the table, because removing one moves the others; that ids are not
used twice comes from `Inv` of `DawnHexCluster_proofs`, and the invariant that is inductive is that
one together with the mirror's.

`InfinityRelay_proofs` proves, for buffers, sockets, streams and idle limits of every size
(`RelayAssumption`), that `Inv` is inductive, hence `TypeCorrectness`, `RelayStaysIntact`,
`ShutdownAfterDrain` and `ArtifactsHoldNextBytes`.

The argument.  `Carries(o, b, n)` is `RelayIntact` for one direction: of `n` bytes received, `o`
were sent on and `b` holds the rest.  One lemma for each operation on a buffer (`CompactedGood`,
`FilledGood`, `AdvancedGood`) says how it changes; `ReadDirections` and `WriteDirections` lift
them to the two directions of a session, and the other steps leave the data alone.  Three
conjuncts are needed only for the induction.  `BatchShape`: while `handle_side_io` runs there is
an event to handle, and two events of a batch are of different sides.  `EofStopsReading`: a side
that has ended is not asked for input, and no event sampled before it ended still asks for it;
without this a stale `EPOLLIN` could fill the buffer of a direction whose half-close was passed
on.  `WrittenOnce`: there is no artifact before the session is destroyed.

`SimplexWork_proofs` proves, for any number of callers and any inputs, keys and ladder
(`ThreadsAssumption`, `LoadAssumption`), that `Inv` is inductive, hence `TypeCorrectness`,
`ReportStaysCurrent`, `ReturnedCallsAreReported`, `OpenFilesKeepQueue` and
`UnloadingLeavesNothing`, and that `SimplexWork` implements `RecalcService` (`Refinement`).

The argument.  `LifeInv` ties the phase of the module to the loader, the queue and the device: a
file is open only while the module is coming or live, hence only on a living queue.  `WorkInv`
says on which queue an item may be pending or running.  `OwedInv` is the heart: whoever is owed a
report and waits, waits for a pending item or for an instance that has not recomputed yet; one that
found the item pending is safe because a pending instance starts, and so reads, later than its
write.  Each action has one lemma, with a step for each conjunct.  The
refinement maps a write, a recomputation, the return of the callers that waited for one instance
and the end of the service to the four actions of `RecalcService`, every other step to a stutter.

The same module proves `ReportsAddUp` and `LaddersSound`, about the ladders in the reports and those
of pairs (`LadderAssumption`, `LevelsAssumption`).  The assumptions say that the ladder in a report
is the one of `SimplexLadder`, for any number of levels and nodes, and that configurations are in
`Configurations`, where gains and ratios are parts of a million: beyond that the u32 differences
of the code wrap.

The argument.  `Scaled`, which multiplies in parts, is the product divided and rounded once
(`ScaledIs`); hence scaling keeps order and never exceeds a whole that was scaled by a part.  A sum
is characterised by its partial sums, and two sums are compared by the first place at which they
part (`SumsRelate`, `SumCovers`).  `LevelAddsUp`: within a level each node's two ratios add up to the
whole, so their two means lose at most one millionth, and the mean over the levels at most one more
(`MeansOfSums`); `WeightsShareOut`: a weight loses less than one by its division; `MipsFall`: the
factors of the mips fall and both clamps keep order.  For pairs, energy and pressure move the base
(`BaseFollows`), and each factor and clamp of a node, in the order of the code, keeps what moved in
its direction (`ShapedGrows`, `BiasedGrows`).  With factors of one the DawnHex chain ends in the two
the adalter module ends in (`NeutralBiased`), so the nodes, and with them the levels, are equal
(`PairsAgree`).

`DawnHexTick_proofs` proves, for any writers, limits and modulus (`WritersAssumption`,
`TickMsAssumption`, `ModulusAssumption`), `TypeCorrectness` and `CancelIsFinal`, that a
cancellation is final when it returns.

The argument.  While a thread waits in `cancel_delayed_work_sync` it holds the lock and is the only
one to cancel, so nobody switches `interactive` on again; the work item is refused by
`schedule_delayed_work` from the deletion of the timer to the end of the wait, so what was taken
out of the timer and the queue stays out, and the wait itself ends only with the worker idle.

`EventRing_proofs` proves, for a ring of two slots or more, any readers and any number of events
(`RingAssumption`, `OwnerAssumption`), `RingStaysNewest`, `WakeupsArrive`, `SoleReaderGetsNoEof` and
that `EventRing` implements `EventLog` (`Refinement`).

The argument.  `Wraps` says what `%` does within one turn of the ring; `TailMoves` and `HeadMoves`
say from it how the two operations on the ring change what it holds.  `EmitInv` says that the slot
written is free.  `WaitInv` is what the torn condition needs: a reader on the wait queue that
nobody woke has loaded a head that is still the head, or a tail that equals the head only if the
ring is empty, unless a wake-up is on its way; so the second load cannot find a head and a tail
equal that were never equal together.  The refinement maps the store of the new head to `Put`,
making room to `Evict`, a pop to `Take`, and every other step to a stutter.  For the sole reader,
`SoleInv` says that once it has seen an event, one is there until it takes it itself (`Ready`).  A
handler that makes room in a ring of two slots does empty the ring, but it holds the lock and is
about to publish, so whoever gets the lock next finds an event; and while nothing was published the
head is the one the reader loaded first.  The premise that the others stay idle is an assumption on
the whole behaviour, so the theorem carries it as a temporal hypothesis and not in the invariant.

`InfinitySessions_proofs` proves, for any number of clients, sessions and descriptors
(`SessionsAssumption`), `TableStaysConsistent` and `CountersAgree`.

The argument.  A descriptor of a live session is mapped to that session alone (`OwnedBy`), so two
sessions share none (`FdsDisjoint`), and destroying some sessions leaves the descriptors of the
others and the listener's in place (`DestroyInv`); what is opened is free, hence nobody's
(`AcceptInv`).  That no stale event harms the tables needs no more than this: the loop looks the
descriptor up when it handles the event, and the map is right at every moment.  `IdInv` says that a
number not in the list has no descriptors and that a client who waits has a number left, and
`LoopInv` that an event is handled only while the batch has one.

`HostTools_proofs` proves, for any tasks (`OutcomeTold`), attributes, values and sizes of files
(`AttrNamesAssumption`, `ValuesAssumption`, `FileAssumption`: `PassesAreHonest`), samples (`SamplesAssumption`:
`ScoresStayOrdered`) and data over bytes of any width (`WidthAssumption`, `InputsAssumption`:
`PackedStreamsUnpack`; with `StringsAssumption`, `BlockSizesAssumption` and `XorAssumption`:
`TransformsKeepBytes`), what the five invariants of that run say.  A file's list of names is taken
to be at most 64 KiB, the kernel's limit, without which the weight of its attributes would wrap.

The argument.  *The client*: what a terminal answer said stays true of the task, because the service
changes only tasks that have not ended.  *The sampler*: the invariant speaks of each question apart,
for as long as it is not in `astray`.  `StatInv`: the size is the file's.  `ListInv`: the room asked
for is that of the names, and their number is right.  `NameInv`, for one attribute: it is listed,
being read or left to read exactly if the file has it, with its text or with the room it needs.  So a
change, which puts all it touches astray, leaves what is said of the rest alone (`WithTable` and
`RestrictTable` say what it does to the attributes), and a refused call loses one question only.
`MemoryInv`: a buffer of no bytes was asked for only where there was nothing to read, until something
was filled.  *Scores*: `Share` is one floor of one quotient
(`ShareIs`), so density and pressure follow their parts; one lemma then compares two samples of which
one is no better in anything (`WorseScoresLess`).  *Packing*: the measuring and the writing call take
the same way through the source, so a function from places to counts, the `Trail` of the first,
tells where the second is; the bytes counted are all written because the second stands on the whole
trail.  A stream carries a `Track`, which maps the places where a literal or a packed run begins to
the data before them; unpacking follows it, and a stream cut inside a run leaves the track only
through the exit that returns an error.  Both functions are built step by step by the rounds of the
loop, not by recursion, so no induction over data is needed.  *Transforms*: the place of a byte in
the pairs backwards, taken twice, is its own place (`PairPlaceTwice`), and the quotient by which
`M.block_hashes` makes room is the least number of blocks that holds the data (`RoomIs`), so that
the loop stops at its end and the room at the same block (`BlocksFill`).

Type correctness of `DawnHexCluster`, `InfinityRelay` and `SimplexWork`, `PairTableOrdered` and
`ReportCurrent` are proved and not repeated by a run.  No invariant of a passing run is left only
model-checked.  What stays with TLC is liveness under fairness, out of the prover's reach as
`ENABLED` is: `ReadersServed`, `TicksFollowSwitch`, `CancelReturnsUnlessTickWaits`, `BytesMoveOn`,
`FinishedSessionsClose`, `QuietSessionsTimeOut`, `ConnectionsAnswered`, `CallsReturn`,
`RunwayFollowsToEnd` and `SamplingGoesOn`.

## Not modelled

Formatting and parsing of commands, except that `tick_ms` is taken for `tick`; node names;
`GET_*`, `show` and `poll`, which only read under the lock; user-copy failures of ioctls, which
happen before or after the locked section.  Of the proxy: its arguments, the set-up of the
listening socket, the sidecar command, what it prints, and the sockets' `EINTR` retries.  Of the
ladders: configurations whose u32 differences wrap below zero, the crosshatch, coldness and energy
of the DawnHex copy, and the floating-point form in `xem_fib_recursion.py`.  Of the host tools:
the text of requests, payloads and manifests, the hash function itself, the reading of the card's
counters, and failures to allocate.  The components marked not modelled in `PROJECT.json`, each
with its reason: they compute in floating point, which TLC and TLAPS do not have, and keep no state
between calls, or they only pass calls on.

## Plan

1. An abstract relay (two byte streams with end marks) that `InfinityRelay` implements, with the
   loss at a half-close as what it permits; a composition of several `InfinityRelay` sessions in
   `InfinitySessions`, if its size allows.
2. The refinement of that abstract relay as a theorem, with the lemmas on buffers there are.
3. The rest of the DawnHex ladder beside the adalter module's.

The runs are few and each carries several properties: a new module's properties go into one
passing run for safety and, where it has liveness, the same run under fairness.
