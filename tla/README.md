# TLA+ verification of the ring bus model

The repository is an event-driven C++ model of a multi-core ring interconnect:
masters sit on V-Rings, memory targets on one H-Ring, bridges (RBRG) join the
two.  This project models its control in TLA+, checks it with TLC on small
instances and proves part of it for all parameters with TLAPS.

## The system

| Component (source) | State it keeps | Operations |
|---|---|---|
| Cross Station (`tm_ring_cross_station.cc`) | transit registers, I-tag flag and last source per direction, eject reservation (E-tag) per eject queue | one activation per cycle and subnet serves the CW, then the CCW output |
| Slot pool (`tm_ring_slot_pool.h`) | occupancy per lane | acquire, release |
| Node interface (`tm_ring_node_interface.h`) | inject banks, eject queues, their occupancy | push, pop on both sides, reports to the PMU |
| Directed link (`tm_ring_conn.cc`) | serializer, pipeline, two events per lane with `retired` flags | accept, release event, move event, drain, reset |
| Topology (`tm_ring_topology.cc`, `tm_bus_types.h`) | tables, constant after construction | layout, routes, neighbours, target decoding, spans of carriers |
| Home Agent (`tm_ring_home_agent.cc`) | list of read transactions, two cursors and two cached candidates, reserved write lines | accept read, issue, capture, answer, consume summaries, reserve and complete writes, reset |
| Write tracker (`tm_ring_write_tracker.h`) | addresses that wait for data | accept, match, commit, reset |
| Memory port (`tm_ring_mem_port.cc`) | request FIFOs, count of pending reads, response cursor | processes for ring requests, ring data, writes, the agent, responses, reset |
| L2 Buffer (`tm_ring_l2_buffer_node.cc`) | response queue, open groups, frozen front, issue token | accept, freeze, send carriers, reset |
| RBRG (`tm_ring_rbrg_l1.cc`) | per path and direction: serializer, bandwidth and handoff events | schedule, release, hand off, reset |
| Master NIU (`tm_ring_master_niu.cc`) | an arbiter and the class it has reserved | forwards requests, write data, responses and read data |
| Fabric (`tm_ring_core.cc`) | the above, per ring domain | validation, construction, reset, idle |
| Performance master (`tm_ring_perf_master.cc`) | position in the trace, outstanding and completed transactions | issue, receive, reset |
| PMU (`tm_ring_pmu.cc`) | meters of queues, counters of rings, links, bridges, agents | observe, snapshot, reset |
| Estimate and reports (`tm_ring_perf.*`, `tools/`) | none | compute expected figures, decode addresses again, write reports |
| Demo master (`tests/pem_trdemo.cc`) | pair buffers, write pool | test code |

They interact through queues (valid/ready, a full queue holds the producer
back), through direct calls inside one process (Cross Station to slot pool and
link, memory port to Home Agent and L2 Buffer, node interface to PMU), and
through events of the kernel, which a reset cannot cancel.  Kernel processes are
atomic; which of the processes ready in a cycle runs first is not fixed by the
code.

What is hard here: packets deflected round the ring while their queue is full;
carriers that leave a copy here and go on with the rest in one step; tags that
live both in a slot and in a flag of a station; reservations made in one step
and used many steps later; events that outlive a reset; address and data of a
write on two independent subnets, and writes that change more lines than they
reserve; a read transaction shared between the Home
Agent and the L2 Buffer, which close it in different processes; an arbiter whose
turn moves although its choice was refused; meters that count by themselves.
`PROJECT.json` lists these hazards with their lines.

What makes each component correct, in one line each: a ring delivers every
packet once to each of its destinations, loses no slot, tag or reservation, and
keeps delivering; a link and a bridge pay the serialization of every packet,
also over a reset, and hand on what they promised room for; a bridge passes no
head over twice; a target lets readers and writers of a line take turns, shares
only current data and answers everything (all three with exceptions, which the
runs `home_same` and `home_cross` show); a master has in flight what it counts
as outstanding; every configuration gives each node its station and each line
its home; a meter reports what has happened.

## Modules

| Module | What it is |
|---|---|
| `RingLane` | one subnet of one ring: stations, slot pool, node interfaces, links as bounded FIFOs, carriers for several stations, reset |
| `RingTransport` | what a ring promises: FIFO banks, a packet is under way once for each destination and arrives there once |
| `RingConn` | one lane of a directed link, in cycles, with its events and resets |
| `RingLink` | what a Cross Station relies on: the link `RingLane` uses |
| `HomeNode` | a target: memory port, Home Agent, write tracker, L2 Buffer, reset, and the memory as its environment |
| `AtomicMemory` | what a target promises: a read has what its line held at one moment after its request, a write takes effect once, each is answered once |
| `RingBridge` | one path of an RBRG, in cycles, with its events and resets |
| `RingTopology` | layout of a fabric, routes and spans of carriers, for a configuration |
| `RingAddress` | the address decoder of the fabric and that of the reports; extends `RingTopology` |
| `RingMaster` | a performance master, its bus interface and its NIU |
| `RingPmu` | the meters along the path of a request over both rings |
| `RingLaneProofs`, `RingConnProofs`, `RingBridgeProofs`, `HomeNodeProofs`, `RingTopologyProofs`, `RingMasterProofs`, `RingPmuProofs` | theorems for all parameters |
| `SharedLemmas` | facts about naturals, counting, recursion and queues that the proofs share |
| `MCRingLane`, `MCRingConn`, `MCHomeNode`, `MCRingBridge`, `MCRingAddress`, `MCRingMaster`, `MCRingPmu` | instances for TLC |

`RingLane implements RingTransport`, `RingConn implements RingLink` and
`HomeNode implements AtomicMemory` are checked as refinements and proved;
`RingLane` is built on `RingLink`'s view of a link, so the two fit together.  Operators called *Mutant* in a comment are plausible
bugs; they occur in no specification and exist to show that each property can
fail.

### RingLane

`ring` is one record, because a station serves two outputs in one step and the
second must see what the first did: `ServeOutput` maps a state to the next one
and `Schedule` composes it twice.  `inject` and `eject` are the banks and queues
of the node interface, `transit` the registers, `link` and `busy` a link,
`used` the pool, `iTag`, `next`, `eTag` the flags of the station (an E-tag
names its packet, as `e_tag_txn_keys_` does).  The three subnets share nothing
within a ring, so one stands for all.  A packet is its transaction; it may be
sent again once it has been taken at all its destinations.  Injected packets
carry no tags (`clear_ring_local_state`).

A bridge may send a carrier for several stations.  `rest` in a slot is
`pending_stations`: `DeliverCopy` takes the copy off and lets the carrier go on
in one step, or does neither when the link refuses; the last station treats it
as any packet.  A bridge makes a plain packet of a carrier with one recipient,
so carriers are the packets with several stations, to the end of their way.  A
carrier never gets an I-tag, because the code sets
one only in the branch for single packets and injects every slot without.

Two code paths are simplified, with the reason next to the operator: the second
injection attempt of `schedule_output` never succeeds, and tags the code sets
before a refused forward and then rolls back are set only when it is accepted.

### RingConn

Events are sets of remaining cycles; events due in a cycle fire before `Tick`,
in any order.  A slot that has paid its serialization on this ring segment
(`AcceptPaid`) enters the pipeline at once, another waits in the serializer.
`hold` is a history variable: the cycles the last slot still needs.

### HomeNode

`home` is the read side, again one record, because `service_home_agent` is one
step of several stages (summaries, hit, accept, issue, capture, answer), each an
operator.  The write side has separate variables.  Entries are named by their
line, which is unique in the list, so cursors and candidates (iterators in the
code) are lines.  A thrown `logic_error` sets `fault`.  A packet is its
transaction.

`LineOf` is the line a transaction begins in and `Span` all lines it covers.
The code treats those that run on into other lines unevenly.  Such reads fail
`in_one_line` and bypass the agent.  Such writes are accepted like any other:
`reserve_write` has no such test, and reserves, checks and later releases only
`line_base(addr)`, while the data sent to memory changes every line.  So
`writeLines` knows of `LineOf` only and `MemWrite` changes all of `Span`.
`Guarded` are the lines in which every write begins that covers them; what is
said of shared data is exact for these, and for all lines when no write crosses
one.  The perf traces can hold such writes (strided requests longer than what is
left of the line).  With interleaving by line the next line belongs to another
target, whose agent does not learn of the write at all; without, or with coarser
interleaving, both lines are one target's, which is what the module models.

Memory (`TmMem`, not in the repository) takes requests in order, serves each in
one step and answers on any channel; data is the identity of the last write of
the line, and for a read that crosses lines that of its first line.  The latency
and issue interval of the L2 Buffer are any delay.  `Reset` clears the queues
and tables of all four parts; what memory holds and the numbering of groups go
on.  The memory is assumed to forget its requests with the target.

To a master the target is to be an `AtomicMemory`: it knows neither entries,
groups, fan-outs nor channels.  The mapping takes `sent` for what has been
asked, `done` for what has been answered and the contents of the memory as they
are; a write has taken effect while its response is in `wrRsp`; a read has taken
its data when it is in an envelope of the L2 Buffer or, if it bypasses the
agent, on its way back (`HeldIn`).  A read that shares the data of a line outside
`Guarded` is promised only some write of that line, not the last one.

### RingBridge

`path` is one record, since `schedule_path` may start both serializers in one
step.  A packet is known by the direction it prefers (`Preference`), its
serialization cycles and nothing else; `Places` keeps a packet from arriving
while it is on the bridge.  `Best` tabulates the search of `schedule_path` over
the wishes of the two heads, the open outputs and the turn; the code's order of
comparisons is lexicographic, which `Rank` expresses with weights.  Taking the
head of a bank may be delayed arbitrarily, which covers the latency of the
bridge.  `hold` (cycles the last packet of an output still needs) and `passed`
(how often a waiting head's output went to the other input) are history.

### RingTopology and RingAddress

A configuration is any record, valid or not; the one step `Config` stands for
the construction of a fabric and is possible only when `validate_ring_config`
accepts it.  `topo` is then what `TmRingTopology::config` fills in.  The loops
that hand out stations are stated by what they assign: masters ring by ring,
bridges by division, targets in ring order over the stations left, two by two
with Home Agent and L2 Buffer alternating.  `CarrierDirections` is the choice of
a bridge from the two spans of a carrier.  `RingAddress` adds the maps of
`tm_make_ring_target_cfg` and both decoders, with addresses in sectors and the
hash as in the code.  Its exclusive or, `BitXor`, is defined over the `Width` bits
an address has, since the provers know no bitwise operators; `MCRingAddress`
compares it with `^^` of the community modules for all numbers of that width.

### RingMaster

Reads and writes of the trace are two sequences.  The bus interface (`pem_biu`,
outside the repository) has a channel per command and sends the data of a write
some time after its address.  `RecvBiuRequest` is `recv_biu_request`: arbitrate
unless a class is reserved, then try to forward.  The fabric behind the NIU is
reduced to what a master may rely on, which the other modules establish: it
takes from the inject banks in order and answers each transaction once, in any
order.  `passed` is history: how often the head of a channel has been passed
over.

### RingPmu

The path of a request: inject bank of a master, V-Ring, eject banks of a
bridge, its serializers, its inject banks, H-Ring, eject queue of a Home Agent.
Each bank has a meter, except that the two eject banks of the bridge share one,
which the code gives twice the depth and which counts by itself.  A ring is the
set of packets it carries.  `truth` is history: what a meter that looked at the
banks every cycle would have counted.

## What the runs check

| Run | Instance | Result |
|---|---|---|
| `lane_two` | 2 stations, 2 packets each way, links of 1 slot, eject queues of 1, resets, fairness: the lane has 4 places and takes 3 slots, so I-tags, replacements and deflections all happen | types and queue depths, slot count, I-tags owed, a reservation is honoured, the ring keeps delivering, it drains when quiet |
| `lane_fanout` | 3 stations, a bridge that sends 2 carriers for both others in either direction, resets | reservations have owners, reserved room is kept, refinement of `RingTransport` |
| `lane_hot` | 3 packets for one station, fairness | **violated**: one packet may be deflected for ever |
| `conn` | latency 2, slots of 1, 2 and 3 cycles, resets, fairness | events and flags, order of move and release, slot count, serialization paid, refinement of `RingLink`, the link reopens |
| `home_shared` | 2 masters, 3 reads of a line (one bypassing), a read of the next line, 2 writes of the first line (one runs on into the next), 1 buffer entry, 2 channels | types, no fault, one writer per line, readers and writers that begin in a line take turns, shared data is current in the first line, reads accounted for, groups owned, completions captured |
| `home_live` | a read and a bypassing read of a line, a write of it that runs on into the next line, a write of the next line, 3 masters, queues of 1, one reset at any moment, fairness | nothing but the coupling of `home_same` keeps a read or a write from its answer, unless the reset takes it; refinement of `AtomicMemory` |
| `home_same` | 2 writes of a line | **violated**: they can block each other for ever |
| `home_cross` | 2 reads of a line, 1 write that runs on into it | **violated**: a read requested after the write has been answered gets the data from before it |
| `bridge` | 4 packets (2 clockwise, 1 counter-clockwise, 1 carrier with equal spans), queues and banks of 1, 1 or 2 cycles, resets, fairness | reserved room, events and flags, no input overtaken twice, bandwidth paid, every head gets over |
| `topology` | all configurations of up to 10 masters, 5 to a ring, 4 targets and the three interleavings, the invalid ones included | rings filled one to one, ways shortest, lines have one home |
| `master` | 3 reads and 3 writes, 4 outstanding, channels of 2, banks of 1, resets, fairness | outstanding is in flight once, commands take turns, the trace completes |
| `pmu` | 2 requests, queues of 1, 3 cycles, 2 deflections of a packet, resets | meters agree with the queues, snapshots are exact, deflections belong to their ring |

The bounds are the smallest at which the interesting cases occur: queues of one
entry make every full-queue path reachable, two stations make a lane that four
packets overfill, two channels let two line responses wait at once, two masters
at different stations form a fan-out group and a third read by one of them ends
its eligibility.  The mutant of each property was found violated under the same
bounds.  Some choices need a word:

* With two stations all routes are clockwise (the tie rule of
  `route_direction`); both directions at one station are covered by
  `lane_fanout`, whose bridge takes the output that is free.  That instance has
  carriers only, so I-tags are checked in `lane_two`; the slots of a carrier
  carry none anyway.
* Two carriers are enough for one to find the eject entries taken by the copies
  of the other, at one station or at both.  They are interchangeable, which the
  run uses as a symmetry; no run with a liveness property uses one.
* `home_live` allows one reset: everything a reset keeps (memory, the numbering
  of groups) differs after one reset as it does after more.  The other runs of
  `HomeNode` have none; their safety properties are proved with resets.
* `home_live` has two writes that begin in different lines, since the coupling of
  addresses and data needs two: while the first is under way both reads are
  held back, one in `rd_req_q_` and one in the eject queue, with the address of
  the second write behind them and its data in front.  Its read side has one
  reader that shares; sharing by two is in `home_shared`, and in the theorem.
* In `topology`, `MaxStations` is 12 instead of 64, so that configurations that
  are too large are among those enumerated.  The H-Ring with up to 10 V-Rings
  and 4 targets meets every rest of the division that places bridges.
* In `pmu`, three cycles separate the events that a lazily settled meter must
  tell apart; a packet is deflected on both rings within them.
* The type invariants of `RingConn` and `RingBridge` are proved and in no run.

### Where code and documentation disagree

* `lane_hot`: each eject queue has one reservation, given to whichever packet is
  deflected while it is free.  Two packets can win it in turn for ever, against
  the guarantee the design document gives.  The schedule in the counterexample
  is fair; whether a given workload with fixed latencies falls into it depends
  on its timing.  With two packets per destination (`lane_two`) the owner
  always gets in.
* `home_same`: the addresses of two writes to one line arrive as w1, w2 and
  their data as w2, w1.  The data of w2 is at the head of `wr_dat_q_`, its
  address is held back until w1 completes, whose data is behind it.  The comment
  of the write tracker names this coupling as the thing to avoid.  It exists
  across lines as well: reads of the line of an accepted write w1 stall in
  `rd_req_q_`, the next read blocks the REQ eject queue in front of the address
  of w2, a write of another line, and the data of w2 is at the head of
  `wr_dat_q_` in front of that of w1.  `WritesComplete`, checked on the instance
  of `home_live`, is violated in this way; stalled reads then wait for ever too.
  Hence the two liveness properties of `home_live` say what can be said: unless
  `Coupled` holds from some moment on (the head of `wr_dat_q_` waits for an
  address not yet accepted while the target waits for the data of one that has
  been), every write and every read is answered.  `[]<>~Coupled` as a premise
  excludes these deadlocks and nothing else: a coupling that dissolves, however
  often, is covered.
* `home_cross`: `reserve_write` is documented to keep later reads of a line from
  passing a write until its final response.  A write that runs on into the next
  line does so for its first line only.  Memory has answered the line read of an
  entry of the next line when the write comes; the write is done and answered;
  a read requested after that joins the entry, whose data is older.
* The comment at `tm_ring_home_agent.cc:109-110` lets a write continue once the
  data of older reads has been captured (`RESPONDING`).
  `has_blocking_read_transaction` (545-559) blocks it until the entry is gone, and
  `ReadersExcludeWriters` in `home_shared` says so.  The code is right: with the
  rule of the comment (`AcceptsPastResponses`) later readers of the entry get
  stale data, which is the mutant of `SharedDataIsCurrent` and
  `ImplementsMemory`.

## Fairness

`RingLane`: the kernel runs a process again while its queue is not empty, fires
pending events, and the endpoints keep taking what arrives; nothing forces an
endpoint to send.  `RingConn`: time passes, due events fire, a valid slot is
drained, the next station serves its register.  `HomeNode`: while some process
of the target or the memory has something to do, or half of a write has still to
come out of the ring, one such step is taken; since each transaction is sent once
between resets, work is finite and this one condition is all its progress needs.
Memory and the RSP and DAT inject banks are assumed to accept in the end.
`RingBridge`: a path is scheduled again while something waits and an output is
open (its processes are sensitive to arrivals, to room in a bank and to both
events), due events fire, time passes, and the next ring keeps taking packets
from the banks.  `RingMaster`: `issue` runs on every clock edge, the other
processes while their channel or queue holds something, and fabric and bus
interface go on; `TraceCompletes` asks that resets come to an end.  No fairness
is put on a reset anywhere.

## What is proved

`RingLaneProofs`, for every set of packets and stations, all depths and every
routing (`LaneAssumption`).  The invariant `LaneInv` is a statement about the
record `ring`.  Each stage of `ServeOutput` is first shown to be one of a few
kinds of step of one output (the lemmas `...Serves`), each part of the invariant
is shown to survive such a step (`Step...`), and `Schedule` composes two.

* `TypesHold`: `TypeOK`, with the depths of banks, queues and links.
* `PoolIsExact`: `PoolCountsSlots`.  The pool is a number; that it is the number
  of slots in registers and links needs the slots counted place by place, and
  each stage moves, adds or removes one.
* `TagsAreOwed`: `ITagsAreOwed`, the flag of a station against the tags on the
  lane, which a stage may carry on, clear or turn into a replacement.
* `ReservationsAreOwned`: `ReservationsHaveOwners`; a packet goes out of one
  bank, so the packet of a reservation is on the ring once, and its slot cannot
  be taken away before it has reached the station.
* `ReservedRoomIsKept`: `ReservedRoomKept`, an action property.
* `LaneImplementsTransport`: `ImplementsTransport`.  A step of a station maps to
  a start, a copy that arrives, the last arrival or a stutter; the mapping is
  proved for one output and its two outputs follow one another.

`RingConnProofs`, for every set of slots, all serialization times and every
latency (assumption `ConnAssumption`):

* `ConnSafe`: `TypeOK`, `EventsMatchFlags`, `MoveBeforeRelease`,
  `InflightCounts` are invariants.  None of them is inductive by itself: that
  the one-bit retired flags suffice needs that at most one event of each kind
  is outstanding, which needs that a link with a retired event accepts nothing;
  that the serializer is free when a slot arrives needs that the move is due
  before the release.  Their conjunction with `HoldCovered` (the release is not
  due before the slot is through) is `ConnInv`, proved inductive action by
  action.
* `MovesFirst`, `FlightsCounted`: two of these invariants by themselves,
  `MoveBeforeRelease` and `InflightCounts`.
* `SerializationPaid`: from `ConnInv`, an accepted slot finds `hold = 0`.
* `LinkImplemented`: each step is a step of `RingLink` or a stutter.  The move
  into the pipeline is a stutter because `MoveBeforeRelease` leaves no slot
  between serializer and pipeline to overtake.

`RingBridgeProofs`, for all packets, preferences, cycles and depths
(`BridgeAssumption`).  The invariant `BridgeInv` says of each output how its
flags, outstanding events, serializer, bank and `hold` go together (`OutputOK`),
and of the inputs that one that has been passed over has the turn (`TurnKept`).

* `BridgeSafe`: `TypeOK`, `SplitRoomKept`, `EventsMatchFlags`.  A packet in a
  serializer finds its room because its output takes no other one meanwhile and
  nobody else fills the bank.
* `BridgeEventsMatch`: `EventsMatchFlags` by itself.
* `BandwidthPaid`: an output that is open has `hold = 0`.
* `OvertakenOnceSafe`: the only hard part is the search.  That the chosen
  assignment is the best of a finite, nonempty set gives that it serves the
  input whose turn it is whenever both heads want the same output and only one
  can have it (`LoserHadTheTurn`); so a passed-over input gets the turn, and an
  input that has it is not passed over.

`RingTopologyProofs`, for every configuration the fabric accepts
(`TopologyAssumption`):

* `RingsFilled`: `RingsAreFilled`, from `HRingFilled` and `VRingsFilled`.
  Bridges, Home Agents and L2 Buffers are one to one with the stations of the
  H-Ring: consecutive bridges are at least one station apart because there
  are at least as many stations as rings; the stations left are numbered without
  gaps; the two places of a target alternate and cover all numbers below twice
  the number of targets.  The first masters of the V-Rings follow each other at
  distance `MastersOn`, from 0 to the number of masters, so each master has one
  place.
* `WaysShortest`: `WaysAreShortest`, for rings of any size.  A walk along the
  links, a recursive function, is counted out hop by hop as long as it goes
  around the ring no more than once; the hops that lead to a station are then
  its distance, and no others; the span of a carrier is attained by a recipient,
  and the bridge never prefers the longer of two spans.
* `OneHome`: `LinesHaveOneHome`, for addresses of any width and any hash shift and
  seed (`AddressAssumption`: the number of targets, the line size and the address
  limit are as the fabric takes them).  A target is the low bits of a hash, and
  each bit of it is that of the line, of the seed and two higher bits of the line
  added up modulo 2 (`HashBits`).  In a stretch of as many lines as there are
  targets the higher bits do not change, so two of its lines with the same target
  would have the same low bits (`HashTellsApart`): a stretch goes to each target
  once, and the stretches cover the address space.  Powers of two and `BitXor` are
  recursive functions; their equations are derived from the definition by building
  the function argument by argument (`Recursion`), and what is said of all numbers
  by looking at the least one for which it would fail.

`RingMasterProofs`, for every trace and all depths (`MasterAssumption`):

* `TurnsTaken`: `CommandsTakeTurns` with what the NIU knows when: what it has
  reserved is still offered and the turn has moved on to the other command, and
  a command passed over once is reserved or has the turn.
* `OutstandingFlies`: `OutstandingIsInFlight`.  What a master has issued is what
  is outstanding and what is done; every outstanding transaction is at one of
  eight spots (`Placed`), once, which every step keeps by moving one transaction
  from spot to spot, beginning or ending one.  That a transaction that is issued
  is new needs that the trace names each only once, which follows from
  `MasterAssumption` by counting.

`HomeNodeProofs`, for all transactions, lines and bounds (`HomeAssumption`):

* `OneWriter`: `OneWriterPerLine` is an invariant, resets included: no two
  writes that begin in a line have it reserved.  It is inductive together with
  the types of the reserved lines.  It says nothing of a write that runs on into
  the line.
* `TypesHold`, `TurnsAreTaken`, `DataStaysCurrent`, `ResponsesAreCaptured`:
  `TypeOK`, `ReadersExcludeWriters`, `SharedDataIsCurrent`,
  `CompletionsAreCaptured`.  None is inductive by itself.  That data is current
  when it is shared needs that no write of the line reaches memory between the
  answer and the last waiter.  For a line outside `Guarded` this is false, and
  only that the data is of some write of the line is claimed and proved; in a
  guarded line all its writes begin, and for these it needs that the line is reserved from the
  acceptance of the write to its completion and has no entry meanwhile, in which
  the order of the tests in `accept_write_address` and `accept_read` matters;
  and that an entry takes its own response needs that the line of an entry in
  flight is in one place, queue or channel, and nothing else of that line is.
  `TargetInv` is the conjunction of the write reservations (`WriteInv`), the
  types, `WritesApart` (a write address is in one place at a time), `TurnsTaken`
  (the line it begins in stays reserved and without entry while it is past the
  write queue)
  and `ReadHolds` (the table, the cursors, the candidate, the response held for
  the L2 Buffer, its groups, and the lines under way to memory and back).  Each
  stage of `service_home_agent` has a lemma that it keeps `ReadHolds`, in the
  order of the code, so one activation is their composition.  The two loops of
  the model, over the summaries (`ConsumeSummaries`) and over the recipients of
  a carrier (`Without`), are recursive functions; what they keep is shown by
  taking the least index at which it would fail.
* `NothingThrows`, `EachReadIsAccounted`, `GroupsAreOwned`: `NoFault`,
  `ReadsAccounted`, `GroupsHaveOwners`.  They are proved together, from
  `TargetInv` and one more inductive invariant, `BooksBalance`: a read that has
  come is in the eject queue, or with the target (`Owed`: queued, waiting at an
  entry, on the channels of the memory, or in the L2 Buffer), or done, and in one
  of these only.  Of the target's own books (`Booked`) it says that no read waits
  twice (`TidyTable`, `TidyDirect`, `TidyBuffer`), that `pending_rd_rsp_` is the
  number of reads taken and not handed over, that each group that is open, or
  closed and not yet known to the agent, is of exactly one entry, and that the
  recipients of an open group have been answered by the entry of that group
  (`Recipients`), so one that joins is not among them.  The steps that could
  throw are where this is needed: a summary is consumed while its entry is there,
  since the entry outlives its waiters until it has seen the summary; a read
  joins a group that is still open, since groups are closed by another process
  and their summaries are consumed before a candidate is made in the same
  activation, while a candidate kept from an earlier one is never a joining one
  (`Tidy`): to join needs no room; and its station is not among the
  recipients, since a fan-out is only made for waiters of distinct masters.  Each
  stage has a lemma `...Booked`; inside one activation the closed groups that are
  still to be learnt are a parameter of `Booked`, and none is left after the first
  stage.
* `TargetImplementsMemory`: `ImplementsMemory`, for every interleaving of the
  processes and any number of resets.  A step maps to at most one step of
  `AtomicMemory`.  A read takes its data when a stage puts it into the L2 Buffer
  (`Gains`): that the data, captured perhaps long before, is what a guarded line
  holds at this moment, and some write of any other, is `SharedDataIsCurrent`, and that it is a read that has none
  yet is `BooksBalance`.  A read that bypasses the agent takes it when memory
  serves it; its hand-over is a stutter (`Moves`).  The reads of one carrier
  leave together (`Departs`), once the sender has frozen the envelope.  That
  nothing is answered twice needs that what is done is neither with the target
  nor in the memory any more (`AnsweredOnce`).

`HomeAssumption` says besides sizes and types that transactions are not lines,
which lets one set hold what waits at a channel; model values satisfy it, and
identifiers of different kinds in the code do.

`RingPmuProofs`, for all packets, depths and times (`PmuAssumption`):

* `MetersAgree`: `MeterAgreesWithQueues`.  The meter of the bridge's two eject
  banks is told neither of their occupancies; that it has room whenever one of
  them has, and is not empty when one is popped, follows because it holds the
  sum of both and is as deep as both.
* `SnapshotsAreExact`: `SnapshotIsExact`, from the invariant that what a meter
  has added up and its occupancy times the cycles since it was settled are the
  truth (`Exact`).  A bank may change only when its meter is settled in the same
  step.
* `DeflectionsAttributed`: `DeflectionsAreAttributed`.  A packet is in one place
  and once (`Apart`: the inject and eject banks, the rings, the serializers), and
  carries no deflection state before it enters a ring (`Marked`), which is what
  clearing it on the bridge is for.  Late packets and their rounds are counted as
  finite sets: a deflection adds one element, an ejection takes away those of its
  packet.

Only model-checked: liveness, that is `ReservationIsHonoured`, `DrainsWhenQuiet`,
`RingKeepsDelivering`, `LinkReopens`, `OnlyCouplingStopsWrites`,
`OnlyCouplingStopsReads`, `HeadGetsOver` and `TraceCompletes` (the prover does
not handle fairness and `ENABLED`).

## Not modelled

* A bridge together with its two rings, and so the question whether requests and
  responses can block each other across it: a lane of three stations already
  takes millions of states, two of them with a bridge are beyond TLC.
* The issue token of the L2 Buffer in cycles.  Reading it shows that after two
  resets within one issue interval the token is given back early (hazard at
  `tm_ring_l2_buffer_node.cc:491`); the model allows any interval.
* The spans of cluster scatter, and which bytes of a line a recipient gets.
* Requests a memory still owes an answer when its target is reset.
* A write across lines whose next line is another target's, and the data a read
  across lines gets in the lines after its first.
* A memory port without a Home Agent, and the error status of responses.
* Counters of links, Home Agents and L2 Buffers in the PMU, the analytic estimate
  and the reports, apart from their address decoder; scripts; the demo master.
* The kernel, its queues, the arbiter, TmMem and the BIU interface are outside the
  repository and appear only as the code here uses them.

## Plan

Done, in the order of importance: the ring and its links, the target, the
bridge, their refinements; then carriers, the topology, the master side, the
PMU, resets of all of them; proofs of every safety invariant and action property
of the runs, and of the refinements of ring, link and target.  Left:

1. The issue token of the L2 Buffer in cycles, along the lines of `RingConn`.
2. A bridge between two abstract rings (`RingTransport`) instead of two lanes,
   to ask for deadlocks between requests and responses.
