# A TLA+ model of hotstuff-consensus

The repository implements event-driven, chained HotStuff in Rust: replicas agree
on a tree of proposals, collect threshold signatures for them and commit the tail
of a three-chain. This directory models the replicas (pacemaker, state machine,
voter, storage), the view timer, and the MySQL backend with its recovery; it
checks them with TLC on small instances and proves the central facts with TLAPS
for every number of replicas, every assignment of leaders and every choice of
timeouts.

## 1. The system

| Part | Source | State | Operations | Module |
|---|---|---|---|---|
| Data | `hs-data`, `cryptokit` | none | hash, sign, combine, validate | `HotStuffData` |
| Elector | `pacemaker/src/elector.rs`, `utils.rs` | list of replicas | `get_leader` | `HotStuffData` (`LeaderOf`) |
| State machine | `hotstuff-rs/src/safety/machine.rs` | none of its own | `on_beat`, `on_recv_proposal`, `on_recv_vote`, `on_branch_sync`, `RecvNewViewMsg` | `Machine` |
| Voter | `hotstuff-rs/src/safety/voter.rs` | `voting_set` | `add_vote`, `combine_partial_sign` | `Machine` |
| Storage, in memory | `hss/src/lib.rs` | tree, leaf, `qc_high`, `vheight`, view, lock, commit | one method each | `Machine` (as the handlers use it), `Storage` |
| Flusher, tables | `hss/src/persistor.rs` | dirty queues, channel, tables | `async_flush`, `flush` | `Storage` |
| Recovery | `hss/src/recover.rs` | | `recover` | `Storage` |
| Pacemaker | `pacemaker/src/pacemaker.rs` | view, ready queue, NewView messages | event loop and handlers | `Pacemaker` |
| Branch synchronizer | `pacemaker.rs`, `machine.rs` | `pending_prop`, `sync_state` | request, response, loop | `Pacemaker` |
| Timer | `pacemaker/src/timer.rs` | tasks, stop signals, channel | start, stop, send | `Timer` |

How they interact: every replica has one event loop. At the top of a turn it
proposes if it holds NewView messages of more than `Threshold` replicas for its
view. It then waits for one event (a message, a timeout, the flush interval),
hands it to the state machine, and drains the queue of `Ready` values the state
machine returned, which sends messages and may move it to the next view. The
state machine and the pacemaker share one storage. Changes of the storage are
queued and sent at the flush interval to a task that writes them to MySQL. Timer
tasks report to the loop through a channel of size 1.

What is hard about it: votes, NewView messages and proposals that arrive in
another view than the one they were made in; NewView messages that arrive in two
batches around a proposal; synchronization, timeouts and proposals that change
the same two fields in any order; timer tasks that were told to stop and fire all
the same; a crash between a change in memory and the transaction that writes it;
a full channel. `PROJECT.json` lists these hazards at the lines where they bite.

## 2. Modules

* `HotStuffData`: proposals, certificates, signatures, leaders. A batch of
  transactions is fixed by the view it is proposed in, so a hash is modelled by the
  heights along the chain. A combined signature is the set of the hashes its parts
  sign; it validates for a node when it is the set of that node's hash.
* `Machine`: storage, voter and state machine as operators on one record, the
  state of a replica. A handler returns the next record and its `Ready` value.
* `Pacemaker`: all replicas and the network. One action per event and per `Ready`
  value. A replica in the middle of a turn finishes it before another moves
  (`Quiet`): the rest of a turn reads and writes only that replica's state and adds
  messages, so every other interleaving has the same effect as one of these. The
  loop of `on_branch_sync` is a step per proposal (`SyncNext`, `SyncEnd`).
* `Views`: what the pacemakers promise together (replicas only move up; the leader
  of a view, and nobody else, proposes in it, once, when a quorum is in it).
  `Pacemaker` instantiates it as `V`.
* `Timer`: one replica's timers, with the stop signals and the channel. In
  `Pacemaker` this is just `LocalTimeout`: the timer of the current view may fire at
  any time, and stale events do nothing, which is what `Timer` shows.
* `Storage`: the storage on its own with its backend. Each method is an action, and
  `Call` has the arguments: the proposals of the instance; certificates as messages
  carry them, as `on_recv_vote` labels them (current view, current leaf), and the
  leaf's own, which the pacemaker hands back; any stored node to lock or commit. A
  flush is taking the queues (`AsyncFlush`), the send (`Send`) and the transaction
  (`Flush`). A failed query ends the flusher task
  (it unwraps), a failed commit is not noticed, and a crash empties memory, after
  which `Recover` builds what `recover` builds, or panics where it unwraps.
* `MCPacemaker`, `MCFork`, `MCStorage`: instances for TLC.
* `MachineProofs`, `PacemakerProofs`, `ViewProofs`, `CertificateProofs`,
  `TimerProofs`: the proofs.

Definitions whose comment begins with "Mutant" are deliberately wrong variants of
the definition below them. `PROJECT.json` names, for every property, one that
breaks it.

Abstractions worth knowing:

* Messages are delivered at most once, in any order, or never. The proxy is not
  part of the repository; its README calls it reliable, and a message the adaptor
  does not take in time is dropped (`emit_peer_event`).
* The Timeout message is not in `Pacemaker`: its handler queues the certificate for
  the flusher and otherwise acts only on a quorum in `tc_map`, into which nothing is
  ever put. The certificate's way into the table is in `Storage`.
* `MaxView` bounds the views in which a replica proposes or times out; a vote
  counted late can take it a little further, to `LastView` at most.
* `TimerFires` names the timers that may fire, to keep long runs small. `MaxQueue`
  bounds the certificates queued between two flushes: `update_qc_high` can store the
  same leaf and certificate again and again when `qc_high` names a lower node.
* The keys of the tables are those of `create_tables` (`recover.rs:253`, `273`,
  `282`): `insert ignore` keeps the first row of a view, in `partial_tc` of a view and
  a replica.
* Replicas follow the code; crashes of replicas are modelled in `Storage`, where
  the effect of one on the tables is the question, not in `Pacemaker`.

## 3. Runs that pass

| Run | Instance | Shows | States |
|---|---|---|---|
| `two_replicas` | 2 replicas, 3 views, any timeouts | types; one proposal per view; NewView messages spent; only genuine proposals and votes; certificates backed by a quorum; a synchronization always has a proposal waiting for it; `Views` implemented | 108,460 |
| `commits` | 2 replicas, 6 views, timers of views 2 and 3 | locks rest on a certified two-chain, commits on a certified consecutive three-chain | 181,707 |
| `liveness` | 2 replicas, 6 views, one early timeout, fair | everybody commits | 131 |
| `timer` | 6 views, fair | the current view's timeout is not lost, none is ahead, stale ones do nothing, every view ends | 2,834 |
| `flush` | 2 proposals, 2 views, channel of 1, failing queries and commits, a crash | until a commit fails unnoticed, the tables have what the state row names and nothing is forgotten between queue and table; whatever fails, no written proposal is without the certificate row it is joined with, and written commits stay | 2,698,155 |
| `flush_faults` | 1 proposal, timeout certificates, the same faults, fair | what is stored gets written, unless one of the faults comes first | 137,847 |

Why the bounds suffice: three views are enough for a proposal, one built on it and
one that times out in between, with late votes of either; with two replicas a
quorum is both, so each message matters. That a quorum may leave replicas out is what
the theorems of section 5 are for, which hold for every number of replicas; the
schedule of `fork` has four. A three-chain needs proposals in four views and a
fifth to commit at the leader; six leave room for a gap. A channel of size 1 is
full as soon as one task waits, the case size 4 reaches later. Two proposals let one
transaction be lost and the next be written, and two views let a certificate be
formed in a later view than its proposal's. `flush` has no timeout certificates: once
one is written recovery panics, whatever else the tables hold (`timeouts_lost`). All
runs end at the view bound or when the calls are used up, so deadlock is not checked.

Leaders are in turn: for two replicas and for four, the FNV hash of the view modulo
the number of replicas is a fixed rotation.

Fairness. `Pacemaker!FairSpec`: some enabled step of a loop or a delivery is
eventually taken; the loops never stop, and `liveness` asks what happens when every
message arrives. No fairness is assumed of the view timers there. `Timer!FairSpec`:
delays end, a task that waits to send gets room, the loop takes events.
`Storage!FairSpec`: the flush interval keeps ticking, the send and the flusher go on.

## 4. Where the code and what is said of it differ

Each is a run TLC finds violated.

| Run | Said | Does |
|---|---|---|
| `fork` | `src/README.md:3`, `machine.rs:206`: an implementation of HotStuff | Four replicas, all following the code, two of which commit conflicting proposals: 1 on the branch 1-2-3-5 and 4 on the branch 4-8-9-11. A NewView message with an older certificate lowers the leaf and with it `vheight`, so that a replica signs 3 after 4. `MCFork` fixes the schedule; each step is a step of `Pacemaker`. |
| `qc_high_node` | `hss/src/lib.rs:447`: "qc_high.node == qc_node." | `on_recv_vote` names the leaf at that moment. |
| `written_lost` | `hss/src/lib.rs:125`: "It won't lose any proposal with a QuorumCertificate, once received." | The node that recovery puts in the place of a written proposal carries another certificate: its view is the proposal's own, and its node is the hash in the joined `qc` row, usually the proposal itself. That hash is also the key, so where proposals share a `justify_view` they get the same one and only one of them is left. |
| `commit_lost` | `hss/src/lib.rs:125`, as above | A failed commit is not noticed (`persistor.rs:264`) and nothing queues its proposals again on that account. The next transaction writes a state row that names one of them, and after a crash recovery unwraps the missing row and panics. |
| `timeouts_lost` | `hss/src/lib.rs:126`: nor "any QuorumCertificate and TimeCertificate" | Recovery parses the stored signature as a certificate and panics. |
| `flush_blocks` | `hss/tests/mod.rs:108` flushes a recovered storage | Nobody reads from the recovered storage's channel; with the code's channel of 4 the fifth flush waits for ever (the run uses a channel of 1; the test flushes once and does not notice). |

The same causes break more of what comments say, for which no run is kept: `vheight`
is not the "height of last voted proposal this replica has ever seen"
(`hss/src/lib.rs:44`), since `update_leaf` lowers it; the view of a certificate need
not be the height of its node (`qc.rs:16`), since `on_recv_vote` takes the storage's
view; the view of `qc_high` can fall (`hss/src/lib.rs:41`), since heights are
compared; `check_pending_prop` may synchronize for a proposal whose justify node is
stored (`pacemaker.rs:428`), since it compares a view with the height of the leaf;
and a proposal with a certificate is lost in a crash before the next flush.

What a failed commit does to the storage, in full: `StateRowResolves` and
`NothingForgotten` hold up to the first one and can fail after it, which is why both
say `~skipped`; `RowsJoin` and `CommitsStayWritten` hold throughout, since the rows
they relate are written in one transaction or in order. A failed query is harmless by
comparison: the flusher task dies, nothing is written any more, flushes go on
reporting success (`persistor.rs:46`), and the tables keep the last state written,
which recovery can read. `CommitsStayWritten` says nothing of the time after a recovery, when nothing is
written at all.

`CertificatesBacked` holds all the same: a wrongly labelled certificate still
carries the signature of one proposal that a quorum signed.

## 5. Proofs

The assumptions are `ReplicaAssumption` (finitely many replicas, at least one),
`MaxViewAssumption`, `LeaderAssumption` (each view has a leader) and
`TimerAssumption`. There is none on how leaders are chosen or which timers fire.

| Theorem | States | Rests on |
|---|---|---|
| `TypeCorrect` | `Spec => []TypeOK` | inductive by itself |
| `NewViewsAreSpent` | `Spec => []NewViewsSpent` | inductive with `TypeOK` |
| `OneProposal` | `Spec => []OneProposalPerView` | `NewViewsSpent` |
| `PacemakersImplementViews` | `Spec => V!Spec` | `TypeOK`, `NewViewsSpent` |
| `GenuineAlways` | `Spec => []Genuine` | `TypeOK` |
| `CertificatesAreBacked` | `Spec => []CertificatesBacked` | all of the above |
| `TimeoutNotLost`, `TimersBehind` | `CurrentViewTimed` and `NoTimerAhead` are invariants of `Timer` | inductive with its `TypeOK` |
| `StaleTimeoutsIgnored` | `TimeoutMovesByOne` | `NoTimerAhead` |

*Layout.* `MachineProofs` has the facts about the operators of `Machine`: what each
leaves alone, and that it keeps the type of the record. `PacemakerProofs` first
states the effect of the two steps that several actions share, `check_pending_prop`
and `process_local_timeout`, then of each action that uses them; later proofs use
these lemmas instead of the definitions.

*One proposal per view.* The property is not inductive: nothing in it says that the
leader cannot collect a second quorum. `NewViewsSpent` adds this. `Announcing(v)` is
the set of replicas that may still be counted in view `v`: they have not entered it,
their message is in flight, or it has been counted and not cleared. A proposal
clears more than `Threshold` of them, none comes back, because a replica enters a
view once and its message is delivered once, and the rest, fewer than `N -
Threshold`, are at most `Threshold`. So the guard of `Propose` is false for ever.

*Certificates.* A vote is stored under the height of its proposal, with its sender.
As there is one proposal per view and (by `Genuine`) the votes are those their
senders cast, the votes combined for a view are all for one proposal, and there are
more than `Threshold` of them. This uses everything before it.

Only model-checked: `LockedOnTwoChain`, `CommittedOnThreeChain`, `SyncHasPending`,
all of `Storage`, and the liveness properties, which the prover does not handle.

## 6. Not modelled

* The proxy (outside the repository) except as the network; the demo's HTTP server,
  configuration and key generation; logging and snapshots.
* `hs-prototype`, an earlier separate implementation.
* `on_view_change`, `NewLeader`, `NewTx`, `Voter::reset` and `Pacemaker::run`, which
  only tests use; `FlushTask::Sync`, which nothing makes.
* Combining timeout certificates (`compress_tc`): it never has anything to combine.
* The tables with configuration and keys, written once before anything else.

## 7. Plan

Done, in this order: `HotStuffData`, `Machine`, `Pacemaker` with `Views`, their
proofs, `Storage`, `Timer`, the runs of section 4.

Next:

1. `Elector`: the FNV hash of the view in 64-bit arithmetic, checked against the
   rotation used here, and how long a replica may go without leading.
2. A replica that restarts with what `Storage` recovers, composed with the others:
   which of `CertificatesBacked` and `OneProposalPerView` survive a restart.
3. `Voter`'s remark that there is no second voting set with a quorum for a view
   (`voter.rs:105`), for late votes and repeated ones.
4. Liveness with four replicas, and after a lost message, under the fairness of the
   timers.
5. `hs-prototype`'s state machine.
6. Proofs of `SyncHasPending`, `LockedOnTwoChain` and `CommittedOnThreeChain` (from
   `CertificatesBacked` and `Genuine`), and of the invariants of `Storage`.
