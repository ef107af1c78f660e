------------------------------- MODULE Storage ------------------------------
(***************************************************************************)
(* HotstuffStorage with its MySQL backend: the state in memory, the queues *)
(* of dirty data, the channel to the flusher task, the tables, and what    *)
(* recover makes of them after a crash.  Each method of the storage that   *)
(* changes state is an action, which a caller may take whenever the        *)
(* storage is not waiting inside async_flush; Call has the arguments.      *)
(*                                                                         *)
(* Left out: the configuration and key tables, which init writes before    *)
(* anything else and nothing changes; the transactions of a proposal;      *)
(* combined_tc_queue, which stays empty because nothing fills tc_map; and  *)
(* append_new_qc on its own, which on_recv_proposal calls only where       *)
(* verify_proposal has returned already.                                   *)
(***************************************************************************)
EXTENDS HotStuffData

CONSTANTS
  Proposal,    \* the proposals that callers may store
  TimedOut,    \* the replicas whose timeout certificates may arrive
  MaxQueue,    \* bound: certificates that a queue holds between two flushes
  Capacity,    \* size of the channel to the flusher
  Faults       \* what may happen: "crash" (once), "query" and "commit" errors

ASSUME StorageAssumption ==
  /\ Proposal \subseteq TreeNode
  /\ TimedOut \subseteq Replica
  /\ MaxQueue \in Nat
  /\ Capacity \in Nat \ {0}
  /\ Faults \subseteq {"crash", "query", "commit"}

VARIABLES
  in_mem_queue,   \* the proposal tree: node by hash
  state,          \* InMemoryState
  prop_queue, justify_queue, partial_tc_queue,   \* dirty data
  dirty,
  sending,        \* the flush task that async_flush is sending, if any
  channel,        \* flush tasks on their way to the flusher
  flusher,        \* the task that writes to the database
  proposal, qc, partial_tc, hotstuff_state,      \* the tables
  status,         \* of the process
  skipped,        \* history: a transaction was not committed
  certified       \* history: stored proposals for which a certificate was stored

memory == <<in_mem_queue, state, prop_queue, justify_queue, partial_tc_queue, dirty>>
tables == <<proposal, qc, partial_tc, hotstuff_state>>
vars == <<memory, sending, channel, flusher, tables, status, skipped, certified>>

InMemoryState ==
  [leaf : TreeNode, qc_high : QC, vheight : Nat, current_view : Nat,
   committed_height : Nat, last_commit : TreeNode, b_locked : TreeNode]

TimeoutCertificate == [view : Nat, from : Replica]

\* The row of hotstuff_state for a state.
StateRow(s) ==
  [current_view |-> s.current_view, last_voted_view |-> s.vheight,
   locked_view |-> s.b_locked.height, committed_view |-> s.committed_height,
   executed_view |-> s.last_commit.height, leaf_view |-> s.leaf.height]

InitQueue == [h \in {HashOf(INIT_NODE)} |-> INIT_NODE]

InitState ==
  [leaf |-> INIT_NODE, qc_high |-> INIT_QC, vheight |-> 0, current_view |-> 0,
   committed_height |-> 0, last_commit |-> INIT_NODE, b_locked |-> INIT_NODE]

Init ==
  /\ in_mem_queue = InitQueue
  /\ state = InitState
  /\ prop_queue = << >> /\ justify_queue = << >> /\ partial_tc_queue = << >>
  /\ dirty = FALSE
  /\ sending = << >>
  /\ channel = << >>
  /\ flusher = "running"
  /\ proposal = {} /\ qc = {} /\ partial_tc = {} /\ hotstuff_state = {}
  /\ status = "up"
  /\ skipped = FALSE
  /\ certified = {}

-----------------------------------------------------------------------------
(***************************************************************************)
(* The methods of the storage                                              *)
(***************************************************************************)
Stored == {in_mem_queue[h] : h \in DOMAIN in_mem_queue}

Called == status = "up" /\ sending = << >>

Insert(n) ==
  /\ in_mem_queue' = [h \in DOMAIN in_mem_queue \cup {HashOf(n)} |->
                        IF h = HashOf(n) THEN n ELSE in_mem_queue[h]]
  /\ prop_queue' = Append(prop_queue, n)

\* A method that changes memory only, and sets the dirty flag.
Dirties ==
  /\ dirty' = TRUE
  /\ UNCHANGED <<sending, channel, flusher, tables, status, skipped>>

\* The proposal whose signatures a certificate combines.
Certify(cert) ==
  certified' = certified \cup {n \in Stored \ {INIT_NODE} : ValidateQC(n, cert.sign)}

\* append_new_node and the update_vheight that follows it: a proposal above the
\* last vote whose justify node is stored.  (That no proposal is stored twice is
\* a bound on the queue.)
AppendNewNode(n) ==
  /\ Called
  /\ n.height > state.vheight /\ n \notin Stored
  /\ n.justify.node \in DOMAIN in_mem_queue
  /\ Insert(n)
  /\ state' = [state EXCEPT !.vheight = n.height]
  /\ Certify(n.justify)
  /\ Dirties
  /\ UNCHANGED <<justify_queue, partial_tc_queue>>

\* The new leaf of on_beat.
UpdateLeaf(n) ==
  /\ Called
  /\ n \notin Stored /\ n.height = state.current_view
  /\ n.justify = state.qc_high /\ n.parent = HashOf(state.leaf)
  /\ Insert(n)
  /\ state' = [state EXCEPT !.vheight = n.height, !.leaf = n]
  /\ Certify(n.justify)
  /\ Dirties
  /\ UNCHANGED <<justify_queue, partial_tc_queue>>

HigherThanQCHigh(n) ==
  /\ state.qc_high.node \in DOMAIN in_mem_queue
  /\ n.height > in_mem_queue[state.qc_high.node].height

\* A certificate that is not higher changes nothing.
UpdateQCHigh(n, cert) ==
  /\ Called
  /\ HigherThanQCHigh(n)
  /\ Insert(n)
  /\ state' = [state EXCEPT !.qc_high = cert, !.vheight = n.height, !.leaf = n]
  /\ justify_queue' = Append(justify_queue, cert)
  /\ Certify(cert)
  /\ Dirties
  /\ UNCHANGED partial_tc_queue

\* The pacemaker's update_qc_high, which sets the flag in any case.
LivenessUpdateQCHigh(n, cert) ==
  \/ UpdateQCHigh(n, cert)
  \/ /\ Called
     /\ ~HigherThanQCHigh(n)
     /\ Dirties
     /\ UNCHANGED <<in_mem_queue, state, prop_queue, justify_queue, partial_tc_queue,
                    certified>>

\* Mutant: the flag is not set.
UpdateLockedNodeClean(n) ==
  /\ Called
  /\ n.height > state.b_locked.height
  /\ state' = [state EXCEPT !.b_locked = n]
  /\ UNCHANGED <<dirty, sending, channel, flusher, tables, status, skipped, certified,
                 in_mem_queue, prop_queue, justify_queue, partial_tc_queue>>

\* update_nodes only locks a higher node.
UpdateLockedNode(n) ==
  /\ Called
  /\ n.height > state.b_locked.height
  /\ state' = [state EXCEPT !.b_locked = n]
  /\ Dirties
  /\ UNCHANGED <<in_mem_queue, prop_queue, justify_queue, partial_tc_queue, certified>>

IncreaseView(v) ==
  /\ Called
  /\ state' = [state EXCEPT !.current_view = IF v > @ THEN v ELSE @]
  /\ Dirties
  /\ UNCHANGED <<in_mem_queue, prop_queue, justify_queue, partial_tc_queue, certified>>

\* Mutant: a lower node is not refused.
CommitAny(n) ==
  /\ Called
  /\ state' = [state EXCEPT !.committed_height = n.height, !.last_commit = n]
  /\ Dirties
  /\ UNCHANGED <<in_mem_queue, prop_queue, justify_queue, partial_tc_queue, certified>>

Commit(n) ==
  /\ Called
  /\ state.committed_height < n.height
  /\ state' = [state EXCEPT !.committed_height = n.height, !.last_commit = n]
  /\ Dirties
  /\ UNCHANGED <<in_mem_queue, prop_queue, justify_queue, partial_tc_queue, certified>>

AppendTC(tc) ==
  /\ Called
  /\ partial_tc_queue' = Append(partial_tc_queue, tc)
  /\ Dirties
  /\ UNCHANGED <<in_mem_queue, state, prop_queue, justify_queue, certified>>

-----------------------------------------------------------------------------
(***************************************************************************)
(* Flushing                                                                *)
(***************************************************************************)

\* Mutant: the queue of proposals is left behind.
FlushTaskWithoutProps ==
  [prop |-> << >>, justify |-> justify_queue, tc |-> partial_tc_queue,
   state |-> StateRow(state)]

\* What async_flush takes out of the queues, with a copy of the state.
FlushTask ==
  [prop |-> prop_queue, justify |-> justify_queue, tc |-> partial_tc_queue,
   state |-> StateRow(state)]

\* async_flush, up to the send.
AsyncFlush ==
  /\ Called
  /\ dirty
  /\ sending' = <<FlushTask>>
  /\ prop_queue' = << >> /\ justify_queue' = << >> /\ partial_tc_queue' = << >>
  /\ UNCHANGED <<in_mem_queue, state, dirty, channel, flusher, tables, status, skipped, certified>>

\* The send: waits for room, and drops the task if the flusher is gone.
Send ==
  /\ status = "up" /\ sending # << >>
  /\ \/ flusher = "dead" /\ UNCHANGED channel
     \/ /\ flusher # "dead" /\ Len(channel) < Capacity
        /\ channel' = channel \o sending
  /\ sending' = << >>
  /\ dirty' = FALSE
  /\ UNCHANGED <<in_mem_queue, state, prop_queue, justify_queue, partial_tc_queue,
                 flusher, tables, status, skipped, certified>>

\* Mutant: plain insert, without a key.
InsertAll(table, rows) == table \cup {rows[i] : i \in DOMAIN rows}

\* "insert ignore": of the rows with one view, the primary key of proposal and of
\* qc, the first stays.
InsertIgnore(table, rows) ==
  table \cup {rows[i] : i \in {i \in DOMAIN rows :
                /\ \A o \in table : o.view # rows[i].view
                /\ \A j \in 1 .. i - 1 : rows[j].view # rows[i].view}}

ProposalRow(n) ==
  [view |-> n.height, parent_hash |-> n.parent, justify_view |-> n.justify.view,
   prop_hash |-> HashOf(n)]

\* Mutant: filed under the view of the proposal.
JustifyRowAtHeight(n) ==
  [view |-> n.height, node_hash |-> HashOf(n), combined_sign |-> n.justify.sign]

\* The certificate of a proposal is written with the hash of that proposal.
JustifyRow(n) ==
  [view |-> n.justify.view, node_hash |-> HashOf(n), combined_sign |-> n.justify.sign]

QCRow(cert) ==
  [view |-> cert.view, node_hash |-> cert.node, combined_sign |-> cert.sign]

\* One transaction of the flusher.
Flush ==
  LET task == Head(channel)
      Each(Row(_), s) == [i \in 1 .. Len(s) |-> Row(s[i])]
  IN  /\ flusher = "running" /\ status = "up"
      /\ channel # << >>
      /\ proposal' = InsertIgnore(proposal, Each(ProposalRow, task.prop))
      /\ qc' = InsertIgnore(qc, Each(JustifyRow, task.prop) \o Each(QCRow, task.justify))
      /\ partial_tc' = partial_tc \cup {task.tc[i] : i \in 1 .. Len(task.tc)}
      /\ hotstuff_state' = {task.state}
      /\ channel' = Tail(channel)
      /\ UNCHANGED <<memory, sending, flusher, status, skipped, certified>>

\* A query fails: the unwrap ends the flusher task, and with it the channel.
QueryFails ==
  /\ "query" \in Faults
  /\ flusher = "running" /\ status = "up" /\ channel # << >>
  /\ flusher' = "dead"
  /\ channel' = << >>
  /\ UNCHANGED <<memory, sending, tables, status, skipped, certified>>

\* The commit of the transaction fails, and its result is not looked at.
CommitFails ==
  /\ "commit" \in Faults
  /\ flusher = "running" /\ status = "up" /\ channel # << >>
  /\ channel' = Tail(channel)
  /\ skipped' = TRUE
  /\ UNCHANGED <<memory, sending, flusher, tables, status, certified>>

-----------------------------------------------------------------------------
(***************************************************************************)
(* Crash and recovery                                                      *)
(***************************************************************************)
\* Memory is gone, and reset here.
Crash ==
  /\ "crash" \in Faults
  /\ status = "up" /\ flusher # "absent"
  /\ status' = "down"
  /\ flusher' = "absent"
  /\ sending' = << >> /\ channel' = << >>
  /\ in_mem_queue' = InitQueue /\ state' = InitState
  /\ prop_queue' = << >> /\ justify_queue' = << >> /\ partial_tc_queue' = << >>
  /\ dirty' = FALSE
  /\ UNCHANGED <<tables, skipped, certified>>

Joined == {pq \in proposal \X qc : pq[1].justify_view = pq[2].view}

\* map_row_to_proposal: the certificate gets the view of the proposal.
MapRow(pq) ==
  [height  |-> pq[1].view,
   parent  |-> pq[1].parent_hash,
   justify |-> [view |-> pq[1].view, node |-> pq[2].node_hash,
                sign |-> pq[2].combined_sign]]

HasView(v) == v = 0 \/ \E pq \in Joined : pq[1].view = v

GetOneNodeByView(v) ==
  IF v = 0 THEN INIT_NODE ELSE MapRow(CHOOSE pq \in Joined : pq[1].view = v)

\* The rows are ordered by justify_view, and a later row replaces an earlier one
\* with the same key, the hash of the row of qc.
Recovered(key) ==
  LET rows == {pq \in Joined : pq[2].node_hash = key}
  IN  {MapRow(pq) : pq \in {pq \in rows : \A o \in rows :
                                            o[1].justify_view <= pq[1].justify_view}}

RecoverHotstuffState(row) ==
  LET leaf == GetOneNodeByView(row.leaf_view)
  IN  [leaf |-> leaf, qc_high |-> leaf.justify, vheight |-> row.last_voted_view,
       current_view |-> row.current_view, committed_height |-> row.committed_view,
       last_commit |-> GetOneNodeByView(row.executed_view),
       b_locked |-> GetOneNodeByView(row.locked_view)]

\* What recover reads without which it panics: a state, its three proposals, and
\* no partial_tc row, since the rows hold a signature where it expects a
\* certificate.
Recoverable ==
  /\ \E row \in hotstuff_state :
       \A v \in {row.leaf_view, row.locked_view, row.executed_view} : HasView(v)
  /\ partial_tc = {}

\* The recovered storage has a new channel, but no task that reads from it.
Recover ==
  /\ status = "down" /\ Recoverable
  /\ LET keys == {pq[2].node_hash : pq \in Joined}
     IN  /\ in_mem_queue' \in [keys -> UNION {Recovered(k) : k \in keys}]
         /\ \A k \in keys : in_mem_queue'[k] \in Recovered(k)
  /\ \E row \in hotstuff_state : state' = RecoverHotstuffState(row)
  /\ prop_queue' = << >> /\ justify_queue' = << >> /\ partial_tc_queue' = << >>
  /\ dirty' = FALSE
  /\ status' = "up"
  /\ UNCHANGED <<sending, channel, flusher, tables, skipped, certified>>

RecoverPanics ==
  /\ status = "down" /\ ~Recoverable
  /\ status' = "panicked"
  /\ UNCHANGED <<memory, sending, channel, flusher, tables, skipped, certified>>

-----------------------------------------------------------------------------
\* The certificate of a node, labelled with that node and its view.
CertificateOf(n) == [view |-> n.height, node |-> HashOf(n), sign |-> {HashOf(n)}]

\* The certificate on_recv_vote makes of the votes for a node: it has the view
\* and the leaf of that moment.
VotedCertificate(n) ==
  [view |-> state.current_view, node |-> HashOf(state.leaf), sign |-> {HashOf(n)}]

\* The calls of the machine and the pacemaker.  A node gets the certificate of a
\* proposal or a NewView message, or (as a proposal of this view or an earlier
\* one) that of its votes; the Ready value UpdateQCHigh gives the leaf and the
\* certificate it carries.  Any stored node may be locked or committed, whatever
\* the chain it is on.
Call ==
  \/ \E n \in Proposal : AppendNewNode(n) \/ UpdateLeaf(n)
  \/ /\ Len(justify_queue) < MaxQueue
     /\ \/ \E n \in Stored : UpdateQCHigh(n, CertificateOf(n))
        \/ \E n \in Stored : /\ n.height <= state.current_view
                             /\ UpdateQCHigh(n, VotedCertificate(n))
        \/ LivenessUpdateQCHigh(state.leaf, state.leaf.justify)
  \/ \E n \in Stored : UpdateLockedNode(n) \/ Commit(n)
  \/ state.current_view < MaxView /\ IncreaseView(state.current_view + 1)
  \/ /\ Len(partial_tc_queue) < MaxQueue
     /\ \E r \in TimedOut : AppendTC([view |-> state.current_view, from |-> r])

Next ==
  \/ Call
  \/ AsyncFlush
  \/ Send
  \/ Flush
  \/ QueryFails
  \/ CommitFails
  \/ Crash
  \/ Recover
  \/ RecoverPanics

Spec == Init /\ [][Next]_vars

\* The flush interval keeps ticking and the flusher keeps running.
FairSpec == Spec /\ WF_vars(AsyncFlush) /\ WF_vars(Send) /\ WF_vars(Flush)

-----------------------------------------------------------------------------
(***************************************************************************)
(* Properties                                                              *)
(***************************************************************************)

Task ==
  [prop : Seq(TreeNode), justify : Seq(QC), tc : Seq(TimeoutCertificate),
   state : [{"current_view", "last_voted_view", "locked_view", "committed_view",
             "executed_view", "leaf_view"} -> Nat]]

\* The fields of HotstuffStorage, the channel and the tables hold what their
\* types and keys allow: a table has one row for a view.
TypeOK ==
  /\ DOMAIN in_mem_queue \subseteq Hash /\ Stored \subseteq TreeNode
  /\ state \in InMemoryState
  /\ prop_queue \in Seq(TreeNode) /\ justify_queue \in Seq(QC)
  /\ partial_tc_queue \in Seq(TimeoutCertificate)
  /\ dirty \in BOOLEAN
  /\ sending \in Seq(Task) /\ Len(sending) <= 1
  /\ channel \in Seq(Task) /\ Len(channel) <= Capacity
  /\ flusher \in {"running", "dead", "absent"}
  /\ \A a, b \in proposal : a.view = b.view => a = b
  /\ \A a, b \in qc : a.view = b.view => a = b
  /\ partial_tc \subseteq TimeoutCertificate
  /\ Cardinality(hotstuff_state) <= 1
  /\ status \in {"up", "down", "panicked"}
  /\ skipped \in BOOLEAN
  /\ certified \subseteq TreeNode

\* The tasks that have been taken and not written yet, in order.
OnTheirWay == channel \o sending

\* As long as no commit has failed unnoticed, every crash finds tables that fit
\* together, also one after the flusher has died on a failed query: the leaf, the
\* locked and the executed proposal that hotstuff_state names are there, with a
\* certificate, so that the unwraps of get_one_node_by_view in
\* recover_hotstuff_state hold.
StateRowResolves ==
  ~skipped =>
    \A row \in hotstuff_state :
      \A v \in {row.leaf_view, row.locked_view, row.executed_view} : HasView(v)

\* Whatever fails, recover's inner join drops no proposal: the certificate that
\* a row of proposal refers to is in the table qc.
RowsJoin == \A p \in proposal : \E pq \in Joined : pq[1] = p

\* Until a failed query ends the flusher or a failed commit goes unnoticed,
\* nothing in memory is forgotten: a proposal of the tree is in the queue, in a
\* task or in its table; and if nothing is dirty, the last state taken by
\* async_flush (or read by recover) is the state in memory.
NothingForgotten ==
  LET InTask(n) == \E i \in 1 .. Len(OnTheirWay) :
                     \E j \in 1 .. Len(OnTheirWay[i].prop) : OnTheirWay[i].prop[j] = n
      InQueue(n) == \E i \in 1 .. Len(prop_queue) : prop_queue[i] = n
      InTable(n) == \E row \in proposal : row.view = n.height
  IN  status = "up" /\ flusher # "dead" /\ ~skipped =>
        /\ \A n \in Stored \ {INIT_NODE} : InQueue(n) \/ InTask(n) \/ InTable(n)
        /\ ~dirty /\ hotstuff_state # {} /\ OnTheirWay = << >> =>
             hotstuff_state = {StateRow(state)}
        /\ ~dirty /\ OnTheirWay # << >> =>
             OnTheirWay[Len(OnTheirWay)].state = StateRow(state)

\* Flushes are written in the order they were taken, whichever of them are lost:
\* no write takes back a commit that the table has.  (Nothing is written after a
\* recovery, since the recovered storage has no flusher.)
CommitsStayWritten ==
  [][\A old \in hotstuff_state, new \in hotstuff_state' :
       new.committed_view >= old.committed_view]_tables

\* Liveness of async_flush, send and the flusher: what is put in the tree gets
\* into the table, unless the process or the flusher task ends before, or the
\* database does not commit a transaction.
EventuallyWritten ==
  \A n \in Proposal :
    n \in Stored ~> \/ \E row \in proposal : row.prop_hash = HashOf(n)
                    \/ flusher # "running"
                    \/ skipped

\* "It won't lose any proposal with a QuorumCertificate, once received": if the
\* table has the row of such a proposal, the tree has the proposal, as it was
\* received, also after a crash and the recovery.
WrittenNotLost ==
  status = "up" =>
    \A n \in certified : ProposalRow(n) \in proposal => n \in Stored

\* "It won't lose any QuorumCertificate and TimeCertificate, once received":
\* recovery reads the timeout certificates that were written.
TimeoutCertificatesReadBack == partial_tc # {} => status # "panicked"

\* "It won't lose any proposal with a QuorumCertificate, once received": a state
\* that was written can be recovered with the proposals it names, also when the
\* commit of another transaction failed.
CertifiedReadBack ==
  certified # {} /\ hotstuff_state # {} /\ partial_tc = {} => status # "panicked"

\* A flush ends: async_flush does not wait for ever for room in the channel.
FlushEnds == sending # << >> ~> (sending = << >> \/ status # "up")
=============================================================================
