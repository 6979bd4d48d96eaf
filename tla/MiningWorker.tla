---------------------------- MODULE MiningWorker ----------------------------
(***************************************************************************)
(* The mining worker of the node: the task queue behind MiningHandle       *)
(* (consensus/sc-consensus-pow/src/worker.rs), the proposal loop that      *)
(* fills it (start_mining_worker), the in-process miner threads            *)
(* (node/src/service.rs) and the external mining RPC                       *)
(* (node/src/mining_rpc.rs).                                               *)
(*                                                                         *)
(* A task stands for a MiningBuild and for its pre_hash, which determines  *)
(* the head it builds on.  Every access to the queue is one critical       *)
(* section of its mutex, and everything between two of them interleaves:   *)
(* the queue changes first and the version, with the watch channel, later. *)
(* The best block is a height: an own block on it, or a block from the     *)
(* network, makes a new best; an own block on an older head is a fork.     *)
(***************************************************************************)
EXTENDS Naturals, Sequences, SequencesExt

CONSTANTS
  Miners,         \* threads of spawn_internal_miner
  Clients,        \* callers of mining_getTask and mining_submitSeal
  Watchers,       \* mining_subscribeTask subscriptions
  MaxLiveTasks,   \* MAX_LIVE_TASKS
  MaxTasks,       \* bound on the tasks built
  MaxNetwork,     \* bound on the height the network reaches
  None

Threads == Miners \cup Clients

ASSUME MiningAssumption ==
  /\ Miners \cap Clients = {}
  /\ MaxLiveTasks \in Nat \ {0}
  /\ MaxTasks \in Nat
  /\ MaxNetwork \in Nat

VARIABLES
  head,      \* the client's best block
  builds,    \* MiningHandle::build
  version,   \* MiningHandle::version, its parity: only whether it changed matters
  importer,  \* holder of MiningHandle::block_import
  loop,      \* start_mining_worker's future: where it is, the head it read
  built,     \* tasks built so far
  thread,    \* each submitter: where it is, and its task
  claimed,   \* spawn_internal_miner's shared claim
  watcher,   \* each subscription: where it is, whether its
             \* watch::Receiver holds an unseen change, the last task sent
  attempts   \* history: the tasks handed to block import, in order

vars == <<head, builds, version, importer, loop, built, thread, claimed, watcher, attempts>>

Init ==
  /\ head = 0
  /\ builds = <<>>
  /\ version = 0
  /\ importer = None
  /\ loop = [pc |-> "wait", head |-> 0]
  /\ built = 0
  /\ thread = [t \in Threads |-> [pc |-> "idle", task |-> None]]
  /\ claimed = None
  /\ watcher = [w \in Watchers |-> [pc |-> "subscribe", changed |-> FALSE, sent |-> None]]
  /\ attempts = <<>>

\* MiningHandle::metadata, and current_task of the RPC.
Metadata == IF builds = <<>> THEN None ELSE Last(builds)

\* increment_version: the counter, and a change for every receiver.
IncrementVersion ==
  /\ version' = 1 - version
  /\ watcher' = [w \in Watchers |-> [watcher[w] EXCEPT !.changed = TRUE]]

IsStored(task) == \E i \in DOMAIN builds : builds[i] = task
-----------------------------------------------------------------------------
(***************************************************************************)
(* The proposal loop.  UntilImportedOrTimeout fires on an import or after  *)
(* the timeout, so a tick can come at any time.  Every failing await ends  *)
(* the tick with `continue`.                                               *)
(***************************************************************************)
OnMajorSyncing ==
  /\ loop.pc = "wait"
  /\ builds' = <<>>
  /\ loop' = [loop EXCEPT !.pc = "bump"]
  /\ UNCHANGED <<head, version, importer, built, thread, claimed, watcher, attempts>>

ReadBest ==
  /\ loop.pc = "wait"
  /\ loop' = [pc |-> "propose", head |-> head]
  /\ UNCHANGED <<head, builds, version, importer, built, thread, claimed, watcher, attempts>>

ProposalFails ==
  /\ loop.pc = "propose"
  /\ loop' = [loop EXCEPT !.pc = "wait"]
  /\ UNCHANGED <<head, builds, version, importer, built, thread, claimed, watcher, attempts>>

\* The queue of one head: another head's builds go, the oldest past the cap goes.
Queued(task) ==
  IF builds = <<>> \/ Last(builds).head # task.head THEN <<task>>
  ELSE IF Len(builds) < MaxLiveTasks THEN Append(builds, task)
  ELSE Append(Tail(builds), task)

OnBuild ==
  /\ loop.pc = "propose"
  /\ built < MaxTasks
  /\ built' = built + 1
  /\ builds' = Queued([head |-> loop.head, id |-> built'])
  /\ loop' = [loop EXCEPT !.pc = "bump"]
  /\ UNCHANGED <<head, version, importer, thread, claimed, watcher, attempts>>

LoopBump ==
  /\ loop.pc = "bump"
  /\ IncrementVersion
  /\ loop' = [loop EXCEPT !.pc = "wait"]
  /\ UNCHANGED <<head, builds, importer, built, thread, claimed, attempts>>

NetworkBlock ==
  /\ head < MaxNetwork
  /\ head' = head + 1
  /\ UNCHANGED <<builds, version, importer, loop, built, thread, claimed, watcher, attempts>>
-----------------------------------------------------------------------------
(***************************************************************************)
(* Who submits: a miner thread scans the latest task and submits what it   *)
(* finds if it gets the claim; an RPC client submits any task it was ever  *)
(* given.                                                                  *)
(***************************************************************************)
Goto(t, pc) == thread' = [thread EXCEPT ![t].pc = pc]

\* Leaves submit; a client remembers its task and may submit it again.
Return(t) ==
  thread' = [thread EXCEPT ![t] = [pc |-> "idle",
                                   task |-> IF t \in Clients THEN thread[t].task ELSE None]]

\* Enters submit.
Calls(t, task) == thread' = [thread EXCEPT ![t] = [pc |-> "lookup", task |-> task]]

MinerReads(t) ==
  /\ thread[t].pc \in {"idle", "scan"}
  /\ Metadata # None
  /\ thread' = [thread EXCEPT ![t].pc = "scan", ![t].task = Metadata]
  /\ UNCHANGED <<head, builds, version, importer, loop, built, claimed, watcher, attempts>>

\* The strongest work held for the task reaches its difficulty.
MinerFinds(t) ==
  /\ thread[t].pc = "scan"
  /\ Goto(t, "claim")
  /\ UNCHANGED <<head, builds, version, importer, loop, built, claimed, watcher, attempts>>

MinerClaims(t) ==
  /\ thread[t].pc = "claim"
  /\ IF claimed # thread[t].task
     THEN claimed' = thread[t].task /\ Calls(t, thread[t].task)
     ELSE Return(t) /\ UNCHANGED claimed
  /\ UNCHANGED <<head, builds, version, importer, loop, built, watcher, attempts>>

\* getTask or a subscription gives a client the latest task, which it submits
\* at some later time, maybe more than once.
ClientReads(t) ==
  /\ thread[t].pc = "idle"
  /\ Metadata # None
  /\ thread' = [thread EXCEPT ![t].task = Metadata]
  /\ UNCHANGED <<head, builds, version, importer, loop, built, claimed, watcher, attempts>>

ClientSubmits(t) ==
  /\ thread[t].pc = "idle"
  /\ thread[t].task # None
  /\ Calls(t, thread[t].task)
  /\ UNCHANGED <<head, builds, version, importer, loop, built, claimed, watcher, attempts>>
-----------------------------------------------------------------------------
(***************************************************************************)
(* MiningHandle::submit.                                                   *)
(***************************************************************************)
Lookup(t) ==
  /\ thread[t].pc = "lookup"
  /\ IF IsStored(thread[t].task) THEN Goto(t, "verify") ELSE Return(t)
  /\ UNCHANGED <<head, builds, version, importer, loop, built, claimed, watcher, attempts>>

\* The seal is valid, or it is not, or the runtime call fails.
Verify(t) ==
  /\ thread[t].pc = "verify"
  /\ Goto(t, "take") \/ Return(t)
  /\ UNCHANGED <<head, builds, version, importer, loop, built, claimed, watcher, attempts>>

TakeUnchecked(t) ==
  /\ thread[t].pc = "take"
  /\ builds' = SelectSeq(builds, LAMBDA b : b # thread[t].task)
  /\ Goto(t, "taken")
  /\ UNCHANGED <<head, version, importer, loop, built, claimed, watcher, attempts>>

Take(t) ==
  /\ thread[t].pc = "take"
  /\ IF IsStored(thread[t].task)
     THEN builds' = SelectSeq(builds, LAMBDA b : b # thread[t].task) /\ Goto(t, "taken")
     ELSE Return(t) /\ UNCHANGED builds
  /\ UNCHANGED <<head, version, importer, loop, built, claimed, watcher, attempts>>

TakenBump(t) ==
  /\ thread[t].pc = "taken"
  /\ IncrementVersion
  /\ Goto(t, "import")
  /\ UNCHANGED <<head, builds, importer, loop, built, claimed, attempts>>

\* block_import is locked from here to the end of submit.
ImportStart(t) ==
  /\ thread[t].pc = "import"
  /\ importer = None
  /\ importer' = t
  /\ attempts' = Append(attempts, thread[t].task)
  /\ UNCHANGED <<head, builds, version, loop, built, thread, claimed, watcher>>

ImportFailsHeld(t) ==
  /\ thread[t].pc = "import" /\ importer = t
  /\ Return(t)
  /\ UNCHANGED <<head, builds, version, importer, loop, built, claimed, watcher, attempts>>

ImportFails(t) ==
  /\ thread[t].pc = "import" /\ importer = t
  /\ Return(t)
  /\ importer' = None
  /\ UNCHANGED <<head, builds, version, loop, built, claimed, watcher, attempts>>

ImportLands(t) ==
  /\ thread[t].pc = "import" /\ importer = t
  /\ head' = IF thread[t].task.head = head THEN head + 1 ELSE head
  /\ Goto(t, "landed")
  /\ UNCHANGED <<builds, version, importer, loop, built, claimed, watcher, attempts>>

ClearAfterImport(t) ==
  /\ thread[t].pc = "landed"
  /\ builds' = <<>>
  /\ Goto(t, "cleared")
  /\ UNCHANGED <<head, version, importer, loop, built, claimed, watcher, attempts>>

\* Returns true.
ClearedBump(t) ==
  /\ thread[t].pc = "cleared"
  /\ IncrementVersion
  /\ Return(t)
  /\ importer' = None
  /\ UNCHANGED <<head, builds, loop, built, claimed, attempts>>

Submit(t) ==
  \/ Lookup(t) \/ Verify(t) \/ Take(t) \/ TakenBump(t) \/ ImportStart(t)
  \/ ImportFails(t) \/ ImportLands(t) \/ ClearAfterImport(t) \/ ClearedBump(t)
-----------------------------------------------------------------------------
(***************************************************************************)
(* A task subscription: read and send the latest task, then await a change *)
(* of the watch channel.                                                   *)
(***************************************************************************)
Subscribe(w) ==
  /\ watcher[w].pc = "subscribe"
  /\ watcher' = [watcher EXCEPT ![w].pc = "read", ![w].changed = FALSE]
  /\ UNCHANGED <<head, builds, version, importer, loop, built, thread, claimed, attempts>>

SendTask(w) ==
  /\ watcher[w].pc = "read"
  /\ watcher' = [watcher EXCEPT ![w].pc = "await",
                                ![w].sent = IF Metadata = None THEN watcher[w].sent ELSE Metadata]
  /\ UNCHANGED <<head, builds, version, importer, loop, built, thread, claimed, attempts>>

ChangedForgotten(w) ==
  /\ watcher[w].pc = "await"
  /\ watcher[w].changed
  /\ watcher' = [watcher EXCEPT ![w].changed = FALSE]
  /\ UNCHANGED <<head, builds, version, importer, loop, built, thread, claimed, attempts>>

Changed(w) ==
  /\ watcher[w].pc = "await"
  /\ watcher[w].changed
  /\ watcher' = [watcher EXCEPT ![w].pc = "read", ![w].changed = FALSE]
  /\ UNCHANGED <<head, builds, version, importer, loop, built, thread, claimed, attempts>>

Loop == OnMajorSyncing \/ ReadBest \/ ProposalFails \/ OnBuild \/ LoopBump

Watch(w) == Subscribe(w) \/ SendTask(w) \/ Changed(w)

Next ==
  \/ Loop
  \/ NetworkBlock
  \/ \E t \in Miners : MinerReads(t) \/ MinerFinds(t) \/ MinerClaims(t)
  \/ \E t \in Clients : ClientReads(t) \/ ClientSubmits(t)
  \/ \E t \in Threads : Submit(t)
  \/ \E w \in Watchers : Watch(w)

Spec == Init /\ [][Next]_vars

\* Threads and tasks run; parking_lot hands block_import to every waiter in time.
Fairness ==
  /\ WF_vars(Loop)
  /\ \A w \in Watchers : WF_vars(Watch(w))
  /\ \A t \in Threads : WF_vars(Submit(t)) /\ SF_vars(ImportStart(t))

FairSpec == Spec /\ Fairness
-----------------------------------------------------------------------------
(***************************************************************************)
(* Safety.                                                                 *)
(***************************************************************************)

\* However submissions race (two miners, a client's retry), a built block
\* reaches block import at most once: submit takes the build out of the queue
\* under the lock after verifying.
ImportedAtMostOnce == \A i, j \in DOMAIN attempts : attempts[i] = attempts[j] => i = j

(***************************************************************************)
(* Liveness.                                                               *)
(***************************************************************************)

\* Every submission is answered: no order of lookups, imports and failed
\* imports leaves a caller of mining_submitSeal waiting.
SubmitAnswered ==
  \A t \in Threads : thread[t].pc = "lookup" ~> thread[t].pc = "idle"

\* Once the queue stops changing, the subscriber has sent its latest task.
SubscriberCatchesUp ==
  \A w \in Watchers, n \in 1..MaxTasks :
    <>[](Metadata # None /\ Metadata.id = n) =>
      <>[](watcher[w].sent # None /\ watcher[w].sent.id = n)
=============================================================================
