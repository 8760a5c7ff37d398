------------------------------- MODULE NVMLog -------------------------------
(***************************************************************************)
(* The operation log of one hot node (class NVMLogFile): a ring of slots   *)
(* in persistent memory, filled by the threads that call Write, Delete and *)
(* Split, drained by the detached worker thread into the node's B+tree.    *)
(* Every shared access of the code is a step of its own.  Entries are      *)
(* opaque; only a Split entry is told from the others, because its caller  *)
(* waits for the worker.  Slot indices stand for addresses, and            *)
(* memory_used counts slots instead of bits.                               *)
(***************************************************************************)
EXTENDS Naturals, Sequences

CONSTANTS Slots,      \* capacity_ / LOGNODEBITS
          Producers,  \* the threads that may call Write, Delete or Split
          Plain,      \* entries of type logWriteType and logDeleteType
          Splits,     \* entries whose type is the address of a new inner node
          MaxOps,     \* bound: operations accepted by the log over its life
          Blank,      \* what a slot holds when it holds no entry
          Worker,     \* the worker thread, as the holder of split_mut_
          Nobody      \* the holder of a free mutex

Entries == Plain \cup Splits

ASSUME SlotsAssumption == Slots \in Nat \ {0}
ASSUME MaxOpsAssumption == MaxOps \in Nat
ASSUME EntriesAssumption == Plain \cap Splits = {} /\ Blank \notin Entries
ASSUME ThreadsAssumption ==
  Worker \notin Producers /\ Nobody \notin Producers /\ Worker # Nobody

VARIABLES
  ring,         \* the bytes at pmem_addr_, as the threads read them
  dirty,        \* slots written and not yet persisted
  cur_addr,     \* next slot to allocate; Slots is the foot of the ring
  apply_addr,   \* next slot to apply
  memory_used,  \* slots published and not yet released
  mut,          \* holder of mut_
  split_mut,    \* holder of split_mut_
  split,        \* split_
  pc, slot, node,     \* each producer's position, allocated slot and LogNode
  wpc, tmp,           \* the worker's position and its copy of the entry
  life,               \* how far the node's destructor has come
  bt                  \* the operations the B+tree has, in order

ringVars == <<ring, dirty, cur_addr>>
lockVars == <<mut, split_mut, split>>
prodVars == <<pc, slot, node>>
workVars == <<apply_addr, wpc, tmp, bt>>
vars == <<ringVars, memory_used, lockVars, prodVars, workVars, life>>

SlotNos == 0 .. Slots - 1
Storing == {"copy", "persist", "publish"}   \* pc of a caller that owns a slot
Working == {"apply", "move", "batch"}       \* wpc from copying an entry to its effect

(* The stages of life: the node is in use; ~InnerNode has closed the pool  *)
(* the B+tree is in; ~NVMLogFile has unmapped the ring; ~Daemon has set    *)
(* finished; the object's memory is freed.  The worker, which is detached, *)
(* may run through all of them, and a fault of it ends the process.        *)
Stages == {"open", "closed", "unmapped", "finished", "freed", "faulted"}
TreeMapped == life = "open"
RingMapped == life \in {"open", "closed"}
Finished == life \in {"finished", "freed"}
Alive == life # "faulted"

TypeOK ==
  /\ ring \in [SlotNos -> Entries \cup {Blank}]
  /\ dirty \subseteq SlotNos
  /\ cur_addr \in 0 .. Slots /\ apply_addr \in 0 .. Slots
  /\ memory_used \in 0 .. Slots
  /\ mut \in Producers \cup {Nobody}
  /\ split_mut \in Producers \cup {Worker, Nobody}
  /\ split \in BOOLEAN
  /\ pc \in [Producers -> {"idle", "lock", "spin", "latch", "check", "wait", "woken"}
                          \cup Storing]
  /\ slot \in [Producers -> SlotNos]
  /\ node \in [Producers -> Entries \cup {Blank}]
  /\ wpc \in {"top", "poll", "prune", "advance", "release", "exit"} \cup Working
  /\ tmp \in Entries \cup {Blank}
  /\ life \in Stages
  /\ bt \in Seq(Entries)

-----------------------------------------------------------------------------
IsFoot(addr) == addr = Slots
Wrap(addr) == IF IsFoot(addr) THEN 0 ELSE addr

(* The slot n places after slot a of the ring, n at most Slots. *)
Ahead(a, n) == IF a + n < Slots THEN a + n ELSE a + n - Slots

(* The entries published but without effect on the tree yet, read off the  *)
(* ring: the worker has passed the first one between its effect and the    *)
(* decrement of memory_used_.                                              *)
Passed == IF wpc \in {"prune", "advance", "release"} THEN 1 ELSE 0
Oldest == IF wpc \in {"prune", "advance"} THEN Ahead(Wrap(apply_addr), 1)
          ELSE Wrap(apply_addr)
Pending == [i \in 1 .. memory_used - Passed |-> ring[Ahead(Oldest, i - 1)]]

(* NVMLogFile() maps the file whatever it holds and resets the pointers.   *)
Init ==
  /\ ring = [s \in SlotNos |-> Blank] /\ dirty = {}
  /\ cur_addr = 0 /\ apply_addr = 0 /\ memory_used = 0
  /\ mut = Nobody /\ split_mut = Nobody /\ split \in BOOLEAN
  /\ pc = [p \in Producers |-> "idle"]
  /\ slot = [p \in Producers |-> 0]
  /\ node = [p \in Producers |-> Blank]
  /\ wpc = "top" /\ tmp = Blank
  /\ life = "open"
  /\ bt = <<>>

-----------------------------------------------------------------------------
(* A producer.  Callers take turns: HBTree has one client thread, and when *)
(* the worker of another node writes here that client is blocked in Split. *)
Call(p, e) ==
  /\ \A q \in Producers : pc[q] = "idle"
  /\ life = "open"
  /\ Len(bt) + memory_used < MaxOps
  /\ node' = [node EXCEPT ![p] = e]
  /\ pc' = [pc EXCEPT ![p] = "lock"]
  /\ UNCHANGED <<ringVars, memory_used, lockVars, slot, workVars, life>>

(* AllocateAligned: take mut_, wrap, spin while the ring is full, advance. *)
LockMut(p) ==
  /\ pc[p] = "lock" /\ mut = Nobody
  /\ mut' = p
  /\ cur_addr' = Wrap(cur_addr)
  /\ pc' = [pc EXCEPT ![p] = "spin"]
  /\ UNCHANGED <<ring, dirty, memory_used, split_mut, split, slot, node, workVars, life>>

(* Defect: the ring's fill level is not tested. *)
AllocateUnchecked(p) ==
  /\ pc[p] = "spin"
  /\ slot' = [slot EXCEPT ![p] = cur_addr]
  /\ cur_addr' = cur_addr + 1
  /\ mut' = Nobody
  /\ pc' = [pc EXCEPT ![p] = IF node[p] \in Splits THEN "latch" ELSE "copy"]
  /\ UNCHANGED <<ring, dirty, memory_used, split_mut, split, node, workVars, life>>

Allocate(p) ==
  /\ pc[p] = "spin" /\ memory_used # Slots
  /\ slot' = [slot EXCEPT ![p] = cur_addr]
  /\ cur_addr' = cur_addr + 1
  /\ mut' = Nobody
  /\ pc' = [pc EXCEPT ![p] = IF node[p] \in Splits THEN "latch" ELSE "copy"]
  /\ UNCHANGED <<ring, dirty, memory_used, split_mut, split, node, workVars, life>>

(* Defect: the flag of the previous split is left raised. *)
LatchStale(p) ==
  /\ pc[p] = "latch" /\ split_mut = Nobody
  /\ split_mut' = p
  /\ pc' = [pc EXCEPT ![p] = "copy"]
  /\ UNCHANGED <<ringVars, memory_used, mut, split, slot, node, workVars, life>>

(* Split only: lock split_mut_ and clear split_ before the entry is seen.  *)
Latch(p) ==
  /\ pc[p] = "latch" /\ split_mut = Nobody
  /\ split_mut' = p
  /\ split' = FALSE
  /\ pc' = [pc EXCEPT ![p] = "copy"]
  /\ UNCHANGED <<ringVars, memory_used, mut, slot, node, workVars, life>>

(* Defect: the entry is published without nvm_persist. *)
CopyUnpersisted(p) ==
  /\ pc[p] = "copy"
  /\ ring' = [ring EXCEPT ![slot[p]] = node[p]]
  /\ dirty' = dirty \cup {slot[p]}
  /\ pc' = [pc EXCEPT ![p] = "publish"]
  /\ UNCHANGED <<cur_addr, memory_used, lockVars, slot, node, workVars, life>>

Copy(p) ==
  /\ pc[p] = "copy"
  /\ ring' = [ring EXCEPT ![slot[p]] = node[p]]
  /\ dirty' = dirty \cup {slot[p]}
  /\ pc' = [pc EXCEPT ![p] = "persist"]
  /\ UNCHANGED <<cur_addr, memory_used, lockVars, slot, node, workVars, life>>

Persist(p) ==
  /\ pc[p] = "persist"
  /\ dirty' = dirty \ {slot[p]}
  /\ pc' = [pc EXCEPT ![p] = "publish"]
  /\ UNCHANGED <<ring, cur_addr, memory_used, lockVars, slot, node, workVars, life>>

(* The atomic add hands the entry to the worker; Write and Delete return.  *)
Publish(p) ==
  /\ pc[p] = "publish"
  /\ memory_used' = memory_used + 1
  /\ pc' = [pc EXCEPT ![p] = IF node[p] \in Splits THEN "check" ELSE "idle"]
  /\ UNCHANGED <<ringVars, lockVars, slot, node, workVars, life>>

(* Defect: the wait keeps the mutex. *)
CheckHolding(p) ==
  /\ pc[p] = "check"
  /\ split_mut' = IF split THEN Nobody ELSE split_mut
  /\ pc' = [pc EXCEPT ![p] = IF split THEN "idle" ELSE "wait"]
  /\ UNCHANGED <<ringVars, memory_used, mut, split, slot, node, workVars, life>>

(* split_cv_.wait: test split_ with the mutex held; return or go to sleep. *)
Check(p) ==
  /\ pc[p] = "check"
  /\ split_mut' = Nobody
  /\ pc' = [pc EXCEPT ![p] = IF split THEN "idle" ELSE "wait"]
  /\ UNCHANGED <<ringVars, memory_used, mut, split, slot, node, workVars, life>>

(* A condition variable may wake a waiter nobody notified. *)
WakeSpuriously(p) ==
  /\ pc[p] = "wait"
  /\ pc' = [pc EXCEPT ![p] = "woken"]
  /\ UNCHANGED <<ringVars, memory_used, lockVars, slot, node, workVars, life>>

Relock(p) ==
  /\ pc[p] = "woken" /\ split_mut = Nobody
  /\ split_mut' = p
  /\ pc' = [pc EXCEPT ![p] = "check"]
  /\ UNCHANGED <<ringVars, memory_used, mut, split, slot, node, workVars, life>>

-----------------------------------------------------------------------------
(* The worker. *)
WorkerWrap ==
  /\ wpc = "top" /\ Alive
  /\ apply_addr' = Wrap(apply_addr)
  /\ wpc' = "poll"
  /\ UNCHANGED <<ringVars, memory_used, lockVars, prodVars, tmp, bt, life>>

WorkerRead ==
  /\ wpc = "poll" /\ memory_used # 0 /\ RingMapped
  /\ tmp' = ring[apply_addr]
  /\ wpc' = IF tmp' \in Splits THEN "move" ELSE "apply"
  /\ UNCHANGED <<ringVars, memory_used, lockVars, prodVars, apply_addr, bt, life>>

WorkerExit ==
  /\ wpc = "poll" /\ memory_used = 0 /\ Finished
  /\ wpc' = "exit"
  /\ UNCHANGED <<ringVars, memory_used, lockVars, prodVars, apply_addr, tmp, bt, life>>

WorkerApply ==
  /\ wpc = "apply" /\ TreeMapped
  /\ bt' = Append(bt, tmp)
  /\ wpc' = "advance"
  /\ UNCHANGED <<ringVars, memory_used, lockVars, prodVars, apply_addr, tmp, life>>

(* The range is read from the tree before split_mut_ is asked for.         *)
WorkerLatch ==
  /\ wpc = "move" /\ TreeMapped /\ split_mut = Nobody
  /\ split_mut' = Worker
  /\ wpc' = "batch"
  /\ UNCHANGED <<ringVars, memory_used, mut, split, prodVars, apply_addr, tmp, bt, life>>

(* Defect: nobody is notified. *)
WorkerSetFlagOnly ==
  /\ wpc = "batch" /\ Alive
  /\ split' = TRUE
  /\ split_mut' = Nobody
  /\ bt' = Append(bt, tmp)
  /\ wpc' = "prune"
  /\ UNCHANGED <<ringVars, memory_used, mut, prodVars, apply_addr, tmp, life>>

(* The range has been copied to the new node: raise split_, notify, unlock. *)
WorkerNotify ==
  /\ wpc = "batch" /\ Alive
  /\ split' = TRUE
  /\ split_mut' = Nobody
  /\ pc' = [p \in Producers |-> IF pc[p] = "wait" THEN "woken" ELSE pc[p]]
  /\ bt' = Append(bt, tmp)
  /\ wpc' = "prune"
  /\ UNCHANGED <<ringVars, memory_used, mut, slot, node, apply_addr, tmp, life>>

(* The moved keys are deleted from the old tree after the caller is let go. *)
WorkerPrune ==
  /\ wpc = "prune" /\ TreeMapped
  /\ wpc' = "advance"
  /\ UNCHANGED <<ringVars, memory_used, lockVars, prodVars, apply_addr, tmp, bt, life>>

(* Defect: a split entry is not passed. *)
WorkerSkipAdvance ==
  /\ wpc = "advance" /\ Alive
  /\ apply_addr' = IF tmp \in Splits THEN apply_addr ELSE apply_addr + 1
  /\ wpc' = "release"
  /\ UNCHANGED <<ringVars, memory_used, lockVars, prodVars, tmp, bt, life>>

WorkerAdvance ==
  /\ wpc = "advance" /\ Alive
  /\ apply_addr' = apply_addr + 1
  /\ wpc' = "release"
  /\ UNCHANGED <<ringVars, memory_used, lockVars, prodVars, tmp, bt, life>>

WorkerRelease ==
  /\ wpc = "release" /\ Alive
  /\ memory_used' = memory_used - 1
  /\ wpc' = "top"
  /\ UNCHANGED <<ringVars, lockVars, prodVars, apply_addr, tmp, bt, life>>

-----------------------------------------------------------------------------
(* The worker uses what the destructor has taken away: the tree, the ring, *)
(* or any member of the freed object.  Reading freed memory may also give  *)
(* the old values; then the worker's other steps go on.                    *)
WorkerFault ==
  /\ \/ wpc \in {"apply", "move", "prune"} /\ ~TreeMapped
     \/ wpc = "poll" /\ memory_used # 0 /\ ~RingMapped
     \/ wpc # "exit" /\ life = "freed"
  /\ Alive
  /\ life' = "faulted"
  /\ UNCHANGED <<ringVars, memory_used, lockVars, prodVars, workVars>>

-----------------------------------------------------------------------------
(* The node is destroyed between calls, whatever its log still holds: no   *)
(* destructor waits for the worker.                                        *)
ClosePool ==
  /\ \A p \in Producers : pc[p] = "idle"
  /\ life = "open" /\ life' = "closed"
  /\ UNCHANGED <<ringVars, memory_used, lockVars, prodVars, workVars>>

Unmap ==
  /\ life = "closed" /\ life' = "unmapped"
  /\ UNCHANGED <<ringVars, memory_used, lockVars, prodVars, workVars>>

Finish ==
  /\ life = "unmapped" /\ life' = "finished"
  /\ UNCHANGED <<ringVars, memory_used, lockVars, prodVars, workVars>>

Free ==
  /\ life = "finished" /\ life' = "freed"
  /\ UNCHANGED <<ringVars, memory_used, lockVars, prodVars, workVars>>

(* Power failure and restart: the tree and the persisted slots survive, an *)
(* unpersisted slot may or may not, and the constructor starts the ring    *)
(* from its first slot without reading what it holds.                      *)
Crash ==
  /\ \E lost \in SUBSET dirty :
       ring' = [s \in SlotNos |-> IF s \in lost THEN Blank ELSE ring[s]]
  /\ dirty' = {}
  /\ cur_addr' = 0 /\ apply_addr' = 0 /\ memory_used' = 0
  /\ mut' = Nobody /\ split_mut' = Nobody /\ split' = FALSE
  /\ pc' = [p \in Producers |-> "idle"]
  /\ slot' = [p \in Producers |-> 0]
  /\ node' = [p \in Producers |-> Blank]
  /\ wpc' = "top" /\ tmp' = Blank
  /\ life' = "open"
  /\ UNCHANGED bt

ProducerStep(p) ==
  \/ LockMut(p) \/ Allocate(p) \/ Latch(p) \/ Copy(p) \/ Persist(p) \/ Publish(p)
  \/ Check(p) \/ Relock(p)

WorkerStep ==
  \/ WorkerWrap \/ WorkerRead \/ WorkerExit \/ WorkerApply \/ WorkerLatch
  \/ WorkerNotify \/ WorkerPrune \/ WorkerAdvance \/ WorkerRelease
  \/ WorkerFault

Run ==
  \/ \E p \in Producers : ProducerStep(p) \/ WakeSpuriously(p)
  \/ \E p \in Producers, e \in Entries : Call(p, e)
  \/ WorkerStep
  \/ ClosePool \/ Unmap \/ Finish \/ Free

Next == Run \/ Crash

Spec == Init /\ [][Next]_vars

(* Threads are scheduled; a thread that keeps asking for split_mut_ while  *)
(* it keeps being released gets it in the end.  Spurious wake-ups are      *)
(* never relied on.  A failure may end it all, and answers every call.     *)
Fairness ==
  /\ \A p \in Producers : WF_vars(ProducerStep(p)) /\ SF_vars(Relock(p))
  /\ WF_vars(WorkerStep) /\ SF_vars(WorkerLatch)

LiveSpec == Spec /\ Fairness

-----------------------------------------------------------------------------
(* The ring implements the bounded queue of LogQueue: operations reach the *)
(* tree once each, in the order their calls were accepted, and a crash     *)
(* loses a suffix of them that fits in the ring.                           *)
Queue == INSTANCE LogQueue WITH pending <- Pending, applied <- bt
QueueSpec == Queue!Spec

(* No step, a crash included, changes the bytes of an accepted entry that  *)
(* the tree does not have: a recovery that knew where to look would find   *)
(* every lost operation in the ring (Write persists before it publishes,   *)
(* and AllocateAligned does not hand out a live slot).                     *)
LiveSlotsKept ==
  [][\A i \in DOMAIN Pending : ring'[Ahead(Oldest, i - 1)] = Pending[i]]_vars

(* Split returns only when its range has been handed to the new node and   *)
(* every earlier operation of the log is in the tree: the flag of an       *)
(* earlier split never lets it go.                                         *)
SplitIsBarrier ==
  \A p \in Producers :
    split /\ pc[p] \in {"check", "wait", "woken"} => Pending = <<>>

(* Every call returns: no wait on a full ring, on a mutex or on the split  *)
(* notification lasts for ever.                                            *)
CallsReturn == \A p \in Producers : pc[p] # "idle" ~> pc[p] = "idle"

(* The accepted operations are all applied in the end, unless a failure    *)
(* loses them or the node is destroyed.                                    *)
Drains == Pending # <<>> ~> Pending = <<>> \/ life # "open"
=============================================================================
