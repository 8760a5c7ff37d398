--------------------------- MODULE NVMLog_proofs ---------------------------
(***************************************************************************)
(* Proofs about NVMLog for every ring size, every set of callers and every *)
(* set of entries.                                                         *)
(***************************************************************************)
EXTENDS NVMLog, TLAPS

(* The callers take turns, and the program position tells who holds which  *)
(* mutex.                                                                  *)
Busy(p) == pc[p] # "idle"
OneCaller == \A p, q \in Producers : Busy(p) /\ Busy(q) => p = q
Locks ==
  /\ \A p \in Producers : mut = p <=> pc[p] = "spin"
  /\ \A p \in Producers :
       split_mut = p <=> \/ pc[p] = "check"
                         \/ pc[p] \in Storing /\ node[p] \in Splits
  /\ split_mut = Worker <=> wpc = "batch"
  /\ \A p \in Producers : Busy(p) => node[p] \in Entries
  /\ \A p \in Producers : pc[p] \in {"latch", "check", "wait", "woken"} => node[p] \in Splits

(* The slots between apply_addr and cur_addr are those published and not   *)
(* released, followed by the one a caller is filling.                      *)
Released == IF wpc = "release" THEN 1 ELSE 0
Live == memory_used - Released
Filling == \E p \in Producers : pc[p] \in {"latch"} \cup Storing
Geometry ==
  /\ Live \in 0 .. Slots
  /\ Wrap(cur_addr) = Ahead(Wrap(apply_addr), IF Filling THEN Live + 1 ELSE Live)
  /\ Filling => memory_used < Slots
  /\ \A p \in Producers : pc[p] = "spin" => cur_addr # Slots
  /\ \A p \in Producers :
       pc[p] \in {"latch"} \cup Storing => slot[p] = Ahead(Wrap(apply_addr), Live)

(* What the caller has stored, and what of it is persistent.               *)
Stored ==
  /\ \A p \in Producers : pc[p] \in {"persist", "publish"} => ring[slot[p]] = node[p]
  /\ \A s \in dirty : \E p \in Producers : pc[p] = "persist" /\ slot[p] = s

(* The entry the worker has in hand is the oldest live one.                *)
WorkerView ==
  /\ wpc \in Working \cup {"prune", "advance", "release"} => memory_used > 0
  /\ wpc \in Working \cup {"poll", "prune", "advance"} => apply_addr # Slots
  /\ wpc \in Working \cup {"prune", "advance"} => tmp = ring[apply_addr]
  /\ wpc \in Working => tmp \in Entries
  /\ wpc \in {"move", "batch", "prune"} => tmp \in Splits
  /\ wpc = "apply" => tmp \in Plain

(* Live slots hold entries; a split the worker has not carried out is the  *)
(* last of them and its caller is waiting, with split_ clear.              *)
At(i) == ring[Ahead(Wrap(apply_addr), i)]
Done == IF wpc \in {"prune", "advance"} THEN 1 ELSE 0
Awaiting(p) == pc[p] \in {"check", "wait", "woken"}
EntriesLive == \A i \in 0 .. Live - 1 : At(i) \in Entries
SplitLast ==
  \A i \in Done .. Live - 1 :
    At(i) \in Splits => i = Live - 1 /\ \E p \in Producers : Awaiting(p)
Handshake ==
  /\ \A p \in Producers :
       Awaiting(p) => IF split THEN Live = Done ELSE Live > Done /\ At(Live - 1) = node[p]
  /\ \A p \in Producers : pc[p] \in Storing /\ node[p] \in Splits => ~split

(* The destructor runs when no call is in the log.                         *)
Lifetime == life # "open" => \A p \in Producers : ~Busy(p)

IInv == TypeOK /\ OneCaller /\ Locks /\ Geometry /\ Stored /\ WorkerView
        /\ EntriesLive /\ SplitLast /\ Handshake /\ Lifetime

-----------------------------------------------------------------------------
(* The initial state satisfies the invariant.                              *)
LEMMA InitIInv == Init => IInv
<1> SUFFICES ASSUME Init PROVE IInv
  OBVIOUS
<1> USE SlotsAssumption, ThreadsAssumption, EntriesAssumption DEF Init
<1>1. TypeOK
  BY DEF TypeOK, SlotNos, Storing, Working, Entries, Stages
<1>2. OneCaller
  BY DEF OneCaller, Busy
<1>3. Locks
  BY DEF Locks, Busy, Storing
<1>4. Geometry
  BY DEF Geometry, Live, Released, Filling, Storing, Wrap, IsFoot, Ahead
<1>5. Stored /\ WorkerView /\ Lifetime
  BY DEF Stored, WorkerView, Lifetime, Working, Busy
<1>6. EntriesLive /\ SplitLast /\ Handshake
  BY DEF EntriesLive, SplitLast, Handshake, Live, Released, Done, At, Awaiting, Storing
<1> QED
  BY <1>1, <1>2, <1>3, <1>4, <1>5, <1>6 DEF IInv

(* Positions of the ring: n places ahead of a slot is a slot, and fewer    *)
(* than Slots places ahead never meet (IsFoot and the wrap of both ends).  *)
LEMMA AheadIsSlot ==
  ASSUME NEW a \in SlotNos, NEW n \in 0 .. Slots
  PROVE  Ahead(a, n) \in SlotNos
  BY SlotsAssumption DEF Ahead, SlotNos

LEMMA AheadDistinct ==
  ASSUME NEW a \in SlotNos, NEW m \in 0 .. Slots - 1, NEW n \in 0 .. Slots - 1, m # n
  PROVE  Ahead(a, m) # Ahead(a, n)
  BY SlotsAssumption DEF Ahead, SlotNos

LEMMA AheadNext ==
  ASSUME NEW a \in SlotNos, NEW n \in 0 .. Slots - 1
  PROVE  Ahead(Wrap(a + 1), n) = Ahead(a, n + 1)
  BY SlotsAssumption DEF Ahead, SlotNos, Wrap, IsFoot

(* Every step keeps it.                                                    *)
LEMMA StepIInv == IInv /\ [Next]_vars => IInv'
<1> SUFFICES ASSUME IInv, [Next]_vars PROVE IInv'
  OBVIOUS
<1> USE SlotsAssumption, ThreadsAssumption, EntriesAssumption
    DEF IInv, vars, ringVars, lockVars, prodVars, workVars
<1>1. ASSUME NEW p \in Producers, NEW e \in Entries, Call(p, e) PROVE IInv'
  <2>1. TypeOK'
    BY <1>1 DEF Call, TypeOK, SlotNos, Storing, Working, Entries, Wrap, IsFoot, WorkerView
  <2>2. (OneCaller /\ Locks /\ Stored /\ Lifetime)'
    BY <1>1 DEF Call, OneCaller, Busy, TypeOK, Locks, Storing, Working, WorkerView, Stored,
       SlotNos, Lifetime
  <2>3. (Geometry /\ WorkerView)'
    BY <1>1 DEF Call, TypeOK, OneCaller, Locks, Busy, WorkerView, Working, Geometry, Live,
       Released, Filling, Storing, Wrap, IsFoot, Ahead, SlotNos, EntriesLive, Lifetime, Entries
  <2>4. /\ ring' = ring /\ apply_addr' = apply_addr /\ wpc' = wpc
        /\ memory_used' = memory_used /\ split' = split
    BY <1>1 DEF Call
  <2>5. EntriesLive'
    BY <2>4 DEF EntriesLive, At, Live, Released
  <2>6. \A q \in Producers : Awaiting(q)' <=> Awaiting(q)
    BY <1>1 DEF Call, TypeOK, Awaiting
  <2>7. SplitLast'
    BY <2>4, <2>6 DEF SplitLast, At, Live, Released, Done
  <2>8. Handshake'
    BY <1>1, <2>4, <2>6 DEF Call, TypeOK, OneCaller, Busy, Locks, Handshake, At, Live, Released,
       Done, Awaiting, Storing
  <2> QED
    BY <2>1, <2>2, <2>3, <2>5, <2>7, <2>8
<1>2. ASSUME NEW p \in Producers, LockMut(p) PROVE IInv'
  <2>1. TypeOK'
    BY <1>2 DEF LockMut, TypeOK, SlotNos, Storing, Working, Entries, Wrap, IsFoot, WorkerView
  <2>2. (OneCaller /\ Locks /\ Stored /\ Lifetime)'
    BY <1>2 DEF LockMut, OneCaller, Busy, TypeOK, Locks, Storing, Working, WorkerView, Stored,
       SlotNos, Lifetime
  <2>3. (Geometry /\ WorkerView)'
    BY <1>2 DEF LockMut, TypeOK, OneCaller, Locks, Busy, WorkerView, Working, Geometry, Live,
       Released, Filling, Storing, Wrap, IsFoot, Ahead, SlotNos, EntriesLive, Lifetime, Entries
  <2>4. /\ ring' = ring /\ apply_addr' = apply_addr /\ wpc' = wpc
        /\ memory_used' = memory_used /\ split' = split
    BY <1>2 DEF LockMut
  <2>5. EntriesLive'
    BY <2>4 DEF EntriesLive, At, Live, Released
  <2>6. \A q \in Producers : Awaiting(q)' <=> Awaiting(q)
    BY <1>2 DEF LockMut, TypeOK, Awaiting
  <2>7. SplitLast'
    BY <2>4, <2>6 DEF SplitLast, At, Live, Released, Done
  <2>8. Handshake'
    BY <1>2, <2>4, <2>6 DEF LockMut, TypeOK, OneCaller, Busy, Locks, Handshake, At, Live, Released,
       Done, Awaiting, Storing
  <2> QED
    BY <2>1, <2>2, <2>3, <2>5, <2>7, <2>8
<1>3. ASSUME NEW p \in Producers, Allocate(p) PROVE IInv'
  <2>1. TypeOK'
    BY <1>3 DEF Allocate, TypeOK, SlotNos, Storing, Geometry
  <2>2. (OneCaller /\ Locks /\ Stored /\ Lifetime)'
    BY <1>3 DEF Allocate, OneCaller, Busy, TypeOK, Locks, Storing, Working, WorkerView, Stored,
       SlotNos, Lifetime
  <2>3. Geometry'
    BY <1>3 DEF Allocate, TypeOK, OneCaller, Locks, Busy, WorkerView, Working, Geometry, Live,
       Released, Filling, Storing, Wrap, IsFoot, Ahead
  <2>4. WorkerView'
    BY <1>3 DEF Allocate, TypeOK, SlotNos, WorkerView, EntriesLive, Working, Storing, Wrap,
       IsFoot, Ahead, Lifetime, Entries
  <2>5. /\ ring' = ring /\ apply_addr' = apply_addr /\ wpc' = wpc
        /\ memory_used' = memory_used /\ split' = split
    BY <1>3 DEF Allocate
  <2>6. EntriesLive'
    BY <2>5 DEF EntriesLive, At, Live, Released
  <2>7. \A q \in Producers : ~Awaiting(q)' /\ ~Awaiting(q)
    BY <1>3 DEF Allocate, TypeOK, Awaiting, OneCaller, Busy
  <2>8. SplitLast'
    BY <2>5, <2>7 DEF SplitLast, At, Live, Released, Done
  <2>9. Handshake'
    <3>1. \A q \in Producers : ~(pc'[q] \in Storing /\ node'[q] \in Splits)
      BY <1>3 DEF Allocate, TypeOK, Storing, OneCaller, Busy
    <3> QED
      BY <2>7, <3>1 DEF Handshake
  <2> QED
    BY <2>1, <2>2, <2>3, <2>4, <2>6, <2>8, <2>9
<1>4. ASSUME NEW p \in Producers, Latch(p) PROVE IInv'
  <2>1. TypeOK'
    BY <1>4 DEF Latch, TypeOK, SlotNos, Storing, Working, Entries, Wrap, IsFoot, WorkerView
  <2>2. (OneCaller /\ Locks /\ Stored /\ Lifetime)'
    BY <1>4 DEF Latch, OneCaller, Busy, TypeOK, Locks, Storing, Working, WorkerView, Stored,
       SlotNos, Lifetime
  <2>3. (Geometry /\ WorkerView)'
    BY <1>4 DEF Latch, TypeOK, OneCaller, Locks, Busy, WorkerView, Working, Geometry, Live,
       Released, Filling, Storing, Wrap, IsFoot, Ahead, SlotNos, EntriesLive, Lifetime, Entries
  <2>4. SplitLast'
    BY <1>4 DEF Latch, TypeOK, SlotNos, OneCaller, Busy, Locks, Stored, Geometry, Live,
       Released, Filling, WorkerView, SplitLast, At, Done, Awaiting, Working, Storing, Wrap,
       IsFoot, Ahead, Entries
  <2>5. Handshake'
    BY <1>4 DEF Latch, TypeOK, SlotNos, OneCaller, Busy, Locks, Stored, Geometry, Live,
       Released, Filling, WorkerView, SplitLast, Handshake, At, Done, Awaiting, Working,
       Storing, Wrap, IsFoot, Ahead, Entries
  <2>6. EntriesLive'
    BY <1>4 DEF Latch, TypeOK, SlotNos, OneCaller, Busy, Locks, Stored, Geometry, Live,
       Released, Filling, WorkerView, EntriesLive, At, Done, Awaiting, Working, Storing, Wrap,
       IsFoot, Ahead, Entries
  <2> QED
    BY <2>1, <2>2, <2>3, <2>4, <2>5, <2>6
<1>5. ASSUME NEW p \in Producers, Copy(p) PROVE IInv'
  <2>a. /\ Wrap(apply_addr) \in SlotNos
        /\ Live \in 0 .. Slots - 1
        /\ slot[p] = Ahead(Wrap(apply_addr), Live)
    BY <1>5 DEF Copy, TypeOK, SlotNos, Geometry, Filling, Storing, Live, Released, Wrap, IsFoot
  <2>b. \A i \in 0 .. Live - 1 : Ahead(Wrap(apply_addr), i) # slot[p]
    BY <2>a, AheadDistinct DEF SlotNos
  <2>c. /\ \A i \in 0 .. Live - 1 : At(i)' = At(i)
        /\ Live' = Live /\ Done' = Done
    BY <1>5, <2>a, <2>b, AheadIsSlot DEF Copy, TypeOK, At, Live, Released, Done
  <2>1. TypeOK'
    BY <1>5 DEF Copy, TypeOK, SlotNos, Storing, Working, Entries, Wrap, IsFoot, WorkerView
  <2>2. (OneCaller /\ Locks /\ Stored /\ Lifetime)'
    BY <1>5 DEF Copy, OneCaller, Busy, TypeOK, Locks, Storing, Working, WorkerView, Stored,
       SlotNos, Lifetime
  <2>3. WorkerView'
    <3>1. ASSUME wpc \in Working \cup {"prune", "advance"} PROVE apply_addr # slot[p]
      BY <2>a, <2>b, <3>1 DEF WorkerView, Working, Live, Released, TypeOK, Wrap, IsFoot, Ahead, SlotNos
    <3> QED
      BY <1>5, <3>1 DEF Copy, WorkerView, Working, TypeOK, SlotNos
  <2>4. Geometry'
    BY <1>5 DEF Copy, TypeOK, OneCaller, Locks, Busy, WorkerView, Working, Geometry, Live,
       Released, Filling, Storing, Wrap, IsFoot, Ahead
  <2>5. EntriesLive'
    BY <2>c DEF EntriesLive
  <2>6. SplitLast'
    BY <1>5, <2>a, <2>c DEF Copy, TypeOK, SplitLast, Done, Awaiting
  <2>7. Handshake'
    BY <1>5 DEF Copy, TypeOK, SlotNos, OneCaller, Busy, Locks, Stored, Geometry, Live, Released,
       Filling, WorkerView, SplitLast, Handshake, At, Done, Awaiting, Working, Storing, Wrap,
       IsFoot, Ahead, Entries
  <2> QED
    BY <2>1, <2>2, <2>3, <2>4, <2>5, <2>6, <2>7
<1>6. ASSUME NEW p \in Producers, Persist(p) PROVE IInv'
  <2>1. TypeOK'
    BY <1>6 DEF Persist, TypeOK, SlotNos, Storing, Working, Entries, Wrap, IsFoot, WorkerView
  <2>2. (OneCaller /\ Locks /\ Stored /\ Lifetime)'
    BY <1>6 DEF Persist, OneCaller, Busy, TypeOK, Locks, Storing, Working, WorkerView, Stored,
       SlotNos, Lifetime
  <2>3. (Geometry /\ WorkerView)'
    BY <1>6 DEF Persist, TypeOK, OneCaller, Locks, Busy, WorkerView, Working, Geometry, Live,
       Released, Filling, Storing, Wrap, IsFoot, Ahead, SlotNos, EntriesLive, Lifetime, Entries
  <2>4. SplitLast'
    BY <1>6 DEF Persist, TypeOK, SlotNos, OneCaller, Busy, Locks, Stored, Geometry, Live,
       Released, Filling, WorkerView, SplitLast, At, Done, Awaiting, Working, Storing, Wrap,
       IsFoot, Ahead, Entries
  <2>5. (EntriesLive /\ Handshake)'
    BY <1>6 DEF Persist, TypeOK, SlotNos, OneCaller, Busy, Locks, Stored, Geometry, Live,
       Released, Filling, WorkerView, EntriesLive, At, Done, Awaiting, Working, Storing, Wrap,
       IsFoot, Ahead, Entries, SplitLast, Handshake
  <2> QED
    BY <2>1, <2>2, <2>3, <2>4, <2>5
<1>7. ASSUME NEW p \in Producers, Publish(p) PROVE IInv'
  <2>a. /\ At(Live) = node[p] /\ node[p] \in Entries
        /\ Live' = Live + 1 /\ Done' = Done /\ Live \in Nat /\ Done \in 0 .. Live
        /\ \A i \in 0 .. Live : At(i)' = At(i)
    BY <1>7 DEF Publish, TypeOK, Busy, Locks, Geometry, Stored, WorkerView, Storing, At, Live, Released, Done
  <2>1. TypeOK'
    BY <1>7 DEF Publish, TypeOK, Storing, Geometry, Filling
  <2>2. (OneCaller /\ Locks /\ Stored /\ Lifetime)'
    BY <1>7 DEF Publish, OneCaller, Busy, TypeOK, Locks, Storing, Working, WorkerView, Stored,
       SlotNos, Lifetime
  <2>3. Geometry'
    BY <1>7 DEF Publish, TypeOK, OneCaller, Locks, Busy, WorkerView, Working, Geometry, Live,
       Released, Filling, Storing, Wrap, IsFoot, Ahead
  <2>4. WorkerView'
    BY <1>7 DEF Publish, TypeOK, SlotNos, WorkerView, EntriesLive, Working, Storing, Wrap,
       IsFoot, Ahead, Lifetime, Entries
  <2>5. EntriesLive'
    BY <2>a DEF EntriesLive
  <2>6. SplitLast'
    <3>1. \A q \in Producers : ~Awaiting(q)
      BY <1>7 DEF Publish, OneCaller, Busy, Awaiting
    <3>2. node[p] \in Splits => Awaiting(p)'
      BY <1>7 DEF Publish, TypeOK, Awaiting
    <3> QED
      BY <2>a, <3>1, <3>2 DEF SplitLast
  <2>7. Handshake'
    <3>1. \A q \in Producers : Awaiting(q)' => q = p /\ node[p] \in Splits /\ ~split'
      BY <1>7 DEF Publish, TypeOK, OneCaller, Busy, Awaiting, Storing, Handshake
    <3>2. node' = node
      BY <1>7 DEF Publish
    <3>3. \A q \in Producers : ~(pc'[q] \in Storing)
      BY <1>7 DEF Publish, TypeOK, OneCaller, Busy, Storing
    <3>4. Live' - 1 = Live /\ Live' > Done'
      BY <2>a
    <3> QED
      BY <2>a, <3>1, <3>2, <3>3, <3>4 DEF Handshake
  <2> QED
    BY <2>1, <2>2, <2>3, <2>4, <2>5, <2>6, <2>7
<1>8. ASSUME NEW p \in Producers, Check(p) PROVE IInv'
  <2>1. TypeOK'
    BY <1>8 DEF Check, TypeOK, SlotNos, Storing, Working, Entries, Wrap, IsFoot, WorkerView
  <2>2. (OneCaller /\ Locks /\ Stored /\ Lifetime)'
    BY <1>8 DEF Check, OneCaller, Busy, TypeOK, Locks, Storing, Working, WorkerView, Stored,
       SlotNos, Lifetime
  <2>3. Geometry'
    BY <1>8 DEF Check, TypeOK, OneCaller, Locks, Busy, WorkerView, Working, Geometry, Live,
       Released, Filling, Storing, Wrap, IsFoot, Ahead
  <2>4. WorkerView'
    BY <1>8 DEF Check, TypeOK, SlotNos, WorkerView, EntriesLive, Working, Storing, Wrap, IsFoot,
       Ahead, Lifetime, Entries
  <2>5. SplitLast'
    BY <1>8 DEF Check, TypeOK, SplitLast, Handshake, Live, Released, Done, Awaiting, At
  <2>6. (EntriesLive /\ Handshake)'
    BY <1>8 DEF Check, TypeOK, SlotNos, OneCaller, Busy, Locks, Stored, Geometry, Live,
       Released, Filling, WorkerView, EntriesLive, At, Done, Awaiting, Working, Storing, Wrap,
       IsFoot, Ahead, Entries, SplitLast, Handshake
  <2> QED
    BY <2>1, <2>2, <2>3, <2>4, <2>5, <2>6
<1>9. ASSUME NEW p \in Producers, Relock(p) PROVE IInv'
  <2>1. TypeOK'
    BY <1>9 DEF Relock, TypeOK, SlotNos, Storing, Working, Entries, Wrap, IsFoot, WorkerView
  <2>2. (OneCaller /\ Locks /\ Stored /\ Lifetime)'
    BY <1>9 DEF Relock, OneCaller, Busy, TypeOK, Locks, Storing, Working, WorkerView, Stored,
       SlotNos, Lifetime
  <2>3. (Geometry /\ WorkerView)'
    BY <1>9 DEF Relock, TypeOK, OneCaller, Locks, Busy, WorkerView, Working, Geometry, Live,
       Released, Filling, Storing, Wrap, IsFoot, Ahead, SlotNos, EntriesLive, Lifetime, Entries
  <2>4. /\ ring' = ring /\ apply_addr' = apply_addr /\ wpc' = wpc
        /\ memory_used' = memory_used /\ split' = split
    BY <1>9 DEF Relock
  <2>5. EntriesLive'
    BY <2>4 DEF EntriesLive, At, Live, Released
  <2>6. \A q \in Producers : Awaiting(q)' <=> Awaiting(q)
    BY <1>9 DEF Relock, TypeOK, Awaiting
  <2>7. SplitLast'
    BY <2>4, <2>6 DEF SplitLast, At, Live, Released, Done
  <2>8. Handshake'
    BY <1>9, <2>4, <2>6 DEF Relock, TypeOK, OneCaller, Busy, Locks, Handshake, At, Live, Released,
       Done, Awaiting, Storing
  <2> QED
    BY <2>1, <2>2, <2>3, <2>5, <2>7, <2>8
<1>10. ASSUME NEW p \in Producers, WakeSpuriously(p) PROVE IInv'
  <2>1. TypeOK'
    BY <1>10 DEF WakeSpuriously, TypeOK, SlotNos, Storing, Working, Entries, Wrap, IsFoot,
       WorkerView
  <2>2. (OneCaller /\ Locks /\ Stored /\ Lifetime)'
    BY <1>10 DEF WakeSpuriously, OneCaller, Busy, TypeOK, Locks, Storing, Working, WorkerView,
       Stored, SlotNos, Lifetime
  <2>3. (Geometry /\ WorkerView)'
    BY <1>10 DEF WakeSpuriously, TypeOK, OneCaller, Locks, Busy, WorkerView, Working, Geometry,
       Live, Released, Filling, Storing, Wrap, IsFoot, Ahead, SlotNos, EntriesLive, Lifetime,
       Entries
  <2>4. SplitLast'
    BY <1>10 DEF WakeSpuriously, TypeOK, SlotNos, OneCaller, Busy, Locks, Stored, Geometry,
       Live, Released, Filling, WorkerView, SplitLast, At, Done, Awaiting, Working, Storing,
       Wrap, IsFoot, Ahead, Entries
  <2>5. (EntriesLive /\ Handshake)'
    BY <1>10 DEF WakeSpuriously, TypeOK, SlotNos, OneCaller, Busy, Locks, Stored, Geometry,
       Live, Released, Filling, WorkerView, EntriesLive, At, Done, Awaiting, Working, Storing,
       Wrap, IsFoot, Ahead, Entries, SplitLast, Handshake
  <2> QED
    BY <2>1, <2>2, <2>3, <2>4, <2>5
<1>11. CASE WorkerWrap
  <2>1. TypeOK'
    BY <1>11 DEF WorkerWrap, TypeOK, SlotNos, Storing, Working, Entries, Wrap, IsFoot,
       WorkerView
  <2>2. (OneCaller /\ Locks /\ Stored /\ Lifetime)'
    BY <1>11 DEF WorkerWrap, OneCaller, Busy, TypeOK, Locks, Storing, Working, WorkerView,
       Stored, SlotNos, Lifetime
  <2>3. (Geometry /\ WorkerView)'
    BY <1>11 DEF WorkerWrap, TypeOK, OneCaller, Locks, Busy, WorkerView, Working, Geometry,
       Live, Released, Filling, Storing, Wrap, IsFoot, Ahead, SlotNos, EntriesLive, Lifetime,
       Entries
  <2>4. (EntriesLive /\ SplitLast /\ Handshake)'
    BY <1>11 DEF WorkerWrap, TypeOK, SlotNos, OneCaller, Busy, Locks, Stored, Geometry, Live,
       Released, Filling, WorkerView, EntriesLive, At, Done, Awaiting, Working, Storing, Wrap,
       IsFoot, Ahead, Entries, SplitLast, Handshake
  <2> QED
    BY <2>1, <2>2, <2>3, <2>4
<1>12. CASE WorkerRead
  <2>1. TypeOK'
    BY <1>12 DEF WorkerRead, TypeOK, SlotNos, Storing, Working, Entries, Wrap, IsFoot,
       WorkerView
  <2>2. (OneCaller /\ Locks /\ Stored /\ Lifetime)'
    BY <1>12 DEF WorkerRead, OneCaller, Busy, TypeOK, Locks, Storing, Working, WorkerView,
       Stored, SlotNos, Lifetime
  <2>3. WorkerView'
    <3>1. At(0) = ring[apply_addr] /\ Live > 0
      BY <1>12 DEF WorkerRead, TypeOK, WorkerView, At, Live, Released, Wrap, IsFoot, Ahead, SlotNos, Lifetime
    <3>2. tmp' = ring[apply_addr] /\ tmp' \in Entries
      BY <1>12, <3>1 DEF WorkerRead, EntriesLive, Live, Released, TypeOK
    <3> QED
      BY <1>12, <3>1, <3>2 DEF WorkerRead, WorkerView, Working, TypeOK, Entries
  <2>4. Geometry'
    BY <1>12 DEF WorkerRead, TypeOK, OneCaller, Locks, Busy, WorkerView, Working, Geometry,
       Live, Released, Filling, Storing, Wrap, IsFoot, Ahead
  <2>5. (EntriesLive /\ SplitLast /\ Handshake)'
    BY <1>12 DEF WorkerRead, TypeOK, SlotNos, OneCaller, Busy, Locks, Stored, Geometry, Live,
       Released, Filling, WorkerView, EntriesLive, At, Done, Awaiting, Working, Storing, Wrap,
       IsFoot, Ahead, Entries, SplitLast, Handshake
  <2> QED
    BY <2>1, <2>2, <2>3, <2>4, <2>5
<1>13. CASE WorkerExit
  <2>1. TypeOK'
    BY <1>13 DEF WorkerExit, TypeOK, SlotNos, Storing, Working, Entries, Wrap, IsFoot,
       WorkerView
  <2>2. (OneCaller /\ Locks /\ Stored /\ Lifetime)'
    BY <1>13 DEF WorkerExit, OneCaller, Busy, TypeOK, Locks, Storing, Working, WorkerView,
       Stored, SlotNos, Lifetime
  <2>3. (Geometry /\ WorkerView)'
    BY <1>13 DEF WorkerExit, TypeOK, OneCaller, Locks, Busy, WorkerView, Working, Geometry,
       Live, Released, Filling, Storing, Wrap, IsFoot, Ahead, SlotNos, EntriesLive, Lifetime,
       Entries
  <2>4. (EntriesLive /\ SplitLast /\ Handshake)'
    BY <1>13 DEF WorkerExit, TypeOK, SlotNos, OneCaller, Busy, Locks, Stored, Geometry, Live,
       Released, Filling, WorkerView, EntriesLive, At, Done, Awaiting, Working, Storing, Wrap,
       IsFoot, Ahead, Entries, SplitLast, Handshake
  <2> QED
    BY <2>1, <2>2, <2>3, <2>4
<1>14. CASE WorkerApply
  <2>1. TypeOK'
    BY <1>14 DEF WorkerApply, TypeOK, SlotNos, Storing, Working, Entries, Wrap, IsFoot,
       WorkerView
  <2>2. (OneCaller /\ Locks /\ Stored /\ Lifetime)'
    BY <1>14 DEF WorkerApply, OneCaller, Busy, TypeOK, Locks, Storing, Working, WorkerView,
       Stored, SlotNos, Lifetime
  <2>3. (Geometry /\ WorkerView)'
    BY <1>14 DEF WorkerApply, TypeOK, OneCaller, Locks, Busy, WorkerView, Working, Geometry,
       Live, Released, Filling, Storing, Wrap, IsFoot, Ahead, SlotNos, EntriesLive, Lifetime,
       Entries
  <2>4. /\ UNCHANGED <<ring, apply_addr, memory_used, pc, node, split>>
        /\ Live' = Live /\ Done = 0 /\ Done' = 1 /\ Live \in 1 .. Slots
    BY <1>14 DEF WorkerApply, TypeOK, Live, Released, Done, WorkerView, Working, Geometry
  <2>5. At(0) \in Plain /\ \A i \in 0 .. Live - 1 : At(i)' = At(i)
    <3>1. At(0) = tmp /\ tmp \in Plain
      BY <1>14 DEF WorkerApply, TypeOK, WorkerView, Working, At, Ahead, Wrap, IsFoot, SlotNos
    <3> QED
      BY <2>4, <3>1 DEF At
  <2>6. (EntriesLive /\ SplitLast)'
    BY <2>4, <2>5 DEF EntriesLive, SplitLast, Awaiting
  <2>7. Handshake'
    <3>1. ASSUME NEW p \in Producers, Awaiting(p), ~split PROVE Live > 1
      <4>1. At(Live - 1) \in Splits
        BY <3>1 DEF Handshake, Locks, Awaiting
      <4> QED
        BY <2>4, <2>5, <4>1
    <3>2. ASSUME NEW p \in Producers, Awaiting(p), split PROVE FALSE
      BY <2>4, <3>2 DEF Handshake
    <3> QED
      BY <2>4, <2>5, <3>1, <3>2 DEF Handshake, Awaiting
  <2> QED
    BY <2>1, <2>2, <2>3, <2>6, <2>7
<1>15. CASE WorkerLatch
  <2>1. TypeOK'
    BY <1>15 DEF WorkerLatch, TypeOK, SlotNos, Storing, Working, Entries, Wrap, IsFoot,
       WorkerView
  <2>2. (OneCaller /\ Locks /\ Stored /\ Lifetime)'
    BY <1>15 DEF WorkerLatch, OneCaller, Busy, TypeOK, Locks, Storing, Working, WorkerView,
       Stored, SlotNos, Lifetime
  <2>3. (Geometry /\ WorkerView)'
    BY <1>15 DEF WorkerLatch, TypeOK, OneCaller, Locks, Busy, WorkerView, Working, Geometry,
       Live, Released, Filling, Storing, Wrap, IsFoot, Ahead, SlotNos, EntriesLive, Lifetime,
       Entries
  <2>4. (EntriesLive /\ SplitLast /\ Handshake)'
    BY <1>15 DEF WorkerLatch, TypeOK, SlotNos, OneCaller, Busy, Locks, Stored, Geometry, Live,
       Released, Filling, WorkerView, EntriesLive, At, Done, Awaiting, Working, Storing, Wrap,
       IsFoot, Ahead, Entries, SplitLast, Handshake
  <2> QED
    BY <2>1, <2>2, <2>3, <2>4
<1>16. CASE WorkerNotify
  <2>1. TypeOK'
    BY <1>16 DEF WorkerNotify, TypeOK, SlotNos, Storing, Working, Entries, Wrap, IsFoot,
       WorkerView
  <2>2. (OneCaller /\ Locks /\ Stored /\ Lifetime)'
    BY <1>16 DEF WorkerNotify, OneCaller, Busy, TypeOK, Locks, Storing, Working, WorkerView,
       Stored, SlotNos, Lifetime
  <2>3. (Geometry /\ WorkerView)'
    BY <1>16 DEF WorkerNotify, TypeOK, OneCaller, Locks, Busy, WorkerView, Working, Geometry,
       Live, Released, Filling, Storing, Wrap, IsFoot, Ahead, SlotNos, EntriesLive, Lifetime,
       Entries
  <2>4. SplitLast'
    BY <1>16 DEF WorkerNotify, TypeOK, SlotNos, OneCaller, Busy, Locks, Stored, Geometry, Live,
       Released, Filling, WorkerView, SplitLast, At, Done, Awaiting, Working, Storing, Wrap,
       IsFoot, Ahead, Entries
  <2>5. Handshake'
    <3>1. Live > 0 /\ Done = 0 /\ Done' = 1 /\ Live' = Live /\ Live \in Nat
      BY <1>16 DEF WorkerNotify, TypeOK, WorkerView, Working, Live, Released, Done
    <3>2. At(0) \in Splits
      BY <1>16 DEF WorkerNotify, TypeOK, WorkerView, Working, At, Wrap, IsFoot, Ahead, SlotNos
    <3>3. Live = 1
      BY <3>1, <3>2 DEF SplitLast
    <3>4. \A q \in Producers : ~(pc'[q] \in Storing /\ node'[q] \in Splits)
      BY <1>16 DEF WorkerNotify, TypeOK, Locks, Storing
    <3> QED
      BY <1>16, <3>1, <3>3, <3>4 DEF WorkerNotify, Handshake
  <2>6. EntriesLive'
    BY <1>16 DEF WorkerNotify, TypeOK, SlotNos, OneCaller, Busy, Locks, Stored, Geometry, Live,
       Released, Filling, WorkerView, EntriesLive, At, Done, Awaiting, Working, Storing, Wrap,
       IsFoot, Ahead, Entries
  <2> QED
    BY <2>1, <2>2, <2>3, <2>4, <2>5, <2>6
<1>17. CASE WorkerPrune
  <2>1. TypeOK'
    BY <1>17 DEF WorkerPrune, TypeOK, SlotNos, Storing, Working, Entries, Wrap, IsFoot,
       WorkerView
  <2>2. (OneCaller /\ Locks /\ Stored /\ Lifetime)'
    BY <1>17 DEF WorkerPrune, OneCaller, Busy, TypeOK, Locks, Storing, Working, WorkerView,
       Stored, SlotNos, Lifetime
  <2>3. (Geometry /\ WorkerView)'
    BY <1>17 DEF WorkerPrune, TypeOK, OneCaller, Locks, Busy, WorkerView, Working, Geometry,
       Live, Released, Filling, Storing, Wrap, IsFoot, Ahead, SlotNos, EntriesLive, Lifetime,
       Entries
  <2>4. (EntriesLive /\ SplitLast /\ Handshake)'
    BY <1>17 DEF WorkerPrune, TypeOK, SlotNos, OneCaller, Busy, Locks, Stored, Geometry, Live,
       Released, Filling, WorkerView, EntriesLive, At, Done, Awaiting, Working, Storing, Wrap,
       IsFoot, Ahead, Entries, SplitLast, Handshake
  <2> QED
    BY <2>1, <2>2, <2>3, <2>4
<1>18. CASE WorkerAdvance
  <2>a. /\ apply_addr \in SlotNos
        /\ apply_addr' = apply_addr + 1 /\ ring' = ring
        /\ Live' = Live - 1 /\ Live \in 1 .. Slots /\ Done = 1 /\ Done' = 0
    BY <1>18 DEF WorkerAdvance, TypeOK, WorkerView, Live, Released, Done, SlotNos
  <2>b. ASSUME NEW i \in 0 .. Live - 2
        PROVE  At(i)' = At(i + 1)
    BY <2>a, AheadNext DEF At, SlotNos, Wrap, IsFoot
  <2>1. TypeOK'
    BY <1>18 DEF WorkerAdvance, TypeOK, SlotNos, Storing, Working, Entries, Wrap, IsFoot,
       WorkerView
  <2>2. (OneCaller /\ Locks /\ Stored /\ Lifetime)'
    BY <1>18 DEF WorkerAdvance, OneCaller, Busy, TypeOK, Locks, Storing, Working, WorkerView,
       Stored, SlotNos, Lifetime
  <2>3. WorkerView'
    BY <1>18 DEF WorkerAdvance, TypeOK, WorkerView, Working
  <2>c. /\ UNCHANGED <<cur_addr, memory_used, pc, slot>>
        /\ Filling' <=> Filling
    BY <1>18 DEF WorkerAdvance, Filling
  <2>d. \A n \in 0 .. Slots - 1 : Ahead(Wrap(apply_addr)', n) = Ahead(Wrap(apply_addr), n + 1)
    BY <2>a, AheadNext DEF SlotNos, Wrap, IsFoot
  <2>e. Geometry'
    <3>1. Filling => memory_used < Slots /\ Live <= memory_used
      BY DEF Geometry, Live, Released, TypeOK
    <3>2. Wrap(cur_addr)' = Ahead(Wrap(apply_addr)', IF Filling THEN Live' + 1 ELSE Live')
      <4>1. CASE Filling
        BY <2>a, <2>c, <2>d, <3>1, <4>1 DEF Geometry, TypeOK, Wrap
      <4>2. CASE ~Filling
        BY <2>a, <2>c, <2>d, <4>2 DEF Geometry, TypeOK, Wrap
      <4> QED
        BY <4>1, <4>2
    <3>3. \A p \in Producers : pc[p] \in {"latch"} \cup Storing =>
            slot[p] = Ahead(Wrap(apply_addr)', Live')
      BY <2>a, <2>d, <3>1 DEF Geometry, Filling, TypeOK
    <3> QED
      BY <2>a, <2>c, <3>2, <3>3 DEF Geometry
  <2>4. EntriesLive'
    BY <2>a, <2>b DEF EntriesLive
  <2>5. SplitLast'
    <3> SUFFICES ASSUME NEW i \in Done' .. Live' - 1, At(i)' \in Splits
                 PROVE  i = Live' - 1 /\ \E p \in Producers : Awaiting(p)'
      BY DEF SplitLast
    <3>1. i + 1 \in Done .. Live - 1 /\ At(i + 1) \in Splits
      BY <2>a, <2>b
    <3>2. i + 1 = Live - 1 /\ \E p \in Producers : Awaiting(p)
      BY <3>1 DEF SplitLast
    <3> QED
      BY <1>18, <2>a, <3>2 DEF WorkerAdvance, Awaiting
  <2>6. Handshake'
    <3>1. Live > Done => At(Live - 1)' = At(Live - 1)
      BY <2>a, AheadNext DEF At, SlotNos, Wrap, IsFoot
    <3>2. UNCHANGED <<pc, node, split>>
      BY <1>18 DEF WorkerAdvance, prodVars, lockVars
    <3> QED
      BY <2>a, <3>1, <3>2 DEF Handshake, Awaiting
  <2> QED
    BY <2>1, <2>2, <2>3, <2>e, <2>4, <2>5, <2>6
<1>19. CASE WorkerRelease
  <2>1. TypeOK'
    BY <1>19 DEF WorkerRelease, TypeOK, SlotNos, Storing, Working, Entries, Wrap, IsFoot,
       WorkerView
  <2>2. Lifetime'
    BY <1>19 DEF WorkerRelease, Lifetime, WorkerView, Busy
  <2>3. (OneCaller /\ Locks /\ Stored)'
    BY <1>19 DEF WorkerRelease, OneCaller, Busy, TypeOK, Locks, Storing, Working, WorkerView,
       Stored, SlotNos
  <2>4. (Geometry /\ WorkerView)'
    BY <1>19 DEF WorkerRelease, TypeOK, OneCaller, Locks, Busy, WorkerView, Working, Geometry,
       Live, Released, Filling, Storing, Wrap, IsFoot, Ahead, SlotNos, EntriesLive, Lifetime,
       Entries
  <2>5. (EntriesLive /\ SplitLast /\ Handshake)'
    BY <1>19 DEF WorkerRelease, TypeOK, SlotNos, OneCaller, Busy, Locks, Stored, Geometry, Live,
       Released, Filling, WorkerView, EntriesLive, At, Done, Awaiting, Working, Storing, Wrap,
       IsFoot, Ahead, Entries, SplitLast, Handshake
  <2> QED
    BY <2>1, <2>2, <2>3, <2>4, <2>5
<1>20. CASE WorkerFault \/ ClosePool \/ Unmap \/ Finish \/ Free
  <2>a. /\ UNCHANGED <<ring, dirty, cur_addr, memory_used, mut, split_mut, split, pc, slot, node,
                       apply_addr, wpc, tmp, bt>>
        /\ life' \in Stages
    BY <1>20 DEF WorkerFault, ClosePool, Unmap, Finish, Free, Stages
  <2>b. life # "open" \/ \A p \in Producers : ~Busy(p)
    BY <1>20 DEF WorkerFault, ClosePool, Unmap, Finish, Free, Busy, TreeMapped, RingMapped,
       WorkerView, Working, Alive
  <2> QED
    BY <2>a, <2>b DEF TypeOK, OneCaller, Locks, Geometry, Stored, WorkerView, EntriesLive,
       SplitLast, Handshake, Lifetime, Busy, Live, Released, Filling, Wrap, IsFoot, Ahead, At,
       Done, Awaiting
<1>21. CASE Crash
  <2>1. TypeOK'
    <3>1. ring' \in [SlotNos -> Entries \cup {Blank}]
      BY <1>21 DEF Crash, TypeOK
    <3>2. /\ slot' \in [Producers -> SlotNos] /\ node' \in [Producers -> Entries \cup {Blank}]
          /\ pc' = [p \in Producers |-> "idle"]
      BY <1>21 DEF Crash, SlotNos
    <3>3. /\ cur_addr' = 0 /\ apply_addr' = 0 /\ memory_used' = 0 /\ dirty' = {}
          /\ mut' = Nobody /\ split_mut' = Nobody /\ split' = FALSE
          /\ wpc' = "top" /\ tmp' = Blank /\ life' = "open" /\ bt' = bt
      BY <1>21 DEF Crash
    <3>4. pc' \in [Producers -> {"idle", "lock", "spin", "latch", "check", "wait", "woken"}
                               \cup Storing]
      BY <3>2
    <3>5. bt' \in Seq(Entries) /\ life' \in Stages
      BY <3>3 DEF TypeOK, Stages
    <3> HIDE DEF IInv
    <3>6. /\ cur_addr' \in 0 .. Slots /\ apply_addr' \in 0 .. Slots
          /\ memory_used' \in 0 .. Slots
      <4>1. 0 \in 0 .. Slots
        BY SlotsAssumption
      <4> QED
        BY <3>3, <4>1
    <3>7. /\ mut' \in Producers \cup {Nobody} /\ split_mut' \in Producers \cup {Worker, Nobody}
          /\ wpc' = "top" /\ tmp' = Blank
          /\ dirty' \subseteq SlotNos /\ split' \in BOOLEAN
      BY <3>3
    <3> QED
      BY <3>1, <3>2, <3>4, <3>5, <3>6, <3>7 DEF TypeOK
  <2>2. (OneCaller /\ Locks /\ Stored /\ Lifetime)'
    BY <1>21 DEF Crash, OneCaller, Busy, TypeOK, Locks, Storing, Working, WorkerView, Stored,
       SlotNos, Lifetime
  <2>3. (Geometry /\ WorkerView)'
    BY <1>21 DEF Crash, TypeOK, OneCaller, Locks, Busy, WorkerView, Working, Geometry, Live,
       Released, Filling, Storing, Wrap, IsFoot, Ahead, SlotNos, EntriesLive, Lifetime, Entries
  <2>4. (EntriesLive /\ SplitLast /\ Handshake)'
    BY <1>21 DEF Crash, TypeOK, SlotNos, OneCaller, Busy, Locks, Stored, Geometry, Live,
       Released, Filling, WorkerView, EntriesLive, At, Done, Awaiting, Working, Storing, Wrap,
       IsFoot, Ahead, Entries, SplitLast, Handshake
  <2> QED
    BY <2>1, <2>2, <2>3, <2>4
<1>22. CASE UNCHANGED vars
  BY <1>22 DEF TypeOK, OneCaller, Locks, Geometry, Stored, WorkerView, EntriesLive, SplitLast, Handshake, Lifetime, Busy, Live, Released, Filling, Wrap, IsFoot, Ahead, At, Done, Awaiting
<1> QED
  BY <1>1, <1>2, <1>3, <1>4, <1>5, <1>6, <1>7, <1>8, <1>9, <1>10, <1>11, <1>12, <1>13, <1>14, <1>15, <1>16, <1>17, <1>18, <1>19, <1>20, <1>21, <1>22 DEF Next, Run, ProducerStep, WorkerStep

(* The callers, the mutexes, the addresses and the worker stay in step.    *)
THEOREM Invariance == Spec => []IInv
  BY InitIInv, StepIInv, PTL DEF Spec

(* Every variable keeps its type; in particular memory_used_ never exceeds *)
(* the capacity and both addresses stay within the ring.                   *)
THEOREM TypeCorrect == Spec => []TypeOK
<1>1. IInv => TypeOK
  BY DEF IInv
<1> QED
  BY Invariance, <1>1, PTL

-----------------------------------------------------------------------------
(* The ring implements the queue of LogQueue: each step of the log is one  *)
(* step of the queue or leaves it alone.                                   *)

(* The queue that Pending reads off the ring, in terms of the live slots.  *)
QueueView ==
  /\ Live \in 0 .. Slots /\ Done \in 0 .. 1 /\ Done <= Live
  /\ Pending = [i \in 1 .. Live - Done |-> At(Done + i - 1)]
  /\ Pending \in Seq(Entries)
  /\ Len(Pending) = Live - Done

LEMMA OldestAhead ==
  ASSUME IInv, NEW i \in 1 .. Live - Done
  PROVE  Ahead(Oldest, i - 1) = Ahead(Wrap(apply_addr), Done + i - 1)
<1> USE SlotsAssumption
<1>1. Live \in 0 .. Slots /\ Done \in 0 .. 1 /\ Wrap(apply_addr) \in SlotNos
  BY DEF IInv, TypeOK, Geometry, Done, SlotNos, Wrap, IsFoot
<1>2. CASE Done = 1
  <2>1. Oldest = Ahead(Wrap(apply_addr), 1)
    BY <1>2 DEF Done, Oldest
  <2>2. i \in 1 .. Slots - 1
    BY <1>1, <1>2
  <2> QED
    BY <1>1, <1>2, <2>1, <2>2 DEF Ahead, SlotNos
<1>3. CASE Done = 0
  BY <1>1, <1>3 DEF Done, Oldest
<1> QED
  BY <1>1, <1>2, <1>3

LEMMA PendingIsLive == IInv => QueueView
<1> SUFFICES ASSUME IInv PROVE QueueView
  OBVIOUS
<1> USE SlotsAssumption
<1>1. /\ Live \in 0 .. Slots /\ Done \in 0 .. 1 /\ Done <= Live
      /\ memory_used - Passed = Live - Done
  BY DEF IInv, TypeOK, Geometry, WorkerView, Live, Done, Released, Passed
<1>2. Pending = [i \in 1 .. Live - Done |-> At(Done + i - 1)]
  BY <1>1, OldestAhead DEF Pending, At
<1>3. \A i \in 1 .. Live - Done : At(Done + i - 1) \in Entries
  BY <1>1 DEF IInv, EntriesLive
<1> QED
  BY <1>1, <1>2, <1>3 DEF QueueView

(* No step changes the bytes of a live slot.                               *)
LEMMA RingKept ==
  ASSUME IInv, [Next]_vars, NEW i \in 0 .. Live - 1
  PROVE  ring'[Ahead(Wrap(apply_addr), i)] = At(i)
<1> USE SlotsAssumption
<1> DEFINE here == Ahead(Wrap(apply_addr), i)
<1>1. Wrap(apply_addr) \in SlotNos /\ i \in 0 .. Slots - 1 /\ here \in SlotNos
  <2>1. Wrap(apply_addr) \in SlotNos
    BY DEF IInv, TypeOK, SlotNos, Wrap, IsFoot
  <2>2. i \in 0 .. Slots - 1
    BY DEF IInv, Geometry
  <2> QED
    BY <2>1, <2>2, AheadIsSlot
<1>2. ASSUME NEW p \in Producers, pc[p] \in {"latch"} \cup Storing
      PROVE  slot[p] # here
  <2>1. Live \in 0 .. Slots - 1 /\ slot[p] = Ahead(Wrap(apply_addr), Live)
    BY <1>2 DEF IInv, TypeOK, Geometry, Filling, Live, Released
  <2> QED
    BY <1>1, <2>1, AheadDistinct
<1>3. ASSUME NEW p \in Producers, Copy(p) PROVE ring'[here] = ring[here]
  BY <1>1, <1>2, <1>3 DEF Copy, Storing, IInv, TypeOK
<1>4. CASE Crash
  <2>1. here \notin dirty
    BY <1>2 DEF IInv, Stored, Storing
  <2> QED
    BY <1>1, <1>4, <2>1 DEF Crash, At
<1>5. CASE ring' = ring
  BY <1>5 DEF At
<1> QED
  BY <1>3, <1>4, <1>5
  DEF Next, Run, ProducerStep, WorkerStep, Call, LockMut, Allocate, Latch, Persist, Publish,
      Check, Relock, WakeSpuriously, WorkerWrap, WorkerRead, WorkerExit, WorkerApply,
      WorkerLatch, WorkerNotify, WorkerPrune, WorkerAdvance, WorkerRelease, WorkerFault, ClosePool, Unmap, Finish, Free,
      vars, ringVars, At

(* A caller's Publish accepts its entry.                                   *)
LEMMA PublishAccepts ==
  ASSUME IInv, IInv', NEW p \in Producers, Publish(p)
  PROVE  Queue!Accept(node[p]) /\ node[p] \in Entries
<1> USE SlotsAssumption
<1>1. /\ At(Live) = node[p] /\ node[p] \in Entries
      /\ Live' = Live + 1 /\ Done' = Done /\ Live < Slots
      /\ \A i \in 0 .. Live : At(i)' = At(i)
  BY DEF IInv, Publish, TypeOK, Locks, Busy, Geometry, Filling, Stored, Storing, At, Live,
         Released, Done, ringVars, workVars
<1>2. QueueView /\ QueueView'
  BY PendingIsLive, PTL
<1>3. Pending' = Append(Pending, node[p])
  BY <1>1, <1>2 DEF QueueView
<1> QED
  BY <1>1, <1>2, <1>3 DEF Queue!Accept, QueueView, Publish, workVars

(* The worker's effect on the tree takes the oldest entry.                 *)
LEMMA EffectApplies ==
  ASSUME IInv, IInv', WorkerApply \/ WorkerNotify
  PROVE  Queue!Apply
<1> USE SlotsAssumption
<1>1. /\ bt' = Append(bt, tmp) /\ ring' = ring /\ apply_addr' = apply_addr
      /\ memory_used' = memory_used /\ wpc \in Working /\ wpc' \in {"prune", "advance"}
  BY DEF WorkerApply, WorkerNotify, ringVars, Working
<1>2. Live > 0 /\ Live' = Live /\ Done = 0 /\ Done' = 1 /\ Wrap(apply_addr) = apply_addr
      /\ apply_addr \in SlotNos /\ tmp = ring[apply_addr]
  BY <1>1 DEF IInv, TypeOK, WorkerView, Working, Live, Released, Done, Wrap, IsFoot, SlotNos
<1>3. At(0) = tmp
  BY <1>2 DEF At, Ahead, SlotNos
<1>4. QueueView /\ QueueView'
  BY PendingIsLive, PTL
<1>5. Pending # <<>> /\ Head(Pending) = tmp
  BY <1>2, <1>3, <1>4 DEF QueueView
<1>6. Pending' = Tail(Pending)
  <2>1. Pending' = [i \in 1 .. Live - 1 |-> At(i)]
    BY <1>1, <1>2, <1>4 DEF QueueView, At
  <2>2. Tail(Pending) = [i \in 1 .. Live - 1 |-> At(i)]
    BY <1>2, <1>4 DEF QueueView
  <2> QED
    BY <2>1, <2>2
<1> QED
  BY <1>1, <1>5, <1>6 DEF Queue!Apply

(* Moving on to the next slot keeps the queue: apply_addr_ and             *)
(* memory_used_ change in two steps, and neither is visible.               *)
LEMMA AdvanceStutters ==
  ASSUME IInv, IInv', WorkerAdvance
  PROVE  UNCHANGED <<Pending, bt>>
<1> USE SlotsAssumption
<1>1. /\ apply_addr \in SlotNos /\ apply_addr' = apply_addr + 1
      /\ ring' = ring /\ bt' = bt
      /\ Live' = Live - 1 /\ Live \in 1 .. Slots /\ Done = 1 /\ Done' = 0
  BY DEF WorkerAdvance, IInv, TypeOK, Geometry, WorkerView, Live, Released, Done, SlotNos, ringVars
<1>2. QueueView /\ QueueView'
  BY PendingIsLive, PTL
<1>3. \A i \in 0 .. Live - 2 : At(i)' = At(i + 1)
  BY <1>1, AheadNext DEF At, SlotNos, Wrap, IsFoot
<1>4. Pending = [i \in 1 .. Live - 1 |-> At(i)]
  BY <1>1, <1>2 DEF QueueView
<1>5. Pending' = [i \in 1 .. Live - 1 |-> At(i - 1)']
  BY <1>1, <1>2 DEF QueueView, At
<1> QED
  BY <1>1, <1>3, <1>4, <1>5

(* A store into the slot being filled is not visible either.               *)
LEMMA CopyStutters ==
  ASSUME IInv, IInv', [Next]_vars, NEW p \in Producers, Copy(p)
  PROVE  UNCHANGED <<Pending, bt>>
<1>1. QueueView /\ QueueView'
  BY PendingIsLive, PTL
<1>2. Live' = Live /\ Done' = Done /\ apply_addr' = apply_addr /\ bt' = bt
  BY DEF Copy, Live, Released, Done, workVars
<1>3. \A i \in 0 .. Live - 1 : At(i)' = At(i)
  BY <1>2, RingKept DEF At
<1> QED
  BY <1>1, <1>2, <1>3 DEF QueueView

(* After a crash the restarted log is empty.                               *)
LEMMA CrashLoses ==
  ASSUME IInv', Crash
  PROVE  Queue!Lose
<1>1. QueueView'
  BY PendingIsLive, PTL
<1>2. Live' = 0 /\ Done' = 0 /\ bt' = bt
  BY DEF Crash, Live, Released, Done
<1> QED
  BY <1>1, <1>2 DEF Queue!Lose, QueueView

(* What every step of the log is to the queue.                             *)
LEMMA StepRefines == IInv /\ IInv' /\ [Next]_vars => [Queue!Next]_(Queue!vars)
<1> SUFFICES ASSUME IInv, IInv', [Next]_vars PROVE Queue!Next \/ UNCHANGED <<Pending, bt>>
  BY DEF Queue!vars
<1>1. ASSUME NEW p \in Producers, Copy(p) PROVE UNCHANGED <<Pending, bt>>
  BY <1>1, CopyStutters
<1>2. ASSUME NEW p \in Producers, Publish(p) PROVE Queue!Next
  BY <1>2, PublishAccepts DEF Queue!Next
<1>3. CASE WorkerApply \/ WorkerNotify
  BY <1>3, EffectApplies DEF Queue!Next
<1>4. CASE WorkerAdvance
  BY <1>4, AdvanceStutters
<1>5. CASE WorkerRelease
  BY <1>5 DEF WorkerRelease, Pending, Oldest, Passed, ringVars, IInv, TypeOK, WorkerView
<1>6. CASE Crash
  BY <1>6, CrashLoses DEF Queue!Next
<1>7. ASSUME NEW p \in Producers,
             \/ \E e \in Entries : Call(p, e)
             \/ LockMut(p) \/ Allocate(p) \/ Latch(p) \/ Persist(p) \/ Check(p)
             \/ Relock(p) \/ WakeSpuriously(p)
      PROVE  UNCHANGED <<Pending, bt>>
  BY <1>7 DEF Call, LockMut, Allocate, Latch, Persist, Check, Relock, WakeSpuriously, Pending,
              Oldest, Passed, ringVars, workVars
<1>8. CASE \/ WorkerWrap \/ WorkerRead \/ WorkerExit \/ WorkerLatch \/ WorkerPrune
           \/ WorkerFault \/ ClosePool \/ Unmap \/ Finish \/ Free \/ UNCHANGED vars
  BY <1>8 DEF WorkerWrap, WorkerRead, WorkerExit, WorkerLatch, WorkerPrune, WorkerFault, ClosePool,
              Unmap, Finish, Free, vars, Pending, Oldest, Passed, Wrap, IsFoot, ringVars, workVars, IInv, WorkerView
<1> QED
  BY <1>1, <1>2, <1>3, <1>4, <1>5, <1>6, <1>7, <1>8 DEF Next, Run, ProducerStep, WorkerStep

-----------------------------------------------------------------------------
(* The log is a bounded FIFO queue in front of the tree: operations reach  *)
(* the tree once, in the order they were accepted, never more than Slots   *)
(* of them wait, and a crash loses exactly those that wait.                *)
THEOREM LogImplementsQueue == Spec => QueueSpec
<1>1. Init => Queue!Init
  BY DEF Init, Queue!Init, Pending, Passed
<1> QED
  BY <1>1, Invariance, StepRefines, PTL DEF Spec, QueueSpec, Queue!Spec

(* No step, a crash included, changes the slot of an operation that was    *)
(* accepted and has not reached the tree.                                  *)
THEOREM LiveSlotsAreKept == Spec => LiveSlotsKept
<1>1. ASSUME IInv, [Next]_vars
      PROVE  \A i \in DOMAIN Pending : ring'[Ahead(Oldest, i - 1)] = Pending[i]
  <2> SUFFICES ASSUME NEW i \in DOMAIN Pending
               PROVE  ring'[Ahead(Oldest, i - 1)] = Pending[i]
    OBVIOUS
  <2>1. QueueView
    BY <1>1, PendingIsLive
  <2>2. i \in 1 .. Live - Done /\ Pending[i] = At(Done + i - 1)
    BY <2>1 DEF QueueView
  <2>3. Ahead(Oldest, i - 1) = Ahead(Wrap(apply_addr), Done + i - 1)
    BY <1>1, <2>1, <2>2, OldestAhead
  <2>4. Done + i - 1 \in 0 .. Live - 1
    BY <2>1, <2>2 DEF QueueView
  <2> QED
    BY <1>1, <2>2, <2>3, <2>4, RingKept
<1> QED
  BY <1>1, Invariance, PTL DEF Spec, LiveSlotsKept

(* While split_ is raised for a caller still in Split, the log has nothing *)
(* left that the tree or the new node lacks.                               *)
THEOREM SplitWaitsForAll == Spec => []SplitIsBarrier
<1>1. IInv => SplitIsBarrier
  <2> SUFFICES ASSUME IInv, NEW p \in Producers, split, Awaiting(p) PROVE Pending = <<>>
    BY DEF SplitIsBarrier, Awaiting
  <2> QED
    BY PendingIsLive DEF QueueView, IInv, Handshake
<1> QED
  BY Invariance, <1>1, PTL
=============================================================================
