SPECIFICATION LiveSpec
CONSTANTS
  p1 = p1
  p2 = p2
  write = write
  delete = delete
  child = child
  blank = blank
  worker = worker
  nobody = nobody
  Slots = 2
  MaxOps = 4
  Producers <- MCProducers
  Plain <- MCPlain
  Splits <- MCSplits
  Blank = blank
  Worker = worker
  Nobody = nobody
INVARIANTS TypeOK SplitIsBarrier
PROPERTIES QueueSpec LiveSlotsKept CallsReturn Drains
