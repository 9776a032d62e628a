\* Two competing readers, a ring of three slots, enough events to wrap it; liveness.
CONSTANTS
  EventQ = 3
  MaxEvents = 5
  r1 = r1
  r2 = r2
  Readers <- TwoReaders
  NoOwner = NoOwner
SPECIFICATION FairSpec
INVARIANTS RingHoldsNewest NoLostWakeup
PROPERTIES ImplementsLog ReadersServed SoleReaderNeverSeesEof
