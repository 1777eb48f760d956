SPECIFICATION FairSpec
CONSTANTS
  Num = 2
  IdxSize = 8
INVARIANT RingInv
PROPERTY ImplementsBufferRing SenderServed
