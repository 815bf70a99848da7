\* Three words of two bits, an RX FIFO that fills before the DMA is done, and
\* room for two messages between the cores: two captures in a row meet every
\* remainder the first can leave in the sampler.
CONSTANTS
  Words = 3
  BitsPerWord = 2
  RxDepth = 2
  FifoDepth = 2
SPECIFICATION FairSpec
INVARIANTS IInv Lockstep GateObeyed AnswerTrue
PROPERTIES ServiceKept CommandEnds
