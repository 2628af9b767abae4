\* Safety and liveness of the result protocol: two threads, two sends of any kind (no symmetry: liveness is checked).
CONSTANTS
  q1 = q1
  q2 = q2
  q3 = q3
  NoQueue = NoQueue
  Queues <- MCQueues
  MaxSends = 2
SPECIFICATION FairSpec
INVARIANT ResultLinksConsistent
INVARIANT NoLeakedResult
INVARIANT NoResultOnDeadQueue
 
INVARIANT SenderWokenOnReply
INVARIANT SentMessagesSignalled
PROPERTY SettledOnce
\* every thread may exit, after which no request is left to serve
CHECK_DEADLOCK FALSE
PROPERTY TimedSendWakesSender
