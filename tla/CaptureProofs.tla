---------------------------- MODULE CaptureProofs ----------------------------
(***************************************************************************)
(* The capture engine, for any size of the track buffer and of the FIFOs.  *)
(* IInv is inductive: each of its parts has a lemma here, with one step for*)
(* each action.  The invariants of Capture and the implementation of       *)
(* CaptureService follow from it.                                          *)
(***************************************************************************)
EXTENDS Capture, TLAPS, SequenceTheorems, FiniteSetTheorems

\* Groups of variables, and what can be on the FIFOs.
USE DEF core0, fifos, gating, sampler

\* A queue of depth one is full after one message and empty after taking it.
LEMMA OneMessage == \A m : /\ Append(<<>>, m) = <<m>> /\ <<m>> # <<>>
                           /\ Head(<<m>>) = m /\ Tail(<<m>>) = <<>>
                           /\ Len(<<m>>) = 1 /\ Len(<<>>) = 0
  OBVIOUS

\* No word count is taken for another message.
LEMMA Codes == /\ CAP_MSG_READY \notin 0 .. Words /\ CAP_REQ_GO \notin 0 .. Words
               /\ CAP_RESP_FAIL \notin 0 .. Words
  BY SizeAssumption DEF CAP_MSG_READY, CAP_REQ_GO, CAP_RESP_FAIL

\* The turns of the two cores.
LEMMA TurnStep == ASSUME IInv, Next PROVE TurnInv'
<1> USE DEF IInv, TurnInv, Served
<1>1. CASE Gate
  BY <1>1 DEF Gate
<1>2. CASE Gating
  BY <1>2 DEF Gating
<1>3. CASE Command
  BY <1>3 DEF Command, NeedsLaunch, AfterLaunch
<1>4. CASE Launched
  BY <1>4 DEF Launched, TypeOK
<1>5. CASE Seek
  BY <1>5 DEF Seek
<1>6. CASE OpenGate
  BY <1>6 DEF OpenGate
<1>7. CASE Request
  BY <1>7 DEF Request
<1>8. CASE Answered
  BY <1>8, OneMessage DEF Answered
<1>9. CASE CloseGate
  BY <1>9 DEF CloseGate
<1>10. CASE EngineReady
  <2>1. pc0 = "launch" /\ to0 = <<>> /\ to1 = <<>> /\ ~started
    BY <1>10 DEF EngineReady, TypeOK
  <2>2. to0' = <<CAP_MSG_READY>>
    BY <1>10, <2>1, OneMessage DEF EngineReady
  <2> QED BY <1>10, <2>1, <2>2 DEF EngineReady
<1>11. CASE Serve
  BY <1>11 DEF Serve, CAP_REQ_GO
<1>12. CASE Arm
  BY <1>12 DEF Arm
<1>13. CASE IndexSeen
  BY <1>13 DEF IndexSeen
<1>14. CASE IndexTimeout
  BY <1>14 DEF IndexTimeout
<1>15. CASE PulseOff
  BY <1>15 DEF PulseOff
<1>16. CASE PulseOn
  BY <1>16 DEF PulseOn
<1>17. CASE TrackDone
  BY <1>17 DEF TrackDone
<1>18. CASE TrackTimeout
  BY <1>18 DEF TrackTimeout
<1>19. CASE StopSampling
  BY <1>19 DEF StopSampling
<1>20. CASE Respond
  <2>1. pc0 = "wait" /\ to0 = <<>> /\ to1 = <<>> /\ started
    BY <1>20 DEF Respond, TypeOK
  <2> DEFINE m == IF result = 0 THEN CAP_RESP_FAIL ELSE result
  <2>2. m \in {CAP_RESP_FAIL} \cup 1 .. Words
    BY SizeAssumption DEF TypeOK
  <2>3. to0' = <<m>>
    BY <1>20, <2>1, OneMessage DEF Respond
  <2> QED BY <1>20, <2>1, <2>2, <2>3 DEF Respond
<1>21. CASE Sample
  BY <1>21 DEF Sample
<1>22. CASE Transfer
  BY <1>22 DEF Transfer
<1>23. CASE Expire
  BY <1>23 DEF Expire
<1> QED BY <1>1, <1>2, <1>3, <1>4, <1>5, <1>6, <1>7, <1>8, <1>9, <1>10, <1>11, <1>12, <1>13, <1>14, <1>15, <1>16, <1>17, <1>18, <1>19, <1>20, <1>21, <1>22, <1>23
       DEF Next, Console0, Core0, Core1, Drive

\* The gate and the pulses.
LEMMA GateStep == ASSUME IInv, Next PROVE GateInv'
<1> USE DEF IInv, TypeOK, TurnInv, Served, GateInv
<1>1. CASE Gate
  BY <1>1 DEF Gate
<1>2. CASE Gating
  BY <1>2 DEF Gating
<1>3. CASE Command
  BY <1>3 DEF Command, NeedsLaunch, AfterLaunch
<1>4. CASE Launched
  BY <1>4 DEF Launched
<1>5. CASE Seek
  BY <1>5 DEF Seek
<1>6. CASE OpenGate
  BY <1>6 DEF OpenGate
<1>7. CASE Request
  BY <1>7 DEF Request
<1>8. CASE Answered
  BY <1>8 DEF Answered
<1>9. CASE CloseGate
  BY <1>9 DEF CloseGate
<1>10. CASE EngineReady
  BY <1>10 DEF EngineReady
<1>11. CASE Serve
  BY <1>11 DEF Serve, CAP_REQ_GO
<1>12. CASE Arm
  BY <1>12 DEF Arm
<1>13. CASE IndexSeen
  BY <1>13 DEF IndexSeen, Polling
<1>14. CASE IndexTimeout
  BY <1>14 DEF IndexTimeout, Polling
<1>15. CASE PulseOff
  BY <1>15 DEF PulseOff, Polling
<1>16. CASE PulseOn
  BY <1>16 DEF PulseOn
<1>17. CASE TrackDone
  BY <1>17 DEF TrackDone, Polling
<1>18. CASE TrackTimeout
  BY <1>18 DEF TrackTimeout, Polling
<1>19. CASE StopSampling
  BY <1>19 DEF StopSampling
<1>20. CASE Respond
  BY <1>20 DEF Respond
<1>21. CASE Sample
  BY <1>21 DEF Sample
<1>22. CASE Transfer
  BY <1>22 DEF Transfer
<1>23. CASE Expire
  BY <1>23 DEF Expire
<1> QED BY <1>1, <1>2, <1>3, <1>4, <1>5, <1>6, <1>7, <1>8, <1>9, <1>10, <1>11, <1>12, <1>13, <1>14, <1>15, <1>16, <1>17, <1>18, <1>19, <1>20, <1>21, <1>22, <1>23
       DEF Next, Console0, Core0, Core1, Drive

\* The sampler: what is in it, and while it runs, is of this request.
LEMMA SampleStep == ASSUME IInv, Next PROVE SampleInv'
<1> USE DEF IInv, TurnInv, Served, SampleInv
<1>1. CASE Gate
  BY <1>1 DEF Gate
<1>2. CASE Gating
  BY <1>2 DEF Gating
<1>3. CASE Command
  BY <1>3 DEF Command, NeedsLaunch, AfterLaunch
<1>4. CASE Launched
  BY <1>4 DEF Launched
<1>5. CASE Seek
  BY <1>5 DEF Seek
<1>6. CASE OpenGate
  BY <1>6 DEF OpenGate
<1>7. CASE Request
  BY <1>7 DEF Request
<1>8. CASE Answered
  BY <1>8 DEF Answered
<1>9. CASE CloseGate
  BY <1>9 DEF CloseGate
<1>10. CASE EngineReady
  BY <1>10 DEF EngineReady
<1>11. CASE Serve
  BY <1>11, OneMessage DEF Serve
<1>12. CASE Arm
  BY <1>12, SizeAssumption DEF Arm, Flushed, Transfers
<1>13. CASE IndexSeen
  BY <1>13, SizeAssumption DEF IndexSeen, Polling
<1>14. CASE IndexTimeout
  BY <1>14 DEF IndexTimeout, Polling
<1>15. CASE PulseOff
  BY <1>15 DEF PulseOff
<1>16. CASE PulseOn
  BY <1>16 DEF PulseOn
<1>17. CASE TrackDone
  BY <1>17 DEF TrackDone
<1>18. CASE TrackTimeout
  BY <1>18 DEF TrackTimeout, Aborted
<1>19. CASE StopSampling
  BY <1>19 DEF StopSampling
<1>20. CASE Respond
  BY <1>20 DEF Respond
<1>21. CASE Sample
  <2> DEFINE bits == Append(isr, "now")
  <2>1. pc1 \in {"run", "stop"} /\ isr \in Seq({"now"}) /\ rx \in Seq({"now"})
    BY <1>21 DEF Sample
  <2>2. bits \in Seq({"now"}) /\ <<>> \in Seq({"now"}) /\ Append(rx, "now") \in Seq({"now"})
    BY <2>1
  <2>3. \A i \in 1 .. Len(bits) : bits[i] = "now"
    BY <2>2, ElementOfSeq
  <2>4. \/ isr' = bits /\ rx' = rx
        \/ isr' = <<>> /\ rx' = Append(rx, "now")
    BY <1>21, <2>3 DEF Sample
  <2>5. isr' \in Seq({"now"}) /\ rx' \in Seq({"now"})
    BY <2>1, <2>2, <2>4
  <2> QED BY <1>21, <2>1, <2>5 DEF Sample
<1>22. CASE Transfer
  <2>1. pc1 = "run" /\ left \in 1 .. Words /\ rx \in Seq({"now"}) /\ rx # <<>>
    BY <1>22, SizeAssumption DEF Transfer, TypeOK
  <2>2. rx' \in Seq({"now"})
    BY <1>22, <2>1 DEF Transfer
  <2>3. left' = left - 1 /\ (dma' <=> left > 1)
    BY <1>22 DEF Transfer
  <2>4. (dma' => left' > 0) /\ (~dma' => left' = 0)
    BY <2>1, <2>3, SizeAssumption
  <2> QED BY <1>22, <2>1, <2>2, <2>4 DEF Transfer
<1>23. CASE Expire
  BY <1>23 DEF Expire
<1> QED BY <1>1, <1>2, <1>3, <1>4, <1>5, <1>6, <1>7, <1>8, <1>9, <1>10, <1>11, <1>12, <1>13, <1>14, <1>15, <1>16, <1>17, <1>18, <1>19, <1>20, <1>21, <1>22, <1>23
       DEF Next, Console0, Core0, Core1, Drive

\* How many words of the buffer are of this request.
LEMMA BufferStep == ASSUME IInv, Next PROVE BufferInv'
<1> USE DEF IInv, TypeOK, TurnInv, Served, SampleInv, BufferInv, FreshUpTo, Filled
<1>1. CASE Gate
  BY <1>1 DEF Gate
<1>2. CASE Gating
  BY <1>2 DEF Gating
<1>3. CASE Command
  BY <1>3 DEF Command, NeedsLaunch, AfterLaunch
<1>4. CASE Launched
  BY <1>4 DEF Launched
<1>5. CASE Seek
  BY <1>5 DEF Seek
<1>6. CASE OpenGate
  BY <1>6 DEF OpenGate
<1>7. CASE Request
  <2>1. \A i \in Index : buf'[i] # "now"
    BY <1>7 DEF Request, Aged
  <2>2. pc0' = "wait" /\ pc1' = "pop" /\ to0' = <<>>
    BY <1>7 DEF Request
  <2>3. Filled' = 0
    BY <2>2
  <2> QED BY <2>1, <2>2, <2>3 DEF Index
<1>8. CASE Answered
  BY <1>8 DEF Answered
<1>9. CASE CloseGate
  BY <1>9 DEF CloseGate
<1>10. CASE EngineReady
  BY <1>10 DEF EngineReady
<1>11. CASE Serve
  BY <1>11, OneMessage DEF Serve
<1>12. CASE Arm
  BY <1>12, SizeAssumption DEF Arm, Flushed, Transfers
<1>13. CASE IndexSeen
  BY <1>13, SizeAssumption DEF IndexSeen, Polling
<1>14. CASE IndexTimeout
  BY <1>14 DEF IndexTimeout, Polling
<1>15. CASE PulseOff
  BY <1>15 DEF PulseOff
<1>16. CASE PulseOn
  BY <1>16 DEF PulseOn
<1>17. CASE TrackDone
  <2>1. left = 0 /\ pc0 = "wait" /\ Words - 0 = Words
    BY <1>17, SizeAssumption DEF TrackDone
  <2>2. Filled' = Filled /\ pc0' = pc0
    BY <1>17, <2>1 DEF TrackDone
  <2> QED BY <1>17, <2>1, <2>2 DEF TrackDone
<1>18. CASE TrackTimeout
  BY <1>18 DEF TrackTimeout, Aborted
<1>19. CASE StopSampling
  BY <1>19 DEF StopSampling
<1>20. CASE Respond
  <2>1. pc0 = "wait" /\ to0 = <<>> /\ result \in 0 .. Words
    BY <1>20 DEF Respond
  <2>2. to0' = <<IF result = 0 THEN CAP_RESP_FAIL ELSE result>>
    BY <1>20, <2>1, OneMessage DEF Respond
  <2>3. Filled' = result
    BY <1>20, <2>2, OneMessage, Codes DEF Respond
  <2>4. Filled = result
    BY <1>20 DEF Respond
  <2> QED BY <1>20, <2>1, <2>3, <2>4 DEF Respond
<1>21. CASE Sample
  BY <1>21 DEF Sample
<1>22. CASE Transfer
  <2> DEFINE n == Words - left
  <2>1. pc0 = "wait" /\ pc1 = "run" /\ left \in 1 .. Words /\ Head(rx) = "now"
    BY <1>22, SizeAssumption DEF Transfer
  <2>2. n \in Index /\ left' = left - 1
    BY <1>22, <2>1, SizeAssumption DEF Transfer, Index
  <2>3. Filled = n /\ Filled' = n + 1
    BY <1>22, <2>1, <2>2, SizeAssumption DEF Transfer
  <2>4. \A i \in Index : buf'[i] = "now" <=> i < n \/ i = n
    BY <1>22, <2>1, <2>2, <2>3 DEF Transfer
  <2>5. \A i \in Index : i < n + 1 <=> i < n \/ i = n
    BY <2>2 DEF Index
  <2>6. pc0' = "wait"
    BY <1>22, <2>1 DEF Transfer
  <2> QED BY <2>3, <2>4, <2>5, <2>6
<1>23. CASE Expire
  BY <1>23 DEF Expire
<1> QED BY <1>1, <1>2, <1>3, <1>4, <1>5, <1>6, <1>7, <1>8, <1>9, <1>10, <1>11, <1>12, <1>13, <1>14, <1>15, <1>16, <1>17, <1>18, <1>19, <1>20, <1>21, <1>22, <1>23
       DEF Next, Console0, Core0, Core1, Drive

\* The types.
LEMMA TypeStep == ASSUME IInv, Next PROVE TypeOK'
<1> USE DEF IInv, TypeOK, TurnInv, Served, SampleInv
<1>1. CASE Gate
  BY <1>1 DEF Gate
<1>2. CASE Gating
  BY <1>2 DEF Gating
<1>3. CASE Command
  BY <1>3 DEF Command, NeedsLaunch, AfterLaunch
<1>4. CASE Launched
  <2>1. to0' \in Seq(Messages)
    BY <1>4 DEF Launched
  <2> QED BY <1>4, <2>1 DEF Launched
<1>5. CASE Seek
  BY <1>5 DEF Seek
<1>6. CASE OpenGate
  BY <1>6 DEF OpenGate
<1>7. CASE Request
  <2>1. to1' \in Seq(Messages)
    BY <1>7 DEF Request, Messages
  <2>2. isr' \in Seq(Ages) /\ rx' \in Seq(Ages) /\ buf' \in [Index -> Ages]
    BY <1>7 DEF Request, Aged, Ages
  <2> QED BY <1>7, <2>1, <2>2 DEF Request
<1>8. CASE Answered
  <2>1. PICK m \in {CAP_RESP_FAIL} \cup 1 .. Words : to0 = <<m>>
    BY <1>8 DEF Answered
  <2>2. words' \in 0 .. Words /\ to0' = <<>>
    BY <1>8, <2>1, OneMessage, SizeAssumption DEF Answered
  <2> QED BY <1>8, <2>2 DEF Answered
<1>9. CASE CloseGate
  BY <1>9 DEF CloseGate
<1>10. CASE EngineReady
  BY <1>10 DEF EngineReady, Messages
<1>11. CASE Serve
  <2>1. to1' \in Seq(Messages) /\ result' \in 0 .. Words
    BY <1>11, SizeAssumption DEF Serve
  <2> QED BY <1>11, <2>1 DEF Serve
<1>12. CASE Arm
  <2>1. left' \in 0 .. Words
    BY <1>12, SizeAssumption DEF Arm, Transfers
  <2>2. isr' \in Seq(Ages) /\ rx' \in Seq(Ages)
    BY <1>12 DEF Arm, Flushed
  <2> QED BY <1>12, <2>1, <2>2 DEF Arm
<1>13. CASE IndexSeen
  BY <1>13, SizeAssumption DEF IndexSeen, Polling
<1>14. CASE IndexTimeout
  BY <1>14 DEF IndexTimeout, Polling
<1>15. CASE PulseOff
  BY <1>15 DEF PulseOff
<1>16. CASE PulseOn
  BY <1>16 DEF PulseOn
<1>17. CASE TrackDone
  <2>1. result' \in 0 .. Words
    BY <1>17, SizeAssumption DEF TrackDone
  <2> QED BY <1>17, <2>1 DEF TrackDone
<1>18. CASE TrackTimeout
  BY <1>18 DEF TrackTimeout, Aborted
<1>19. CASE StopSampling
  <2>1. result' \in 0 .. Words
    BY <1>19, SizeAssumption DEF StopSampling
  <2> QED BY <1>19, <2>1 DEF StopSampling
<1>20. CASE Respond
  BY <1>20 DEF Respond, Messages
<1>21. CASE Sample
  <2> DEFINE bits == Append(isr, "now")
             age == IF \A i \in 1 .. Len(bits) : bits[i] = "now" THEN "now" ELSE "old"
  <2>1. \/ isr' = bits /\ rx' = rx
        \/ isr' = <<>> /\ rx' = Append(rx, age)
    BY <1>21 DEF Sample
  <2>2. age \in Ages /\ bits \in Seq(Ages) /\ <<>> \in Seq(Ages)
    BY DEF Ages
  <2> HIDE DEF bits, age
  <2>4. Append(rx, age) \in Seq(Ages)
    BY <2>2
  <2>3. isr' \in Seq(Ages) /\ rx' \in Seq(Ages)
    BY <2>1, <2>2, <2>4 DEF TypeOK
  <2> QED BY <1>21, <2>3 DEF Sample
<1>22. CASE Transfer
  <2>1. left \in 1 .. Words /\ Head(rx) \in Ages /\ rx' \in Seq(Ages)
    BY <1>22, SizeAssumption DEF Transfer
  <2>2. left' \in 0 .. Words /\ dma' \in BOOLEAN
    BY <1>22, <2>1, SizeAssumption DEF Transfer
  <2>3. buf' \in [Index -> Ages]
    BY <1>22, <2>1 DEF Transfer
  <2> QED BY <1>22, <2>1, <2>2, <2>3 DEF Transfer
<1>23. CASE Expire
  BY <1>23 DEF Expire
<1> QED BY <1>1, <1>2, <1>3, <1>4, <1>5, <1>6, <1>7, <1>8, <1>9, <1>10, <1>11, <1>12, <1>13, <1>14, <1>15, <1>16, <1>17, <1>18, <1>19, <1>20, <1>21, <1>22, <1>23
       DEF Next, Console0, Core0, Core1, Drive


\* At the start nothing is on its way, nothing is sampled, nothing captured.
LEMMA Started == Init => IInv
<1> SUFFICES ASSUME Init PROVE IInv
  OBVIOUS
<1>1. TypeOK
  BY SizeAssumption DEF Init, TypeOK, Modes, Ages, Index
<1>2. TurnInv /\ GateInv /\ SampleInv
  BY DEF Init, TurnInv, GateInv, SampleInv
<1>3. \A i \in Index : buf[i] # "now" /\ ~(i < 0)
  BY SizeAssumption DEF Init, Index
<1>4. BufferInv
  BY <1>3 DEF Init, BufferInv, FreshUpTo, Filled
<1> QED BY <1>1, <1>2, <1>4 DEF IInv

\* Whatever the drive does and however captures end, the cores are in step, the
\* gate has one owner, and the buffer holds what the counters say.
THEOREM Inductive == Spec => []IInv
<1>1. IInv /\ [Next]_vars => IInv'
  <2>1. ASSUME IInv, Next PROVE IInv'
    BY <2>1, TypeStep, TurnStep, GateStep, BufferStep, SampleStep DEF IInv
  <2>2. ASSUME IInv, UNCHANGED vars PROVE IInv'
    BY <2>2 DEF vars, IInv, TypeOK, TurnInv, Served, GateInv, BufferInv, FreshUpTo, Filled,
                SampleInv
  <2> QED BY <2>1, <2>2
<1> QED BY <1>1, Started, PTL DEF Spec

\* Every register, the two queues and the answer always hold what the firmware can put there.
THEOREM TypeCorrect == Spec => []TypeOK
<1>1. IInv => TypeOK
  BY DEF IInv
<1> QED BY <1>1, Inductive, PTL

\* capture_run_blocking and capture_core_main take turns: no answer is taken for
\* another's, and neither core ever blocks on a full FIFO.
THEOREM CoresTakeTurns == Spec => []Lockstep
<1>1. IInv => Lockstep
  <2> SUFFICES ASSUME IInv PROVE Lockstep
    OBVIOUS
  <2>1. CASE to1 = <<>> /\ to0 = <<>>
    BY <2>1, OneMessage DEF Lockstep
  <2>2. CASE to1 # <<>> \/ to0 # <<>>
    <3>1. pc0 \in {"launch", "wait"}
      BY <2>2 DEF IInv, TypeOK, TurnInv
    <3>2. \/ to1 = <<>> /\ \E m \in {CAP_MSG_READY, CAP_RESP_FAIL} \cup 1 .. Words : to0 = <<m>>
          \/ to1 = <<CAP_REQ_GO>> /\ to0 = <<>>
      BY <2>2, <3>1 DEF IInv, TypeOK, TurnInv, Served
    <3>3. CASE to1 = <<CAP_REQ_GO>> /\ to0 = <<>>
      BY <3>1, <3>3, OneMessage DEF Lockstep
    <3>4. CASE to1 = <<>> /\ \E m \in {CAP_MSG_READY, CAP_RESP_FAIL} \cup 1 .. Words : to0 = <<m>>
      <4>1. PICK m : to0 = <<m>>
        BY <3>4
      <4>2. Len(to0) = 1 /\ Len(to1) = 0
        BY <3>4, <4>1, OneMessage
      <4> QED BY <3>1, <4>2 DEF Lockstep
    <3> QED BY <3>2, <3>3, <3>4
  <2> QED BY <2>1, <2>2
<1> QED BY <1>1, Inductive, PTL

\* gate_service never opens a gate that the console has closed.
THEOREM GateHasOneOwner == Spec => []GateObeyed
<1>1. IInv => GateObeyed
  BY DEF IInv, TypeOK, TurnInv, GateInv, GateObeyed
<1> QED BY <1>1, Inductive, PTL

\* An answer of n words: those and no others are of this request, whatever an
\* earlier capture left in the PIO, its FIFO and the DMA.
THEOREM NoStaleWords == Spec => []AnswerTrue
<1>1. IInv => AnswerTrue
  BY DEF IInv, BufferInv, FreshUpTo, AnswerTrue
<1> QED BY <1>1, Inductive, PTL

-----------------------------------------------------------------------------
(* The engine implements CaptureService, step by step.                     *)

\* As many words are fresh as the counters say.
LEMMA FreshCount ==
  ASSUME IInv, NEW n \in 0 .. Words, FreshUpTo(n) PROVE Service!Fresh = n
<1>1. {i \in Service!Index : buf[i] = "now"} = 0 .. n - 1
  BY SizeAssumption DEF FreshUpTo, Index, Service!Index
<1>2. Cardinality(0 .. n - 1) = n
  <2> DEFINE m == IF 0 > n - 1 THEN 0 ELSE n - 1 - 0 + 1
  <2>1. 0 \in Int /\ n - 1 \in Int
    BY SizeAssumption
  <2>2. Cardinality(0 .. n - 1) = m
    BY <2>1, FS_Interval, Zenon
  <2>3. m = n
    BY SizeAssumption
  <2> HIDE DEF m
  <2> QED BY <2>2, <2>3
<1>3. \A S : Service!Cardinality(S) = Cardinality(S)
  BY DEF Service!Cardinality, Cardinality
<1> QED BY <1>1, <1>2, <1>3 DEF Service!Fresh

\* The request of core 0 is the question asked of the service.
LEMMA AskMapped == ASSUME IInv, Request PROVE Service!Ask
  BY DEF Request, Service!Ask, Service!Older, Service!Index, Index, Aged

\* A block DMA moves is the service filling the buffer it owns.
LEMMA FillMapped == ASSUME IInv, Transfer PROVE Service!Fill
<1>1. pc0 = "wait" /\ pc1 = "run" /\ left \in 1 .. Words /\ Head(rx) = "now"
  BY SizeAssumption DEF IInv, TypeOK, TurnInv, SampleInv, Transfer
<1>2. Filled = Words - left /\ Words - left \in 0 .. Words
  BY <1>1, SizeAssumption DEF Filled
<1>3. Service!Fresh = Words - left
  BY <1>1, <1>2, FreshCount DEF IInv, BufferInv
<1>4. Words - left < Words
  BY <1>1, SizeAssumption
<1> QED BY <1>1, <1>3, <1>4 DEF Transfer, Service!Fill

\* The reply core 0 takes is the answer of the service.
LEMMA AnswerMapped == ASSUME IInv, Answered PROVE Service!Answer
<1>1. PICK m \in {CAP_RESP_FAIL} \cup 1 .. Words : pc1 = "pop" /\ to0 = <<m>>
  BY DEF IInv, TurnInv, Served, Answered
<1> DEFINE n == IF m = CAP_RESP_FAIL THEN 0 ELSE m
<1>2. words' = n /\ Filled = n /\ n \in 0 .. Words
  BY <1>1, OneMessage, SizeAssumption DEF Answered, Filled
<1>3. Service!Fresh = n
  BY <1>2, FreshCount DEF IInv, BufferInv, Answered
<1> QED BY <1>2, <1>3 DEF Answered, Service!Answer

\* capture.h's promise: the buffer fills from its start with words of this request,
\* the answer counts them, and nobody touches the buffer from then to the next one.
THEOREM Implements == Spec => ServiceKept
<1>1. Init => Service!Init
  BY DEF Init, Service!Init, Service!Index, Index
<1>2. IInv /\ [Next]_vars
        => [Service!Ask \/ Service!Fill \/ Service!Answer]_<<pc0 = "wait", buf, words>>
  <2> SUFFICES ASSUME IInv, [Next]_vars
               PROVE  \/ Service!Ask \/ Service!Fill \/ Service!Answer
                      \/ UNCHANGED <<pc0 = "wait", buf, words>>
    OBVIOUS
  <2>1. CASE Request
    BY <2>1, AskMapped
  <2>2. CASE Transfer
    BY <2>2, FillMapped
  <2>3. CASE Answered
    BY <2>3, AnswerMapped
  <2>4. CASE UNCHANGED vars
    BY <2>4 DEF vars
  <2>5. CASE Console0
    BY <2>5, SizeAssumption DEF Console0, Gate, Gating, Command, NeedsLaunch, AfterLaunch
  <2>6. CASE Launched \/ Seek \/ OpenGate \/ CloseGate
    BY <2>6 DEF Launched, Seek, OpenGate, CloseGate, IInv, TypeOK
  <2>7. CASE Core1
    BY <2>7 DEF Core1, EngineReady, Serve, Arm, IndexTimeout, PulseOn, TrackDone, TrackTimeout,
                StopSampling, Respond
  <2>8. CASE Drive \/ Expire
    BY <2>8 DEF Drive, IndexSeen, PulseOff, Sample, Expire
  <2> QED BY <2>1, <2>2, <2>3, <2>4, <2>5, <2>6, <2>7, <2>8 DEF Next, Core0
<1> QED BY <1>1, <1>2, Inductive, PTL DEF Spec, ServiceKept, Service!Spec
=============================================================================
