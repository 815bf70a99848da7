-------------------------------- MODULE Capture --------------------------------
(***************************************************************************)
(* The capture engine of the firmware: the console on core0 asks, through  *)
(* the inter-core FIFOs, for one INDEX-aligned track; core1 runs the PIO   *)
(* state machine and the DMA channel that fill the track buffer, and pulses*)
(* -READ GATE off and on while it waits.  The drive provides INDEX, SECTOR *)
(* MARK and the read clock, or stops providing them.                       *)
(*                                                                         *)
(* What a word holds does not matter; whether it belongs to the capture    *)
(* that was asked for last does.  Everything is "old" from the moment core0*)
(* asks for a capture; a bit sampled after that is "now".                  *)
(***************************************************************************)
EXTENDS Naturals, Sequences

CONSTANTS
  Words,     \* CAPTURE_WORDS, 3780
  BitsPerWord, \* the autopush threshold, 32
  RxDepth,   \* words the PIO's RX FIFO holds
  FifoDepth  \* messages an inter-core FIFO holds

ASSUME SizeAssumption  == Words \in Nat \ {0} /\ BitsPerWord \in Nat \ {0}
ASSUME DepthAssumption == RxDepth \in Nat \ {0} /\ FifoDepth \in Nat \ {0}

VARIABLES
  pc0,      \* core0: the console, and where it is in a command
  cmd,      \* the capture command it executes
  started,  \* s_core1_started
  words,    \* what capture_run_blocking returned last
  wanted,   \* history: what core0 last wrote to -READ GATE
  pc1,      \* core1
  result,   \* what capture_do returned
  to1, to0, \* the inter-core FIFOs
  mode,     \* s_gating_mode
  gate,     \* -READ GATE asserted at the drive
  pulse,    \* the gate pulse core1 is in: "none", "mark" or "data"
  pending,  \* g.data_pending
  late,     \* the deadline of the loop core1 is in has passed
  sm,       \* the PIO state machine is enabled
  isr,      \* bits in its input shift register
  rx,       \* words in its RX FIFO
  dma,      \* the DMA channel is busy
  left,     \* its TRANS_COUNT
  buf       \* s_track_buf

core0   == <<pc0, cmd, started, words, wanted>>
fifos   == <<to1, to0>>
gating  == <<pulse, pending>>
sampler == <<sm, isr, rx, dma, left, buf>>
vars    == <<pc0, cmd, started, words, wanted, pc1, result, to1, to0, mode, gate,
             pulse, pending, late, sm, isr, rx, dma, left, buf>>

Index == 0 .. Words - 1
Modes == {"off", "mark", "both"}
Ages  == {"none", "old", "now"}

\* The messages between the cores: codes no word count can be taken for.
CAP_MSG_READY == Words + 1
CAP_REQ_GO    == Words + 2
CAP_RESP_FAIL == Words + 3

Init ==
  /\ pc0 = "idle" /\ cmd = "capture" /\ started = FALSE /\ words = 0
  /\ wanted = FALSE /\ gate = FALSE
  /\ pc1 = "off" /\ result = 0
  /\ to1 = <<>> /\ to0 = <<>>
  /\ mode = "both" /\ pulse = "none" /\ pending = FALSE /\ late = FALSE
  /\ sm = FALSE /\ isr = <<>> /\ rx = <<>>
  /\ dma = FALSE /\ left = 0
  /\ buf = [i \in Index |-> "none"]

-----------------------------------------------------------------------------
(* core0: the console commands that touch the engine.                      *)

\* gate on|off
Gate ==
  /\ pc0 = "idle"
  /\ \E on \in BOOLEAN : gate' = on /\ wanted' = on
  /\ UNCHANGED <<pc0, cmd, started, words, pc1, result, fifos, mode, gating, late,
                 sampler>>

\* gating off|mark|both
Gating ==
  /\ pc0 = "idle"
  /\ mode' \in Modes
  /\ UNCHANGED <<core0, pc1, result, fifos, gate, gating, late, sampler>>

\* capture and capraw: the first of them launches core1, and waits for READY.
\* A core that runs already does not answer the launch handshake.
NeedsLaunch_Always == TRUE  \* mutant: launches core1 on every capture
NeedsLaunch == ~started
AfterLaunch_NoWait(c) == c  \* mutant: does not wait for READY
AfterLaunch(c) == "launch"
Command ==
  /\ pc0 = "idle"
  /\ \E c \in {"capture", "capraw"} :
       /\ cmd' = c
       /\ pc0' = IF NeedsLaunch THEN AfterLaunch(c) ELSE c
  /\ started' = (started /\ ~NeedsLaunch)
  /\ pc1' = IF NeedsLaunch /\ pc1 = "off" THEN "init" ELSE pc1
  /\ UNCHANGED <<words, wanted, result, fifos, mode, gate, gating, late, sampler>>

Launched ==
  /\ pc0 = "launch" /\ to0 # <<>>
  /\ to0' = Tail(to0)
  /\ IF Head(to0) = CAP_MSG_READY THEN started' = TRUE /\ pc0' = cmd
     ELSE UNCHANGED <<started, pc0>>
  /\ UNCHANGED <<cmd, words, wanted, pc1, result, to1, mode, gate, gating, late,
                 sampler>>

\* The seek of `capture`; when it fails the command ends, the gate as it was.
Seek ==
  /\ pc0 = "capture"
  /\ pc0' \in {"idle", "capraw"}
  /\ UNCHANGED <<cmd, started, words, wanted, pc1, result, fifos, mode, gate,
                 gating, late, sampler>>

\* Select the head, open the gate, let it settle.
OpenGate ==
  /\ pc0 = "capraw"
  /\ gate' = TRUE /\ wanted' = TRUE
  /\ pc0' = "settled"
  /\ UNCHANGED <<cmd, started, words, pc1, result, fifos, mode, gating, late,
                 sampler>>

\* capture_run_blocking: push GO, pop the answer.
Aged(age) == IF age = "now" THEN "old" ELSE age
Request ==
  /\ pc0 = "settled" /\ Len(to1) < FifoDepth
  /\ to1' = Append(to1, CAP_REQ_GO)
  /\ isr' = [i \in 1 .. Len(isr) |-> Aged(isr[i])]
  /\ rx'  = [i \in 1 .. Len(rx) |-> Aged(rx[i])]
  /\ buf' = [i \in Index |-> Aged(buf[i])]
  /\ pc0' = "wait"
  /\ UNCHANGED <<cmd, started, words, wanted, pc1, result, to0, mode, gate, gating,
                 late, sm, dma, left>>

Answered ==
  /\ pc0 = "wait" /\ to0 # <<>>
  /\ words' = IF Head(to0) = CAP_RESP_FAIL THEN 0 ELSE Head(to0)
  /\ to0' = Tail(to0)
  /\ pc0' = "close"
  /\ UNCHANGED <<cmd, started, wanted, pc1, result, to1, mode, gate, gating, late,
                 sampler>>

CloseGate ==
  /\ pc0 = "close"
  /\ gate' = FALSE /\ wanted' = FALSE
  /\ pc0' = "idle"
  /\ UNCHANGED <<cmd, started, words, pc1, result, fifos, mode, gating, late,
                 sampler>>

-----------------------------------------------------------------------------
(* core1: capture_core_main and capture_do.                                *)

\* capture_init, then READY.
EngineReady ==
  /\ pc1 = "init" /\ Len(to0) < FifoDepth
  /\ to0' = Append(to0, CAP_MSG_READY)
  /\ pc1' = "pop"
  /\ UNCHANGED <<core0, result, to1, mode, gate, gating, late, sampler>>

Serve ==
  /\ pc1 = "pop" /\ to1 # <<>>
  /\ to1' = Tail(to1)
  /\ result' = 0
  /\ pc1' = IF Head(to1) = CAP_REQ_GO THEN "arm" ELSE "respond"
  /\ UNCHANGED <<core0, to0, mode, gate, gating, late, sampler>>

\* Reset the state machine and its FIFO, re-arm the DMA at the buffer's start.
Flushed_Kept == rx          \* mutant: pio_sm_clear_fifos is forgotten
Flushed == <<>>
Transfers_OneMore == Words + 1  \* mutant: the transfer count is one too many
Transfers == Words
Arm ==
  /\ pc1 = "arm"
  /\ sm' = FALSE /\ isr' = <<>> /\ rx' = Flushed
  /\ left' = Transfers /\ pending' = FALSE
  /\ late' = FALSE
  /\ pc1' = "index"
  /\ UNCHANGED <<core0, result, fifos, mode, gate, pulse, dma, buf>>

\* wait_index_rising saw the edge: start the DMA, then enable the sampling.
\* core1 looks at nothing while it is in a gate pulse, which is a busy wait.
Polling_Always == TRUE  \* mutant: goes on with a pulse under way
Polling == pulse = "none"
IndexSeen ==
  /\ pc1 = "index" /\ Polling
  /\ dma' = TRUE /\ sm' = TRUE
  /\ late' = FALSE
  /\ pc1' = "run"
  /\ UNCHANGED <<core0, result, fifos, mode, gate, gating, isr, rx, left, buf>>

IndexTimeout ==
  /\ pc1 = "index" /\ Polling /\ late
  /\ pc1' = "respond"
  /\ UNCHANGED <<core0, result, fifos, mode, gate, gating, late, sampler>>

\* gate_service, polled in both loops: off at a SECTOR MARK, and again across
\* the data field's write splice.
PulseOff ==
  /\ pc1 \in {"index", "run"} /\ Polling /\ ~late
  /\ mode # "off"
  /\ pulse' \in IF pending THEN {"mark", "data"} ELSE {"mark"}
  /\ gate' = FALSE
  /\ UNCHANGED <<core0, pc1, result, fifos, mode, pending, late, sampler>>

PulseOn ==
  /\ pulse # "none"
  /\ pulse' = "none"
  /\ gate' = TRUE
  /\ pending' = (pulse = "mark" /\ mode = "both")
  /\ UNCHANGED <<core0, pc1, result, fifos, mode, late, sampler>>

TrackDone ==
  /\ pc1 = "run" /\ Polling /\ ~dma
  /\ sm' = FALSE
  /\ result' = Words
  /\ pc1' = "respond"
  /\ UNCHANGED <<core0, fifos, mode, gate, gating, late, isr, rx, dma, left, buf>>

\* The DMA wait is over: abort the channel (it may just have finished)...
Aborted_Not == dma  \* mutant: dma_channel_abort is forgotten
Aborted == FALSE
TrackTimeout ==
  /\ pc1 = "run" /\ Polling /\ late
  /\ dma' = Aborted
  /\ pc1' = "stop"
  /\ UNCHANGED <<core0, result, fifos, mode, gate, gating, late, sm, isr, rx, left,
                 buf>>

\* ...then stop the sampling and count what arrived.
StopSampling ==
  /\ pc1 = "stop"
  /\ sm' = FALSE
  /\ result' = Words - left
  /\ pc1' = "respond"
  /\ UNCHANGED <<core0, fifos, mode, gate, gating, late, isr, rx, dma, left, buf>>

Respond ==
  /\ pc1 = "respond" /\ Len(to0) < FifoDepth
  /\ to0' = Append(to0, IF result = 0 THEN CAP_RESP_FAIL ELSE result)
  /\ pc1' = "pop"
  /\ UNCHANGED <<core0, result, to1, mode, gate, gating, late, sampler>>

-----------------------------------------------------------------------------
(* The hardware.                                                           *)

\* A falling edge of READ/REF CLOCK: one bit, and with the last of a word an
\* autopush, which waits for room.
Sample ==
  /\ sm
  /\ LET bits == Append(isr, "now")
     IN  IF Len(bits) < BitsPerWord THEN isr' = bits /\ rx' = rx
         ELSE /\ Len(rx) < RxDepth
              /\ rx' = Append(rx, IF \A i \in 1 .. Len(bits) : bits[i] = "now"
                                  THEN "now" ELSE "old")
              /\ isr' = <<>>
  /\ UNCHANGED <<core0, pc1, result, fifos, mode, gate, gating, late, sm, dma, left,
                 buf>>

Transfer ==
  /\ dma /\ rx # <<>>
  /\ buf' = [buf EXCEPT ![Words - left] = Head(rx)]
  /\ rx' = Tail(rx)
  /\ left' = left - 1
  /\ dma' = (left > 1)
  /\ UNCHANGED <<core0, pc1, result, fifos, mode, gate, gating, late, sm, isr>>

Expire ==
  /\ pc1 \in {"index", "run"} /\ ~late
  /\ late' = TRUE
  /\ UNCHANGED <<core0, pc1, result, fifos, mode, gate, gating, sampler>>

-----------------------------------------------------------------------------
Console0 == Gate \/ Gating \/ Command
Core0 == Launched \/ Seek \/ OpenGate \/ Request \/ Answered \/ CloseGate
Core1 == EngineReady \/ Serve \/ Arm \/ IndexTimeout \/ PulseOn \/ TrackDone
           \/ TrackTimeout \/ StopSampling \/ Respond
Drive == IndexSeen \/ PulseOff \/ Sample

Next == Console0 \/ Core0 \/ Core1 \/ Drive \/ Transfer \/ Expire

Spec == Init /\ [][Next]_vars

\* Both cores run and time passes; the drive owes nothing.
FairSpec == Spec /\ WF_vars(Core0) /\ WF_vars(Core1) /\ WF_vars(Expire)

-----------------------------------------------------------------------------
Messages == {CAP_MSG_READY, CAP_REQ_GO, CAP_RESP_FAIL} \cup 1 .. Words

\* Every variable keeps its type; the FIFOs and the transfer count their range.
TypeOK ==
  /\ pc0 \in {"idle", "launch", "capture", "capraw", "settled", "wait", "close"}
  /\ cmd \in {"capture", "capraw"} /\ started \in BOOLEAN
  /\ words \in 0 .. Words /\ wanted \in BOOLEAN
  /\ pc1 \in {"off", "init", "pop", "arm", "index", "run", "stop", "respond"}
  /\ result \in 0 .. Words
  /\ to1 \in Seq(Messages) /\ to0 \in Seq(Messages)
  /\ mode \in Modes /\ gate \in BOOLEAN
  /\ pulse \in {"none", "mark", "data"} /\ pending \in BOOLEAN /\ late \in BOOLEAN
  /\ sm \in BOOLEAN /\ dma \in BOOLEAN
  /\ isr \in Seq(Ages) /\ rx \in Seq(Ages)
  /\ left \in 0 .. Words
  /\ buf \in [Index -> Ages]

\* The two cores take turns: at most one message is in flight, and only while
\* core0 waits for core1; so no answer is ever taken for another's, and
\* neither core blocks on a full FIFO.
Lockstep ==
  /\ Len(to1) + Len(to0) <= 1
  /\ to1 # <<>> \/ to0 # <<>> => pc0 \in {"launch", "wait"}

\* -READ GATE is what core0 last made it, except within a pulse of core1,
\* which falls only while core0 waits with the gate open: no pulse re-opens a
\* gate the console has closed.
GateObeyed ==
  /\ pulse = "none" => gate = wanted
  /\ pulse # "none" => pc0 = "wait" /\ wanted /\ ~gate

\* An answer of n words, 0 on failure, means that the first n words of the
\* buffer, and no others, were sampled for this request: `OK:` is never
\* printed over a stale track, whatever an earlier capture left in the
\* sampler when it timed out.
AnswerTrue ==
  pc0 # "wait" => \A i \in Index : buf[i] = "now" <=> i < words

\* Why the four hold: the turn each core has, step by step of a command; who
\* owns the gate; and how many words of this request are in the buffer.
Served ==
  \/ pc1 = "pop" /\ to1 = <<CAP_REQ_GO>> /\ to0 = <<>>
  \/ pc1 \in {"arm", "index", "run", "stop", "respond"} /\ to1 = <<>> /\ to0 = <<>>
  \/ /\ pc1 = "pop" /\ to1 = <<>>
     /\ \E m \in {CAP_RESP_FAIL} \cup 1 .. Words : to0 = <<m>>
TurnInv ==
  /\ pc0 = "idle" => pc1 = IF started THEN "pop" ELSE "off"
  /\ pc0 = "launch" => /\ ~started /\ to1 = <<>>
                       /\ \/ pc1 = "init" /\ to0 = <<>>
                          \/ pc1 = "pop" /\ to0 = <<CAP_MSG_READY>>
  /\ pc0 \in {"capture", "capraw", "settled", "close"} => started /\ pc1 = "pop"
  /\ pc0 \notin {"launch", "wait"} => to1 = <<>> /\ to0 = <<>>
  /\ pc0 = "wait" => started /\ Served

GateInv ==
  /\ pulse = "none" => gate = wanted
  /\ pulse # "none" => wanted /\ ~gate /\ pc1 \in {"index", "run"}
  /\ pc0 \in {"settled", "wait", "close"} => wanted

Filled == CASE pc1 \in {"index", "run", "stop"} -> Words - left
            [] pc1 = "respond"                  -> result
            [] /\ pc1 = "pop" /\ to0 # <<>>
               /\ Head(to0) # CAP_RESP_FAIL     -> Head(to0)
            [] OTHER                            -> 0
FreshUpTo(n) == \A i \in Index : buf[i] = "now" <=> i < n
BufferInv == FreshUpTo(IF pc0 = "wait" THEN Filled ELSE words)
SampleInv ==
  /\ pc1 \in {"arm", "index", "run"} => result = 0
  /\ pc1 = "index" => left = Words /\ isr = <<>> /\ rx = <<>>
  /\ dma => pc1 = "run" /\ left > 0
  /\ pc1 = "run" /\ ~dma => left = 0
  /\ sm => pc1 \in {"run", "stop"}
  /\ pc1 \in {"run", "stop"} => isr \in Seq({"now"}) /\ rx \in Seq({"now"})

IInv == TypeOK /\ TurnInv /\ GateInv /\ BufferInv /\ SampleInv

\* The engine implements what capture.h promises.
Service == INSTANCE CaptureService WITH busy <- pc0 = "wait", buffer <- buf, answer <- words
ServiceKept == Service!Spec

\* The console gets its prompt back, whether INDEX or the clock ever come.
CommandEnds == pc0 # "idle" ~> pc0 = "idle"
=============================================================================
