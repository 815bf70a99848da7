-------------------------------- MODULE PriamBus --------------------------------
(***************************************************************************)
(* The drive operations of the firmware: the console commands that write   *)
(* the PRIAM registers (up, down, seek, capture, stair, id, reset, reg w), *)
(* one step per register access, and the drive that executes them on its   *)
(* own time while the firmware polls its Status register.                  *)
(*                                                                         *)
(* The drive is external.  What is assumed of it: BUSY is up when the      *)
(* command strobe ends; a register write it cannot take sets COMMAND       *)
(* REJECT, which stays until it takes a command (priam_proto.h); the bits  *)
(* that are invalid while BUSY read as anything; and a DRIVE FAULT may come*)
(* at any moment while it spins.                                           *)
(***************************************************************************)
EXTENDS Naturals, FiniteSets

CONSTANTS
  PRIAM_MAX_CYLINDER,  \* 524
  PRIAM_NUM_HEADS,     \* 5
  Low,                 \* cylinders told apart by the lower address byte, 256
  Wrap                 \* values of a uint16_t, 65536

ASSUME MaxAssumption  == PRIAM_MAX_CYLINDER \in Nat \ {0}
ASSUME LowAssumption  == Low \in Nat \ {0} /\ PRIAM_NUM_HEADS \in Nat \ {0}
ASSUME WrapAssumption == Wrap \in Nat /\ Wrap > PRIAM_MAX_CYLINDER + 1

Cylinders == 0 .. PRIAM_MAX_CYLINDER
Uint16    == 0 .. Wrap - 1
Upper(c)  == c \div Low
Lower(c)  == c % Low
Bytes     == {Upper(c) : c \in Uint16} \cup {Lower(c) : c \in Uint16}

\* Numbers and heads a user may type, past every limit.
Typed == 0 .. Wrap + PRIAM_MAX_CYLINDER
Heads == 0 .. PRIAM_NUM_HEADS

Commands == {"SEQUENCE_UP", "SEQUENCE_DOWN", "RESTORE", "SEEK", "FAULT_RESET", "READ_DRIVE_ID"}
Latched  == {"SEEK_COMPLETE", "SEEK_FAULT", "COMMAND_REJECT"}  \* invalid while BUSY

VARIABLES
  \* the drive
  doing,    \* the command it executes, "none" when BUSY is clear
  ready,    \* READY
  spinning, \* the spindle turns
  fault,    \* DRIVE FAULT
  latched,  \* the other bits, as they will read when BUSY is clear
  target,   \* Target Address registers
  current,  \* Current Address registers
  at,       \* the cylinder the carriage is on
  head,     \* the head select lines
  \* the firmware
  op,       \* the console command, "none" at the prompt
  pc,       \* where it is
  typed,    \* the number typed
  cyl,      \* the cylinder priam_seek was given
  code,     \* the command code to strobe
  askHead,  \* capture: the head typed
  late,     \* the deadline of the wait loop has passed
  leg, step,\* stair: the seek of this step, and the step
  up,       \* seek_verified: the upper byte read back
  \* history
  settled,  \* the drive was idle when the seek began
  failed,   \* a wait of this command failed
  verified  \* cylinders verified in this staircase

drive == <<doing, ready, spinning, fault, latched, target, current, at>>
call  == <<op, typed, askHead>>
past  == <<settled, failed, verified>>
vars  == <<doing, ready, spinning, fault, latched, target, current, at, head, op, pc,
           typed, cyl, code, askHead, late, leg, step, up, settled, failed,
           verified>>

Init ==
  /\ doing = "none" /\ ready = FALSE /\ spinning = FALSE /\ fault = FALSE
  /\ latched = {} /\ target = <<0, 0>> /\ current = <<0, 0>> /\ at = 0 /\ head = 0
  /\ op = "none" /\ pc = "prompt" /\ typed = 0 /\ cyl = 0 /\ code = "SEEK" /\ askHead = 0
  /\ late = FALSE /\ leg = "home" /\ step = 1 /\ up = 0
  /\ settled = TRUE /\ failed = FALSE /\ verified = {}

-----------------------------------------------------------------------------
(* The drive.                                                              *)

\* A Status register read.
Status ==
  {s \in SUBSET (Latched \cup {"READY", "BUSY", "DRIVE_FAULT"}) :
     /\ "READY" \in s <=> ready
     /\ "BUSY" \in s <=> doing # "none"
     /\ "DRIVE_FAULT" \in s <=> fault
     /\ doing = "none" => s \cap Latched = latched}

\* Target Address writes need a READY drive.
WriteTarget(i, byte) ==
  IF ready /\ doing = "none" THEN target' = [target EXCEPT ![i] = byte] /\ latched' = latched
  ELSE target' = target /\ latched' = latched \cup {"COMMAND_REJECT"}

Takes(c) ==
  /\ doing = "none"
  /\ fault => c = "FAULT_RESET"
  /\ c = "SEEK" => ready /\ target[1] * Low + target[2] \in Cylinders
  /\ c = "RESTORE" => spinning

\* READY drops during a seek, a restore and a sequence.
Strobed(c) ==
  IF Takes(c)
  THEN /\ doing' = c /\ latched' = {}
       /\ ready' = (ready /\ c \in {"FAULT_RESET", "READ_DRIVE_ID"})
       /\ spinning' = (spinning \/ c = "SEQUENCE_UP")
  ELSE latched' = latched \cup {"COMMAND_REJECT"} /\ UNCHANGED <<doing, ready, spinning>>

\* The command ends.  A rejected write meanwhile has left its bit.
DriveDone ==
  /\ doing # "none"
  /\ doing' = "none"
  /\ CASE doing = "SEEK" ->
            /\ at' = target[1] * Low + target[2] /\ current' = target /\ ready' = ~fault
            /\ latched' = latched \cup {"SEEK_COMPLETE"} /\ UNCHANGED <<spinning, fault>>
       [] doing \in {"SEQUENCE_UP", "RESTORE"} ->
            /\ at' = 0 /\ current' = <<0, 0>> /\ ready' = ~fault
            /\ latched' = latched \cup {"SEEK_COMPLETE"} /\ UNCHANGED <<spinning, fault>>
       [] doing = "RESET" ->
            /\ at' = 0 /\ current' = <<0, 0>> /\ ready' = TRUE
            /\ latched' = latched \cup {"SEEK_COMPLETE"}
            /\ fault' = FALSE /\ spinning' = spinning
       [] doing = "SEQUENCE_DOWN" ->
            spinning' = FALSE /\ UNCHANGED <<ready, fault, latched, current, at>>
       [] doing = "FAULT_RESET" ->
            fault' = FALSE /\ UNCHANGED <<ready, spinning, latched, current, at>>
       [] doing = "READ_DRIVE_ID" ->
            /\ current' \in {<<current[1], b>> : b \in Bytes}
            /\ UNCHANGED <<ready, spinning, fault, latched, at>>
  /\ UNCHANGED <<target, head, op, pc, typed, cyl, code, askHead, late, leg, step,
                 up, past>>

\* A seek or a restore that fails leaves the carriage anywhere.
SeekFails ==
  /\ doing \in {"SEEK", "RESTORE", "RESET"}
  /\ doing' = "none" /\ latched' = latched \cup {"SEEK_FAULT"}
  /\ ready' \in BOOLEAN /\ at' \in Cylinders
  /\ UNCHANGED <<spinning, fault, target, current, head, op, pc, typed, cyl, code,
                 askHead, late, leg, step, up, past>>

DriveFaults ==
  /\ spinning /\ ~fault
  /\ fault' = TRUE /\ doing' \in {doing, "none"}
  /\ ready' = FALSE /\ at' \in Cylinders
  /\ UNCHANGED <<spinning, latched, target, current, head, op, pc, typed, cyl, code,
                 askHead, late, leg, step, up, past>>

-----------------------------------------------------------------------------
(* The console.                                                            *)

\* (uint16_t)atoi(c)
Parsed(n) == n % Wrap

Begin(command, next) ==
  /\ pc = "prompt"
  /\ op' = command /\ pc' = next
  /\ UNCHANGED <<drive, head, late, up, past>>

\* Back to the prompt: what the command had on the stack is gone.
Return ==
  /\ pc' = "prompt" /\ op' = "none"
  /\ typed' = 0 /\ cyl' = 0 /\ code' = "SEEK" /\ askHead' = 0
  /\ late' = FALSE /\ leg' = "home" /\ step' = 1 /\ up' = 0
  /\ settled' = TRUE /\ failed' = FALSE /\ verified' = {}

SeekCommand ==
  /\ Begin("seek", "seek")
  /\ \E n \in Typed : typed' = n /\ cyl' = Parsed(n)
  /\ UNCHANGED <<code, askHead, leg, step>>

CaptureCommand ==
  /\ Begin("capture", "seek")
  /\ \E n \in Typed : typed' = n /\ cyl' = Parsed(n)
  /\ askHead' \in Heads
  /\ UNCHANGED <<code, leg, step>>

\* The first seek of a step of the staircase goes to cylinder 0.
StairCommand ==
  /\ Begin("stair", "key")
  /\ leg' = "home" /\ step' = 1
  /\ UNCHANGED <<typed, cyl, code, askHead>>

\* up, down and id strobe a command and poll.
StrobeCommand ==
  /\ \E c \in {"SEQUENCE_UP", "SEQUENCE_DOWN", "READ_DRIVE_ID"} :
       Begin(c, "strobe") /\ code' = c
  /\ UNCHANGED <<typed, cyl, askHead, leg, step>>

\* reg w <ad> <byte>: any command, without waiting for it, or half an address.
RegWrite ==
  /\ pc = "prompt"
  /\ \/ /\ \E c \in Commands : Strobed(c)
        /\ UNCHANGED target
     \/ /\ \E i \in {1, 2}, byte \in Bytes : WriteTarget(i, byte)
        /\ UNCHANGED <<doing, ready, spinning>>
  /\ UNCHANGED <<fault, current, at, head, op, pc, typed, cyl, code, askHead, late,
                 leg, step, up, past>>

\* head <n>
Selected_OffByOne(h) == IF h > PRIAM_NUM_HEADS THEN 0 ELSE h  \* mutant: one head too many
Selected(h) == IF h >= PRIAM_NUM_HEADS THEN 0 ELSE h
HeadCommand ==
  /\ pc = "prompt"
  /\ \E h \in Heads : head' = Selected(h)
  /\ UNCHANGED <<drive, op, pc, typed, cyl, code, askHead, late, leg, step, up, past>>

\* Pulse -RESET: a drive that spins faults, restores and clears the fault.
Reset ==
  /\ pc = "prompt"
  /\ IF spinning /\ doing # "SEQUENCE_DOWN"
     THEN doing' = "RESET" /\ fault' = TRUE /\ ready' = FALSE /\ latched' = {}
     ELSE UNCHANGED <<doing, fault, ready, latched>>
  /\ UNCHANGED <<spinning, target, current, at, head, op, pc, typed, cyl, code, askHead,
                 late, leg, step, up, past>>

-----------------------------------------------------------------------------
(* priam_seek, priam_sequence_up, priam_sequence_down, priam_wait_not_busy *)

SeekRange ==
  /\ pc = "seek"
  /\ settled' = (doing = "none")
  /\ pc' = IF cyl > PRIAM_MAX_CYLINDER THEN "fail" ELSE "upper"
  /\ UNCHANGED <<drive, head, call, cyl, code, late, leg, step, up, failed, verified>>

SeekUpper ==
  /\ pc = "upper" /\ WriteTarget(1, Upper(cyl))
  /\ pc' = "lower"
  /\ UNCHANGED <<doing, ready, spinning, fault, current, at, head, call, cyl, code,
                 late, leg, step, up, past>>

SeekLower ==
  /\ pc = "lower" /\ WriteTarget(2, Lower(cyl))
  /\ code' = "SEEK" /\ pc' = "strobe"
  /\ UNCHANGED <<doing, ready, spinning, fault, current, at, head, call, cyl, late,
                 leg, step, up, past>>

Strobe ==
  /\ pc = "strobe" /\ Strobed(code)
  /\ late' = FALSE /\ pc' = "poll"
  /\ UNCHANGED <<fault, target, current, at, head, call, cyl, code, leg, step, up,
                 past>>

\* What a wait makes of a status: "done", "fail", or "sleep" and look again.  The wait of `id`
\* is for BUSY alone, and id goes on whatever comes of it.
Wanted(c) == CASE c = "SEQUENCE_UP"   -> {"READY", "SEEK_COMPLETE"}
               [] c = "SEEK"          -> {"SEEK_COMPLETE"}
               [] OTHER               -> {}
Verdict_WhileBusy(c, s) ==  \* mutant: judges the bits that are invalid while BUSY
  IF "DRIVE_FAULT" \in s \/ s \cap {"COMMAND_REJECT", "SEEK_FAULT"} # {} THEN "fail"
  ELSE IF "BUSY" \notin s /\ Wanted(c) \subseteq s THEN "done" ELSE "sleep"
Verdict_Busy(c, s) ==  \* mutant: does not wait for BUSY to clear
  IF "DRIVE_FAULT" \in s THEN "fail"
  ELSE IF Wanted(c) \subseteq s THEN "done" ELSE "sleep"
Verdict_NoReject(c, s) ==  \* mutant: COMMAND REJECT is not looked at
  IF "DRIVE_FAULT" \in s THEN "fail"
  ELSE IF "BUSY" \notin s /\ Wanted(c) \subseteq s THEN "done" ELSE "sleep"
Verdict(c, s) ==
  CASE c = "READ_DRIVE_ID" -> IF "BUSY" \in s THEN "sleep" ELSE "done"
    [] OTHER -> IF "DRIVE_FAULT" \in s THEN "fail"
                ELSE IF "BUSY" \in s THEN "sleep"
                ELSE IF s \cap {"COMMAND_REJECT", "SEEK_FAULT"} # {} THEN "fail"
                ELSE IF Wanted(c) \subseteq s THEN "done" ELSE "sleep"
Poll ==
  /\ pc = "poll"
  /\ \E s \in Status : pc' = Verdict(code, s)
  /\ UNCHANGED <<drive, head, call, cyl, code, late, leg, step, up, past>>

\* sleep_ms, then the deadline.
Woken_Forever(isLate) == "poll"  \* mutant: polls until the drive answers
Woken(isLate) == IF isLate THEN "fail" ELSE "poll"
Wake ==
  /\ pc = "sleep"
  /\ pc' = Woken(late)
  /\ UNCHANGED <<drive, head, call, cyl, code, late, leg, step, up, past>>

Expire ==
  /\ pc \in {"poll", "sleep"} /\ ~late
  /\ late' = TRUE
  /\ UNCHANGED <<drive, head, call, pc, cyl, code, leg, step, up, past>>

\* The wait is over: report, or go on with capture or stair.
AfterFail_Ignored(o) ==  \* mutant: stair ignores what seek_verified returns
  IF o = "stair" THEN "verified" ELSE "end"
AfterFail(o) == "end"
AfterDone(o) == CASE o = "capture" -> "select" [] o = "stair" -> "read" [] OTHER -> "end"
Waited ==
  /\ pc \in {"done", "fail"}
  /\ pc' = IF pc = "done" THEN AfterDone(op) ELSE AfterFail(op)
  /\ failed' = (failed \/ pc = "fail")
  /\ UNCHANGED <<drive, head, call, cyl, code, late, leg, step, up, settled, verified>>

End == pc = "end" /\ Return /\ UNCHANGED <<drive, head>>

-----------------------------------------------------------------------------
(* capture                                                                 *)

\* priam_select_head, the gate, and the engine (module Capture).
Select ==
  /\ pc = "select"
  /\ head' = Selected(askHead)
  /\ pc' = "sampling"
  /\ UNCHANGED <<drive, call, cyl, code, late, leg, step, up, past>>

Sampled ==
  /\ pc = "sampling" /\ pc' = "end"
  /\ UNCHANGED <<drive, head, call, cyl, code, late, leg, step, up, past>>

-----------------------------------------------------------------------------
(* stair                                                                   *)

\* Any key aborts before a step; a step seeks to 0, then out.
StairStep ==
  /\ pc = "key"
  /\ pc' \in {"seek", "end"}
  /\ cyl' = 0
  /\ UNCHANGED <<drive, head, call, code, late, leg, step, up, past>>

\* Current Address, one register and then the other.
ReadUpper ==
  /\ pc = "read"
  /\ up' = current[1]
  /\ pc' = "compare"
  /\ UNCHANGED <<drive, head, call, cyl, code, late, leg, step, past>>

Same_Lower(upper, lower) == lower = Lower(cyl)  \* mutant: the upper byte is not compared
Same(upper, lower) == upper = Upper(cyl) /\ lower = Lower(cyl)
ReadLower ==
  /\ pc = "compare"
  /\ IF Same(up, current[2]) THEN pc' = "verified" /\ failed' = failed
     ELSE pc' = "end" /\ failed' = TRUE
  /\ UNCHANGED <<drive, head, call, cyl, code, late, leg, step, up, settled, verified>>

\* The seek after this one: out, the next step's, or home for the last time.
More_Short(s) == s + 1 < PRIAM_MAX_CYLINDER  \* mutant: stops a cylinder early
More(s) == s < PRIAM_MAX_CYLINDER
Verified ==
  /\ pc = "verified"
  /\ verified' = verified \cup {cyl}
  /\ CASE leg = "home" -> leg' = "out" /\ cyl' = step /\ pc' = "seek" /\ step' = step
       [] leg = "out" /\ More(step) ->
            leg' = "home" /\ step' = step + 1 /\ pc' = "key" /\ cyl' = cyl
       [] leg = "out" /\ ~More(step) ->
            leg' = "last" /\ cyl' = 0 /\ pc' = "seek" /\ step' = step
       [] leg = "last" -> pc' = "complete" /\ UNCHANGED <<leg, step, cyl>>
  /\ UNCHANGED <<drive, head, call, code, late, up, settled, failed>>

Complete == pc = "complete" /\ Return /\ UNCHANGED <<drive, head>>

-----------------------------------------------------------------------------
Console == SeekCommand \/ CaptureCommand \/ StairCommand \/ StrobeCommand \/ RegWrite
             \/ HeadCommand \/ Reset
Firmware == SeekRange \/ SeekUpper \/ SeekLower \/ Strobe \/ Poll \/ Wake \/ Waited \/ End
              \/ Select \/ Sampled \/ StairStep \/ ReadUpper \/ ReadLower \/ Verified
              \/ Complete
Drive == DriveDone \/ SeekFails \/ DriveFaults

Next == Console \/ Firmware \/ Drive \/ Expire

Spec == Init /\ [][Next]_vars

\* The firmware runs and time passes; the drive owes nothing.
FairSpec == Spec /\ WF_vars(Firmware) /\ WF_vars(Expire)

-----------------------------------------------------------------------------
\* Every variable keeps its type: no address outside the drive is executed.
TypeOK ==
  /\ doing \in Commands \cup {"none", "RESET"}
  /\ ready \in BOOLEAN /\ spinning \in BOOLEAN /\ fault \in BOOLEAN
  /\ latched \subseteq Latched
  /\ target \in Bytes \X Bytes /\ current \in Bytes \X Bytes
  /\ at \in Cylinders /\ head \in 0 .. PRIAM_NUM_HEADS - 1
  /\ op \in Commands \cup {"none", "seek", "capture", "stair"}
  /\ pc \in {"prompt", "seek", "upper", "lower", "strobe", "poll", "sleep", "done",
             "fail", "end", "select", "sampling", "key", "read", "compare",
             "verified", "complete"}
  /\ typed \in Typed /\ cyl \in Uint16 /\ code \in Commands /\ askHead \in Heads
  /\ late \in BOOLEAN
  /\ leg \in {"home", "out", "last"} /\ step \in 1 .. PRIAM_MAX_CYLINDER
  /\ up \in Bytes
  /\ settled \in BOOLEAN /\ failed \in BOOLEAN /\ verified \subseteq Cylinders

\* A seek that was begun on an idle drive and is reported OK has arrived, and
\* a capture samples the cylinder and head it was asked for: the wait took no
\* status that was stale, fluttering, or of another command.
OnTrack ==
  settled /\ ~fault =>
    /\ pc = "done" /\ op \in {"seek", "capture", "stair"} => at = cyl
    /\ pc = "sampling" => at = cyl /\ (askHead < PRIAM_NUM_HEADS => head = askHead)

\* The staircase's readback leaves no doubt, however the seek began: with a
\* command still under way, half of the target address may have been refused. And
\* "staircase complete: cylinders 0..524 all verified" is printed only then.
StairVerified ==
  /\ pc = "verified" /\ ~fault => at = cyl
  /\ pc = "complete" => verified = Cylinders

\* `up` reported OK leaves a drive at cylinder 0 and READY, `down` a drive that
\* has stopped.
SequenceTrue ==
  pc = "done" /\ ~fault =>
    /\ op = "SEQUENCE_UP" => ready /\ at = 0
    /\ op = "SEQUENCE_DOWN" => ~spinning

\* Why they hold: who is at which point of which command; what the wait can
\* count on of the drive; how far the staircase is; and how a failed wait ends.
Seekers == {"seek", "capture", "stair"}
Address(r) == r[1] * Low + r[2]
Aim     == <<Upper(cyl), Lower(cyl)>>
Refused == latched \cap {"COMMAND_REJECT", "SEEK_FAULT"} # {}

ControlInv ==
  /\ doing = "SEEK" => Address(target) \in Cylinders
  /\ pc \in {"seek", "upper", "lower"} => op \in Seekers
  /\ pc \in {"strobe", "poll", "sleep", "done"} =>
       IF op \in Seekers THEN code = "SEEK"
       ELSE code = op /\ op \in {"SEQUENCE_UP", "SEQUENCE_DOWN", "READ_DRIVE_ID"}
  /\ pc \in {"select", "sampling"} => op = "capture" /\ code = "SEEK"
  /\ pc \in {"read", "compare", "verified"} => op = "stair" /\ code = "SEEK"
  /\ pc \in {"key", "complete"} => op = "stair"
  /\ failed => pc = "end"

\* A seek begun on an idle drive that is READY at its strobe was so all along.
AimInv ==
  /\ settled /\ pc \in {"upper", "lower"} => doing = "none"
  /\ settled /\ pc = "strobe" /\ op \in Seekers => doing = "none"
  /\ settled /\ ready /\ pc = "lower" => target[1] = Upper(cyl)
  /\ settled /\ ready /\ pc = "strobe" /\ op \in Seekers => target = Aim

\* A command that is not refused is executed, as far as no fault comes; and
\* nobody gives the drive another before the prompt.
Outcome == CASE code = "SEEK"          -> current = target /\ at = Address(target)
             [] code = "SEQUENCE_UP"   -> ready /\ at = 0
             [] code = "SEQUENCE_DOWN" -> ~spinning
             [] OTHER                  -> TRUE
Arrived == doing = "none" /\ (fault \/ Outcome)
Aimed   == code = "SEEK" /\ settled => target = Aim
WaitInv ==
  /\ pc \in {"poll", "sleep"} => Refused \/ ((doing = code \/ Arrived) /\ Aimed)
  /\ pc = "done" /\ code # "READ_DRIVE_ID" => Arrived /\ Aimed
  /\ pc \in {"select", "sampling", "read", "compare", "verified"} => Arrived /\ Aimed
  /\ pc = "sampling" => head = Selected(askHead)
  /\ pc = "compare" => up = current[1]
  /\ pc = "verified" => current = Aim

StairInv ==
  /\ pc = "prompt" => leg = "home" /\ step = 1 /\ verified = {}
  /\ pc = "key" => leg = "home"
  /\ op = "stair" /\ pc \notin {"key", "end"} => cyl = IF leg = "out" THEN step ELSE 0
  /\ op = "stair" => verified = CASE leg = "home" -> IF step = 1 THEN {} ELSE 0 .. step - 1
                                  [] leg = "out"  -> 0 .. step - 1
                                  [] leg = "last" -> Cylinders
  /\ pc = "complete" => leg = "last"

IInv == TypeOK /\ ControlInv /\ AimInv /\ WaitInv /\ StairInv

\* SAF-5: once a wait of a command has failed, that command strobes nothing.
NoBlindRetry == [][failed => UNCHANGED target /\ pc' # "strobe"]_vars

\* A wait that gives up before its deadline has a cause at the drive, not a
\* bit that flutters while BUSY.
FailHasCause ==
  [][pc = "poll" /\ pc' = "fail" =>
       \/ fault
       \/ doing = "none" /\ latched \cap {"COMMAND_REJECT", "SEEK_FAULT"} # {}]_vars

\* The prompt comes back, whatever the drive does or does not do.
PromptReturns == pc # "prompt" ~> pc = "prompt"
=============================================================================
