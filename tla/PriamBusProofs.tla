---------------------------- MODULE PriamBusProofs ----------------------------
(***************************************************************************)
(* The drive operations, for any number of cylinders and heads and any     *)
(* split of an address over two bytes.  IInv of PriamBus is inductive, by  *)
(* one lemma for each of its parts with one step for each action; what the *)
(* console reports follows from it.                                        *)
(* Then what these operations take for granted of a register access, for   *)
(* any registers and bytes (BusPins).  Each access is a straight line of   *)
(* pin operations, so the inductive invariant says what the pins are after *)
(* the first k of them; nothing about k survives into the properties.      *)
(***************************************************************************)
EXTENDS PriamBus, BusPins, SequenceTheorems, TLAPS

\* Groups of variables.
USE DEF drive, call, past

\* The bytes of an address.

\* The two halves of a cylinder number are bytes.
LEMMA Halves == \A c \in Uint16 : Upper(c) \in Bytes /\ Lower(c) \in Bytes
  BY DEF Bytes
\* Register values are numbers, and zero is one of them.
LEMMA BytesNat == Bytes \subseteq Nat /\ 0 \in Bytes
<1>1. 0 \in Uint16 /\ Uint16 \subseteq Nat /\ Lower(0) = 0
  BY MaxAssumption, LowAssumption, WrapAssumption DEF Lower, Uint16
<1>2. \A c \in Nat : c \div Low \in Nat /\ c % Low \in Nat
  BY LowAssumption
<1> QED BY <1>1, <1>2 DEF Bytes, Upper, Lower

\* What is typed, selected and walked through stays in range.
LEMMA Ranges == /\ 0 \in Cylinders /\ 0 \in Uint16 /\ 0 \in Typed /\ 0 \in Heads
                /\ 1 \in 1 .. PRIAM_MAX_CYLINDER /\ 1 .. PRIAM_MAX_CYLINDER \subseteq Uint16
                /\ 1 .. PRIAM_MAX_CYLINDER \subseteq Cylinders
                /\ \A n \in Typed : Parsed(n) \in Uint16
                /\ \A h \in Heads : Selected(h) \in 0 .. PRIAM_NUM_HEADS - 1
<1>1. \A n \in Typed : Parsed(n) \in Uint16
  BY MaxAssumption, WrapAssumption DEF Typed, Parsed, Uint16
<1>2. \A h \in Heads : Selected(h) \in 0 .. PRIAM_NUM_HEADS - 1
  BY LowAssumption DEF Heads, Selected
<1>3. /\ 0 \in Cylinders /\ 0 \in Uint16 /\ 0 \in Typed /\ 0 \in Heads
      /\ 1 \in 1 .. PRIAM_MAX_CYLINDER /\ 1 .. PRIAM_MAX_CYLINDER \subseteq Uint16
      /\ 1 .. PRIAM_MAX_CYLINDER \subseteq Cylinders
  BY MaxAssumption, LowAssumption, WrapAssumption DEF Cylinders, Uint16, Typed, Heads
<1> QED BY <1>1, <1>2, <1>3

\* The address of a cylinder leads there.
LEMMA AddressOfAim == \A c \in Uint16 : Address(<<Upper(c), Lower(c)>>) = c
<1> SUFFICES ASSUME NEW c \in Uint16 PROVE Address(<<Upper(c), Lower(c)>>) = c
  OBVIOUS
<1>1. c \in Nat /\ c \div Low \in Nat /\ c % Low \in Nat
  BY LowAssumption, WrapAssumption DEF Uint16
<1>2. c = Low * (c \div Low) + (c % Low)
  BY LowAssumption, <1>1, Z3
<1>3. Low * (c \div Low) = (c \div Low) * Low
  BY <1>1, LowAssumption
<1> QED BY <1>1, <1>2, <1>3 DEF Address, Upper, Lower

\* The cases of the staircase's next seek, and of what ends at the drive.
LEMMA VerifiedCases ==
  ASSUME TypeOK, Verified
  PROVE  /\ pc = "verified" /\ verified' = verified \cup {cyl}
         /\ UNCHANGED <<drive, head, call, code, late, up, settled, failed>>
         /\ \/ /\ leg = "home" /\ leg' = "out" /\ cyl' = step
               /\ pc' = "seek" /\ step' = step
            \/ /\ leg = "out" /\ step < PRIAM_MAX_CYLINDER /\ leg' = "home"
               /\ step' = step + 1 /\ pc' = "key" /\ cyl' = cyl
            \/ /\ leg = "out" /\ ~(step < PRIAM_MAX_CYLINDER) /\ leg' = "last" /\ cyl' = 0
               /\ pc' = "seek" /\ step' = step
            \/ /\ leg = "last" /\ pc' = "complete" /\ UNCHANGED <<leg, step, cyl>>
<1>1. CASE leg = "home"
  BY <1>1 DEF Verified
<1>2. CASE leg = "out" /\ More(step)
  BY <1>2 DEF Verified, More
<1>3. CASE leg = "out" /\ ~More(step)
  BY <1>3 DEF Verified, More
<1>4. CASE leg = "last"
  BY <1>4 DEF Verified
<1> QED BY <1>1, <1>2, <1>3, <1>4 DEF TypeOK

\* How an operation of the drive ends: by what it was, and by whether it failed.
LEMMA DriveDoneCases ==
  ASSUME TypeOK, DriveDone
  PROVE  /\ doing # "none" /\ doing' = "none" /\ latched \subseteq latched'
         /\ latched' \subseteq latched \cup {"SEEK_COMPLETE"}
         /\ UNCHANGED <<target, head, op, pc, typed, cyl, code, askHead, late, leg, step, up,
                        past>>
         /\ \/ /\ doing = "SEEK" /\ at' = Address(target) /\ current' = target
               /\ ready' = ~fault /\ UNCHANGED <<spinning, fault>>
            \/ /\ doing \in {"SEQUENCE_UP", "RESTORE"} /\ at' = 0 /\ current' = <<0, 0>>
               /\ ready' = ~fault /\ UNCHANGED <<spinning, fault>>
            \/ /\ doing = "RESET" /\ at' = 0 /\ current' = <<0, 0>>
               /\ ready' = TRUE /\ fault' = FALSE /\ UNCHANGED spinning
            \/ /\ doing = "SEQUENCE_DOWN" /\ spinning' = FALSE
               /\ UNCHANGED <<ready, fault, current, at>>
            \/ /\ doing = "FAULT_RESET" /\ fault' = FALSE
               /\ UNCHANGED <<ready, spinning, current, at>>
            \/ /\ doing = "READ_DRIVE_ID" /\ current' \in {<<current[1], b>> : b \in Bytes}
               /\ UNCHANGED <<ready, spinning, fault, at>>
<1>1. CASE doing = "SEEK"
  BY <1>1 DEF DriveDone, Address
<1>2. CASE doing \in {"SEQUENCE_UP", "RESTORE"}
  BY <1>2 DEF DriveDone
<1>3. CASE doing = "RESET"
  BY <1>3 DEF DriveDone
<1>4. CASE doing = "SEQUENCE_DOWN"
  BY <1>4 DEF DriveDone
<1>5. CASE doing = "FAULT_RESET"
  BY <1>5 DEF DriveDone
<1>6. CASE doing = "READ_DRIVE_ID"
  BY <1>6 DEF DriveDone
<1>7. CASE doing = "none"
  BY <1>7 DEF DriveDone
<1> QED BY <1>1, <1>2, <1>3, <1>4, <1>5, <1>6, <1>7 DEF TypeOK, Commands

\* A refused write leaves its bit; an accepted one its byte.
LEMMA WriteTargetTypes ==
  ASSUME TypeOK, NEW i \in {1, 2}, NEW byte \in Bytes, WriteTarget(i, byte)
  PROVE  target' \in Bytes \X Bytes /\ latched' \subseteq Latched
<1>1. PICK a \in Bytes, b \in Bytes : target = <<a, b>>
  BY DEF TypeOK
<1>2. [target EXCEPT ![1] = byte] = <<byte, b>> /\ [target EXCEPT ![2] = byte] = <<a, byte>>
  BY <1>1
<1>3. target' \in {target, <<byte, b>>, <<a, byte>>}
  BY <1>2 DEF WriteTarget
<1>4. latched' \subseteq Latched
  BY DEF WriteTarget, TypeOK, Latched
<1> QED BY <1>1, <1>3, <1>4

\* A strobed command is taken, or refused.
LEMMA StrobedCases ==
  ASSUME NEW c \in Commands, Strobed(c)
  PROVE  \/ /\ Takes(c) /\ doing' = c /\ latched' = {}
            /\ (ready' => ready) /\ ready' \in BOOLEAN /\ spinning' \in BOOLEAN
            /\ spinning' = (spinning \/ c = "SEQUENCE_UP")
         \/ /\ latched' = latched \cup {"COMMAND_REJECT"}
            /\ UNCHANGED <<doing, ready, spinning>>
  BY DEF Strobed

\* Which command is at which point.
LEMMA ControlStep == ASSUME IInv, Next PROVE ControlInv'
<1> USE DEF IInv, TypeOK, ControlInv, Seekers
<1>1. CASE SeekCommand
  BY <1>1 DEF SeekCommand, Begin
<1>2. CASE CaptureCommand
  BY <1>2 DEF CaptureCommand, Begin
<1>3. CASE StairCommand
  BY <1>3 DEF StairCommand, Begin
<1>4. CASE StrobeCommand
  BY <1>4 DEF StrobeCommand, Begin
<1>5. CASE RegWrite
  <2>1. pc = "prompt" /\ UNCHANGED <<op, pc, code, failed>>
    BY <1>5 DEF RegWrite
  <2>2. doing' = "SEEK" => Address(target') \in Cylinders
    <3>1. CASE (\E c \in Commands : Strobed(c)) /\ UNCHANGED target
      <4>1. PICK c \in Commands : Strobed(c)
        BY <3>1
      <4>2. \/ Takes(c) /\ doing' = c
            \/ doing' = doing
        BY <4>1, StrobedCases
      <4> QED BY <3>1, <4>2 DEF Takes, Address
    <3>2. CASE /\ \E i \in {1, 2}, byte \in Bytes : WriteTarget(i, byte)
               /\ UNCHANGED doing
      BY <3>2 DEF WriteTarget
    <3> QED BY <1>5, <3>1, <3>2 DEF RegWrite
  <2> QED BY <2>1, <2>2
<1>6. CASE HeadCommand
  BY <1>6 DEF HeadCommand, Selected
<1>7. CASE Reset
  BY <1>7 DEF Reset
<1>8. CASE SeekRange
  BY <1>8 DEF SeekRange
<1>9. CASE SeekUpper
  BY <1>9 DEF SeekUpper, WriteTarget
<1>10. CASE SeekLower
  BY <1>10 DEF SeekLower, WriteTarget
<1>11. CASE Strobe
  <2>1. \/ Takes(code) /\ doing' = code
        \/ doing' = doing
    BY <1>11, StrobedCases DEF Strobe
  <2>2. doing' = "SEEK" => Address(target') \in Cylinders
    BY <1>11, <2>1 DEF Strobe, Takes, Address
  <2> QED BY <1>11, <2>2 DEF Strobe
<1>12. CASE Poll
  BY <1>12 DEF Poll, Status, Verdict, Wanted
<1>13. CASE Wake
  BY <1>13 DEF Wake, Woken
<1>14. CASE Waited
  BY <1>14 DEF Waited, AfterDone, AfterFail
<1>15. CASE End
  BY <1>15 DEF End, Return
<1>16. CASE Select
  BY <1>16 DEF Select, Selected
<1>17. CASE Sampled
  BY <1>17 DEF Sampled
<1>18. CASE StairStep
  BY <1>18 DEF StairStep
<1>19. CASE ReadUpper
  BY <1>19 DEF ReadUpper
<1>20. CASE ReadLower
  BY <1>20 DEF ReadLower, Same
<1>21. CASE Verified
  BY <1>21, VerifiedCases
<1>22. CASE Complete
  BY <1>22 DEF Complete, Return
<1>23. CASE DriveDone
  <2>1. doing' = "none" /\ UNCHANGED <<op, pc, code, failed>>
    BY <1>23, DriveDoneCases
  <2> QED BY <2>1
<1>24. CASE SeekFails
  BY <1>24 DEF SeekFails
<1>25. CASE DriveFaults
  BY <1>25 DEF DriveFaults
<1>26. CASE Expire
  BY <1>26 DEF Expire
<1> QED BY <1>1, <1>2, <1>3, <1>4, <1>5, <1>6, <1>7, <1>8, <1>9, <1>10, <1>11, <1>12, <1>13, <1>14, <1>15, <1>16, <1>17, <1>18, <1>19, <1>20, <1>21, <1>22, <1>23, <1>24, <1>25, <1>26
       DEF Next, Console, Firmware, Drive

\* The target a seek has set so far.
LEMMA AimStep == ASSUME IInv, Next PROVE AimInv'
<1> USE DEF IInv, TypeOK, ControlInv, AimInv, Seekers, Aim, Commands
<1>1. CASE SeekCommand
  BY <1>1 DEF SeekCommand, Begin
<1>2. CASE CaptureCommand
  BY <1>2 DEF CaptureCommand, Begin
<1>3. CASE StairCommand
  BY <1>3 DEF StairCommand, Begin
<1>4. CASE StrobeCommand
  BY <1>4 DEF StrobeCommand, Begin
<1>5. CASE RegWrite
  BY <1>5, StrobedCases DEF RegWrite, Takes, WriteTarget
<1>6. CASE HeadCommand
  BY <1>6 DEF HeadCommand, Selected
<1>7. CASE Reset
  BY <1>7 DEF Reset
<1>8. CASE SeekRange
  BY <1>8 DEF SeekRange
<1>9. CASE SeekUpper
  BY <1>9 DEF SeekUpper, WriteTarget
<1>10. CASE SeekLower
  BY <1>10 DEF SeekLower, WriteTarget
<1>11. CASE Strobe
  BY <1>11, StrobedCases DEF Strobe, Takes
<1>12. CASE Poll
  BY <1>12 DEF Poll, Status, Verdict, Wanted
<1>13. CASE Wake
  BY <1>13 DEF Wake, Woken
<1>14. CASE Waited
  BY <1>14 DEF Waited, AfterDone, AfterFail
<1>15. CASE End
  BY <1>15 DEF End, Return
<1>16. CASE Select
  BY <1>16 DEF Select, Selected
<1>17. CASE Sampled
  BY <1>17 DEF Sampled
<1>18. CASE StairStep
  BY <1>18 DEF StairStep
<1>19. CASE ReadUpper
  BY <1>19 DEF ReadUpper
<1>20. CASE ReadLower
  BY <1>20 DEF ReadLower, Same
<1>21. CASE Verified
  BY <1>21, VerifiedCases
<1>22. CASE Complete
  BY <1>22 DEF Complete, Return
<1>23. CASE DriveDone
  <2>1. /\ doing # "none" /\ doing' = "none"
        /\ UNCHANGED <<target, op, pc, cyl, settled>>
    BY <1>23, DriveDoneCases
  <2> QED BY <2>1
<1>24. CASE SeekFails
  BY <1>24 DEF SeekFails
<1>25. CASE DriveFaults
  BY <1>25 DEF DriveFaults
<1>26. CASE Expire
  BY <1>26 DEF Expire
<1> QED BY <1>1, <1>2, <1>3, <1>4, <1>5, <1>6, <1>7, <1>8, <1>9, <1>10, <1>11, <1>12, <1>13, <1>14, <1>15, <1>16, <1>17, <1>18, <1>19, <1>20, <1>21, <1>22, <1>23, <1>24, <1>25, <1>26
       DEF Next, Console, Firmware, Drive

\* What a wait can count on, and what is left when it is over.
LEMMA WaitStep == ASSUME IInv, Next PROVE WaitInv'
<1> USE DEF IInv, TypeOK, ControlInv, Seekers, AimInv, WaitInv, Arrived, Aimed, Outcome, Refused, Aim
<1>1. CASE SeekCommand
  BY <1>1 DEF SeekCommand, Begin
<1>2. CASE CaptureCommand
  BY <1>2 DEF CaptureCommand, Begin
<1>3. CASE StairCommand
  BY <1>3 DEF StairCommand, Begin
<1>4. CASE StrobeCommand
  BY <1>4 DEF StrobeCommand, Begin
<1>5. CASE RegWrite
  BY <1>5, StrobedCases DEF RegWrite, Takes, WriteTarget
<1>6. CASE HeadCommand
  BY <1>6 DEF HeadCommand, Selected
<1>7. CASE Reset
  BY <1>7 DEF Reset
<1>8. CASE SeekRange
  BY <1>8 DEF SeekRange
<1>9. CASE SeekUpper
  BY <1>9 DEF SeekUpper, WriteTarget
<1>10. CASE SeekLower
  BY <1>10 DEF SeekLower, WriteTarget
<1>11. CASE Strobe
  BY <1>11, StrobedCases DEF Strobe, Takes
<1>12. CASE Poll
  BY <1>12 DEF Poll, Status, Verdict, Wanted
<1>13. CASE Wake
  BY <1>13 DEF Wake, Woken
<1>14. CASE Waited
  BY <1>14 DEF Waited, AfterDone, AfterFail
<1>15. CASE End
  BY <1>15 DEF End, Return
<1>16. CASE Select
  BY <1>16 DEF Select, Selected
<1>17. CASE Sampled
  BY <1>17 DEF Sampled
<1>18. CASE StairStep
  BY <1>18 DEF StairStep
<1>19. CASE ReadUpper
  BY <1>19 DEF ReadUpper
<1>20. CASE ReadLower
  BY <1>20 DEF ReadLower, Same
<1>21. CASE Verified
  BY <1>21, VerifiedCases
<1>22. CASE Complete
  BY <1>22 DEF Complete, Return
<1>23. CASE DriveDone
  <2>1. /\ doing # "none" /\ doing' = "none" /\ latched \subseteq latched'
        /\ UNCHANGED <<target, head, pc, cyl, code, askHead, up, settled>>
    BY <1>23, DriveDoneCases
  <2>2. pc \notin {"select", "sampling", "read", "compare", "verified"}
    BY <2>1 DEF Arrived
  <2>3. ~(pc = "done" /\ code # "READ_DRIVE_ID")
    BY <2>1 DEF Arrived
  <2>4. ASSUME pc \in {"poll", "sleep"}, ~Refused
        PROVE  Arrived' /\ Aimed'
    <3>1. doing = code /\ Aimed
      BY <2>1, <2>4 DEF Arrived
    <3>2. \/ /\ doing = "SEEK" /\ at' = Address(target) /\ current' = target
          \/ /\ doing = "SEQUENCE_UP" /\ at' = 0 /\ ready' = ~fault /\ fault' = fault
          \/ /\ doing = "SEQUENCE_DOWN" /\ spinning' = FALSE
          \/ doing = "READ_DRIVE_ID"
      BY <1>23, <2>4, <3>1, DriveDoneCases
    <3> QED BY <2>1, <3>1, <3>2 DEF Arrived, Aimed, Outcome
  <2>5. Refused => Refused'
    BY <2>1 DEF Refused
  <2> QED BY <2>1, <2>2, <2>3, <2>4, <2>5 DEF Arrived
<1>24. CASE SeekFails
  BY <1>24 DEF SeekFails
<1>25. CASE DriveFaults
  BY <1>25 DEF DriveFaults
<1>26. CASE Expire
  BY <1>26 DEF Expire
<1> QED BY <1>1, <1>2, <1>3, <1>4, <1>5, <1>6, <1>7, <1>8, <1>9, <1>10, <1>11, <1>12, <1>13, <1>14, <1>15, <1>16, <1>17, <1>18, <1>19, <1>20, <1>21, <1>22, <1>23, <1>24, <1>25, <1>26
       DEF Next, Console, Firmware, Drive

\* How far the staircase is.
LEMMA StairKept == ASSUME IInv, Next PROVE StairInv'
<1> USE DEF IInv, TypeOK, ControlInv, StairInv, Seekers, Cylinders
<1>1. CASE SeekCommand
  BY <1>1 DEF SeekCommand, Begin
<1>2. CASE CaptureCommand
  BY <1>2 DEF CaptureCommand, Begin
<1>3. CASE StairCommand
  BY <1>3 DEF StairCommand, Begin
<1>4. CASE StrobeCommand
  BY <1>4 DEF StrobeCommand, Begin
<1>5. CASE RegWrite
  BY <1>5, StrobedCases DEF RegWrite, Takes, WriteTarget
<1>6. CASE HeadCommand
  BY <1>6 DEF HeadCommand, Selected
<1>7. CASE Reset
  BY <1>7 DEF Reset
<1>8. CASE SeekRange
  BY <1>8 DEF SeekRange
<1>9. CASE SeekUpper
  BY <1>9 DEF SeekUpper, WriteTarget
<1>10. CASE SeekLower
  BY <1>10 DEF SeekLower, WriteTarget
<1>11. CASE Strobe
  BY <1>11, StrobedCases DEF Strobe, Takes
<1>12. CASE Poll
  BY <1>12 DEF Poll, Status, Verdict, Wanted
<1>13. CASE Wake
  BY <1>13 DEF Wake, Woken
<1>14. CASE Waited
  BY <1>14 DEF Waited, AfterDone, AfterFail
<1>15. CASE End
  BY <1>15 DEF End, Return
<1>16. CASE Select
  BY <1>16 DEF Select, Selected
<1>17. CASE Sampled
  BY <1>17 DEF Sampled
<1>18. CASE StairStep
  BY <1>18 DEF StairStep
<1>19. CASE ReadUpper
  BY <1>19 DEF ReadUpper
<1>20. CASE ReadLower
  BY <1>20 DEF ReadLower, Same
<1>21. CASE Verified
  <2>1. op = "stair" /\ op' = op /\ pc = "verified" /\ verified' = verified \cup {cyl}
    BY <1>21, VerifiedCases
  <2>2. CASE leg = "home"
    <3>1. leg' = "out" /\ cyl' = step /\ pc' = "seek" /\ step' = step
      BY <1>21, <2>2, VerifiedCases
    <3>2. verified' = 0 .. step - 1
      BY <1>21, <2>1, <2>2, VerifiedCases
    <3> QED BY <2>1, <3>1, <3>2
  <2>3. CASE leg = "out" /\ step < PRIAM_MAX_CYLINDER
    <3>1. leg' = "home" /\ step' = step + 1 /\ pc' = "key" /\ cyl' = cyl
      BY <1>21, <2>3, VerifiedCases
    <3>2. verified' = 0 .. step
      BY <1>21, <2>1, <2>3, VerifiedCases
    <3> QED BY <2>1, <3>1, <3>2
  <2>4. CASE leg = "out" /\ ~(step < PRIAM_MAX_CYLINDER)
    <3>1. leg' = "last" /\ cyl' = 0 /\ pc' = "seek" /\ step' = step
      BY <1>21, <2>4, VerifiedCases
    <3>2. verified' = Cylinders
      BY <1>21, <2>1, <2>4, MaxAssumption, VerifiedCases
    <3> QED BY <2>1, <3>1, <3>2
  <2>5. CASE leg = "last"
    <3>1. pc' = "complete" /\ UNCHANGED <<leg, step, cyl>>
      BY <1>21, <2>5, VerifiedCases
    <3>2. verified' = Cylinders
      BY <1>21, <2>1, <2>5, Ranges, VerifiedCases
    <3> QED BY <2>1, <2>5, <3>1, <3>2
  <2>6. \/ leg = "home" \/ leg = "last"
        \/ leg = "out" /\ (step < PRIAM_MAX_CYLINDER \/ ~(step < PRIAM_MAX_CYLINDER))
    OBVIOUS
  <2> HIDE DEF IInv, TypeOK, ControlInv, StairInv
  <2> QED BY <2>2, <2>3, <2>4, <2>5, <2>6
<1>22. CASE Complete
  BY <1>22 DEF Complete, Return
<1>23. CASE DriveDone
  <2>1. UNCHANGED <<op, pc, cyl, leg, step, verified>>
    BY <1>23, DriveDoneCases
  <2> QED BY <2>1
<1>24. CASE SeekFails
  BY <1>24 DEF SeekFails
<1>25. CASE DriveFaults
  BY <1>25 DEF DriveFaults
<1>26. CASE Expire
  BY <1>26 DEF Expire
<1> QED BY <1>1, <1>2, <1>3, <1>4, <1>5, <1>6, <1>7, <1>8, <1>9, <1>10, <1>11, <1>12, <1>13, <1>14, <1>15, <1>16, <1>17, <1>18, <1>19, <1>20, <1>21, <1>22, <1>23, <1>24, <1>25, <1>26
       DEF Next, Console, Firmware, Drive

\* The types.
LEMMA TypeStep == ASSUME IInv, Next PROVE TypeOK'
<1> USE DEF IInv, TypeOK
<1>1. CASE SeekCommand
  BY <1>1, Ranges DEF SeekCommand, Begin
<1>2. CASE CaptureCommand
  BY <1>2, Ranges DEF CaptureCommand, Begin
<1>3. CASE StairCommand
  BY <1>3, Ranges DEF StairCommand, Begin
<1>4. CASE StrobeCommand
  <2>1. op' \in Commands /\ code' \in Commands
    BY <1>4 DEF StrobeCommand, Begin, Commands
  <2> QED BY <1>4, <2>1 DEF StrobeCommand, Begin
<1>5. CASE RegWrite
  <2>1. CASE (\E c \in Commands : Strobed(c)) /\ UNCHANGED target
    <3>1. PICK c \in Commands : Strobed(c)
      BY <2>1
    <3>2. /\ doing' \in Commands \cup {"none", "RESET"} /\ latched' \subseteq Latched
          /\ ready' \in BOOLEAN /\ spinning' \in BOOLEAN
      BY <3>1, StrobedCases DEF Latched
    <3> QED BY <1>5, <2>1, <3>2 DEF RegWrite
  <2>2. CASE /\ \E i \in {1, 2}, byte \in Bytes : WriteTarget(i, byte)
             /\ UNCHANGED <<doing, ready, spinning>>
    BY <1>5, <2>2, WriteTargetTypes DEF RegWrite
  <2> QED BY <1>5, <2>1, <2>2 DEF RegWrite
<1>6. CASE HeadCommand
  BY <1>6, Ranges DEF HeadCommand, Selected
<1>7. CASE Reset
  BY <1>7 DEF Reset
<1>8. CASE SeekRange
  BY <1>8 DEF SeekRange
<1>9. CASE SeekUpper
  <2>1. target' \in Bytes \X Bytes /\ latched' \subseteq Latched
    BY <1>9, Halves, WriteTargetTypes DEF SeekUpper
  <2> QED BY <1>9, <2>1 DEF SeekUpper
<1>10. CASE SeekLower
  <2>1. target' \in Bytes \X Bytes /\ latched' \subseteq Latched
    BY <1>10, Halves, WriteTargetTypes DEF SeekLower
  <2>2. code' \in Commands
    BY <1>10 DEF SeekLower, Commands
  <2> QED BY <1>10, <2>1, <2>2 DEF SeekLower
<1>11. CASE Strobe
  <2>1. /\ doing' \in Commands \cup {"none", "RESET"} /\ latched' \subseteq Latched
        /\ ready' \in BOOLEAN /\ spinning' \in BOOLEAN
    BY <1>11, StrobedCases DEF Strobe, Latched
  <2> QED BY <1>11, <2>1 DEF Strobe
<1>12. CASE Poll
  BY <1>12 DEF Poll, Status, Verdict, Wanted
<1>13. CASE Wake
  BY <1>13 DEF Wake, Woken
<1>14. CASE Waited
  BY <1>14 DEF Waited, AfterDone, AfterFail
<1>15. CASE End
  <2>1. Return /\ UNCHANGED <<drive, head>>
    BY <1>15 DEF End
  <2>2. "SEEK" \in Commands
    BY DEF Commands
  <2> QED BY <2>1, <2>2, Ranges, BytesNat DEF Return
<1>16. CASE Select
  BY <1>16, Ranges DEF Select, Selected
<1>17. CASE Sampled
  BY <1>17 DEF Sampled
<1>18. CASE StairStep
  BY <1>18, Ranges DEF StairStep
<1>19. CASE ReadUpper
  BY <1>19 DEF ReadUpper
<1>20. CASE ReadLower
  <2>1. UNCHANGED <<drive, head, call, cyl, code, late, leg, step, up, settled, verified>>
    BY <1>20 DEF ReadLower
  <2>2. pc' \in {"verified", "end"} /\ failed' \in BOOLEAN
    BY <1>20 DEF ReadLower
  <2> QED BY <2>1, <2>2
<1>21. CASE Verified
  <2>1. cyl \in Cylinders /\ verified' \subseteq Cylinders
    BY <1>21, Ranges, VerifiedCases DEF StairInv, ControlInv
  <2>2. cyl' \in Uint16 /\ step' \in 1 .. PRIAM_MAX_CYLINDER
    BY <1>21, Ranges, MaxAssumption, VerifiedCases
  <2>3. leg' \in {"home", "out", "last"} /\ pc' \in {"seek", "key", "complete"}
    BY <1>21, VerifiedCases
  <2> QED BY <1>21, <2>1, <2>2, <2>3 DEF Verified
<1>22. CASE Complete
  <2>1. Return /\ UNCHANGED <<drive, head>>
    BY <1>22 DEF Complete
  <2>2. "SEEK" \in Commands
    BY DEF Commands
  <2> QED BY <2>1, <2>2, Ranges, BytesNat DEF Return
<1>23. CASE DriveDone
  <2>1. /\ doing' = "none" /\ latched' \subseteq Latched
        /\ UNCHANGED <<target, head, op, pc, typed, cyl, code, askHead, late, leg, step, up,
                       past>>
    BY <1>23, DriveDoneCases DEF Latched
  <2>2. ready' \in BOOLEAN /\ spinning' \in BOOLEAN /\ fault' \in BOOLEAN
    BY <1>23, DriveDoneCases
  <2>3. at' \in Cylinders
    BY <1>23, DriveDoneCases, Ranges DEF ControlInv
  <2>4. current' \in {current, target, <<0, 0>>} \cup {<<current[1], b>> : b \in Bytes}
    BY <1>23, DriveDoneCases
  <2>5. current' \in Bytes \X Bytes
    BY <2>4, BytesNat
  <2> QED BY <2>1, <2>2, <2>3, <2>5
<1>24. CASE SeekFails
  <2>1. doing' = "none" /\ latched' \subseteq Latched
    BY <1>24 DEF SeekFails, Latched
  <2> QED BY <1>24, <2>1 DEF SeekFails
<1>25. CASE DriveFaults
  <2>1. doing' \in Commands \cup {"none", "RESET"} /\ at' \in Cylinders
    BY <1>25 DEF DriveFaults
  <2> QED BY <1>25, <2>1 DEF DriveFaults
<1>26. CASE Expire
  BY <1>26 DEF Expire
<1> QED BY <1>1, <1>2, <1>3, <1>4, <1>5, <1>6, <1>7, <1>8, <1>9, <1>10, <1>11, <1>12, <1>13, <1>14, <1>15, <1>16, <1>17, <1>18, <1>19, <1>20, <1>21, <1>22, <1>23, <1>24, <1>25, <1>26
       DEF Next, Console, Firmware, Drive

\* The prompt with nothing typed and a drive at rest.
LEMMA Started == Init => IInv
<1> SUFFICES ASSUME Init PROVE IInv
  OBVIOUS
<1>1. TypeOK
  <2>1. /\ "SEEK" \in Commands /\ latched \subseteq Latched
        /\ target \in Bytes \X Bytes /\ current \in Bytes \X Bytes
        /\ head \in 0 .. PRIAM_NUM_HEADS - 1
    BY BytesNat, LowAssumption DEF Init, Commands
  <2> QED BY <2>1, BytesNat, Ranges DEF Init, TypeOK
<1>2. ControlInv /\ AimInv /\ WaitInv /\ StairInv
  BY DEF Init, ControlInv, AimInv, WaitInv, StairInv
<1> QED BY <1>1, <1>2 DEF IInv

\* Whatever the drive does, and in whatever order: who is at which point of which
\* command, and what its wait can count on.
THEOREM Inductive == Spec => []IInv
<1>1. IInv /\ [Next]_vars => IInv'
  <2>1. ASSUME IInv, Next PROVE IInv'
    BY <2>1, TypeStep, ControlStep, AimStep, WaitStep, StairKept DEF IInv
  <2>2. ASSUME IInv, UNCHANGED vars PROVE IInv'
    BY <2>2 DEF vars, IInv, TypeOK, ControlInv, Address, AimInv, Aim, WaitInv, Refused, Arrived,
                Aimed, Outcome, StairInv
  <2> QED BY <2>1, <2>2
<1> QED BY <1>1, Started, PTL DEF Spec

\* Every register, signal and phase always holds what the two sides can put there.
THEOREM TypeCorrect == Spec => []TypeOK
<1>1. IInv => TypeOK
  BY DEF IInv
<1> QED BY <1>1, Inductive, PTL

\* A carriage that a command brought to its aim is on its cylinder.
LEMMA AimReached == ASSUME IInv, Arrived, Aimed, code = "SEEK", settled, ~fault PROVE at = cyl
<1>1. at = Address(<<Upper(cyl), Lower(cyl)>>)
  BY DEF Arrived, Outcome, Aimed, Aim
<1> QED BY <1>1, AddressOfAim DEF IInv, TypeOK

\* A seek begun on an idle drive and reported OK has arrived, and a capture samples the
\* cylinder and head it was asked for.
THEOREM SeekArrives == Spec => []OnTrack
<1>1. IInv => OnTrack
  <2> SUFFICES ASSUME IInv, settled, ~fault PROVE
        /\ pc = "done" /\ op \in Seekers => at = cyl
        /\ pc = "sampling" => at = cyl /\ (askHead < PRIAM_NUM_HEADS => head = askHead)
    BY DEF OnTrack, Seekers
  <2>1. ASSUME pc = "done", op \in Seekers PROVE at = cyl
    BY <2>1, AimReached DEF IInv, ControlInv, WaitInv
  <2>2. ASSUME pc = "sampling" PROVE at = cyl
    BY <2>2, AimReached DEF IInv, ControlInv, WaitInv
  <2>3. ASSUME pc = "sampling", askHead < PRIAM_NUM_HEADS PROVE head = askHead
    BY <2>3, LowAssumption DEF IInv, WaitInv, TypeOK, Heads, Selected
  <2> QED BY <2>1, <2>2, <2>3
<1> QED BY <1>1, Inductive, PTL

\* However its seeks began, a step of the staircase that is verified is on its
\* cylinder, and "all verified" is printed when all of them were.
THEOREM ReadbackDecides == Spec => []StairVerified
<1>1. IInv => StairVerified
  <2> SUFFICES ASSUME IInv PROVE StairVerified
    OBVIOUS
  <2>1. ASSUME pc = "verified", ~fault PROVE at = cyl
    <3>1. at = Address(<<Upper(cyl), Lower(cyl)>>)
      BY <2>1 DEF IInv, ControlInv, WaitInv, Arrived, Outcome, Aim
    <3> QED BY <3>1, AddressOfAim DEF IInv, TypeOK
  <2>2. ASSUME pc = "complete" PROVE verified = Cylinders
    BY <2>2 DEF IInv, ControlInv, StairInv
  <2> QED BY <2>1, <2>2 DEF StairVerified
<1> QED BY <1>1, Inductive, PTL

\* `up` reported OK leaves the drive READY at cylinder 0, `down` stopped.
THEOREM SequenceDone == Spec => []SequenceTrue
<1>1. IInv => SequenceTrue
  BY DEF IInv, ControlInv, WaitInv, Arrived, Outcome, SequenceTrue, Seekers
<1> QED BY <1>1, Inductive, PTL

\* SAF-5: no command strobes the drive again after a wait of it has failed.
THEOREM FailedStops == Spec => NoBlindRetry
<1>1. IInv /\ [Next]_vars => [failed => UNCHANGED target /\ pc' # "strobe"]_vars
  <2> SUFFICES ASSUME IInv, Next, failed PROVE UNCHANGED target /\ pc' # "strobe"
    OBVIOUS
  <2>1. pc = "end"
    BY DEF IInv, ControlInv
  <2>2. CASE Console
    BY <2>1, <2>2 DEF Console, SeekCommand, CaptureCommand, StairCommand, StrobeCommand, RegWrite,
                      HeadCommand, Reset, Begin
  <2>3. CASE Firmware
    BY <2>1, <2>3 DEF Firmware, SeekRange, SeekUpper, SeekLower, Strobe, Poll, Wake, Waited, End,
                      Return, Select, Sampled, StairStep, ReadUpper, ReadLower, Verified, Complete
  <2>4. CASE Drive
    BY <2>1, <2>4 DEF Drive, DriveDone, SeekFails, DriveFaults
  <2>5. CASE Expire
    BY <2>1, <2>5 DEF Expire
  <2> QED BY <2>2, <2>3, <2>4, <2>5 DEF Next
<1> QED BY <1>1, Inductive, PTL DEF Spec, NoBlindRetry

\* priam_wait_not_busy gives up early for what the drive says with BUSY clear, or for a
\* fault, and never for a bit that flutters while BUSY.
THEOREM NoFalseAlarm == Spec => FailHasCause
<1> DEFINE Cause == \/ fault
                    \/ doing = "none" /\ latched \cap {"COMMAND_REJECT", "SEEK_FAULT"} # {}
<1>1. [Next]_vars => [pc = "poll" /\ pc' = "fail" => Cause]_vars
  <2> SUFFICES ASSUME Next, pc = "poll", pc' = "fail" PROVE Cause
    OBVIOUS
  <2>1. CASE Poll
    <3>1. PICK s \in Status : Verdict(code, s) = "fail"
      BY <2>1 DEF Poll
    <3>2. \/ "DRIVE_FAULT" \in s
          \/ "BUSY" \notin s /\ s \cap {"COMMAND_REJECT", "SEEK_FAULT"} # {}
      BY <3>1 DEF Verdict
    <3>3. CASE "DRIVE_FAULT" \in s
      BY <3>3, Zenon DEF Status
    <3>4. CASE "BUSY" \notin s /\ s \cap {"COMMAND_REJECT", "SEEK_FAULT"} # {}
      <4>1. doing = "none" /\ s \cap Latched = latched
        BY <3>4 DEF Status
      <4> QED BY <3>4, <4>1 DEF Latched
    <3> QED BY <3>2, <3>3, <3>4
  <2>2. CASE Next /\ ~Poll
    BY <2>2 DEF Next, Console, SeekCommand, CaptureCommand, StairCommand, StrobeCommand, RegWrite,
                HeadCommand, Reset, Begin, Firmware, SeekRange, SeekUpper, SeekLower, Strobe,
                Wake, Waited, End, Select, Sampled, StairStep, ReadUpper, ReadLower, Verified,
                Complete, Drive, DriveDone, SeekFails, DriveFaults, Expire
  <2> QED BY <2>1, <2>2
<1> QED BY <1>1, PTL DEF Spec, FailHasCause

-----------------------------------------------------------------------------
(* The pins.                                                               *)

Vals == Values \cup Regs \cup {0, 1}
Ops  == {"put", "out", "in", "init", "sample"} \X Pins \X Vals
Ours == Outputs \cup {"DIR"}  \* the pins that are outputs once and for all

GateOps(v) == <<Put("GATE", v)>>

\* What is left of a program of which k operations are done.
Left(ops, k) == prog = SubSeq(ops, k + 1, Len(ops))

\* Which operation of pb_init turns a pin into an output.
Driven(p) == CASE p = "DIR" -> 4 [] p = "AD" -> 7 [] p = "RD" -> 10
               [] p = "WR" -> 13 [] p = "GATE" -> 16 [] p = "RESET" -> 19

BootAt(k) ==
  /\ got = <<>> /\ sampled = <<>> /\ ~out["DBUS"]
  /\ \A p \in Ours : /\ out[p] <=> k >= Driven(p)
                     /\ k >= Driven(p) - 1 => latch[p] = Idle(p)
\* Whatever is done after the boot, the pins are driven, and the strobes but that of
\* the operation rest.
Awake(busy) == /\ \A p \in Ours : out[p]
               /\ \A p \in {"RD", "WR", "RESET"} \ busy : latch[p] = 1
Off == ~out["DBUS"] /\ latch["DIR"] = 1
WriteAt(r, v, k) ==
  /\ Awake({"WR"}) /\ sampled = <<>>
  /\ k >= 1 => latch["AD"] = r
  /\ latch["DIR"] = IF k \in 2 .. 7 THEN 0 ELSE 1
  /\ out["DBUS"] <=> k \in 3 .. 6
  /\ k \in 4 .. 6 => latch["DBUS"] = v
  /\ latch["WR"] = IF k = 5 THEN 0 ELSE 1
  /\ got = IF k < 6 THEN <<>> ELSE << <<r, v>> >>
ReadAt(r, k) ==
  /\ Awake({"RD"}) /\ Off /\ got = <<>>
  /\ k >= 1 => latch["AD"] = r
  /\ latch["RD"] = IF k \in {4, 5} THEN 0 ELSE 1
  /\ sampled = IF k < 5 THEN <<>> ELSE <<r>>
ResetAt(k) ==
  /\ Awake({"RESET"}) /\ Off /\ got = <<>> /\ sampled = <<>>
  /\ latch["RESET"] = IF k = 1 THEN 0 ELSE 1
GateAt == Awake({}) /\ Off /\ got = <<>> /\ sampled = <<>>

PinsTyped == latch \in [Pins -> Vals] /\ out \in [Pins -> BOOLEAN]
PinInv ==
  /\ PinsTyped
  /\ \/ access = <<"boot", 0, 0>> /\ \E k \in 0 .. 19 : Left(InitOps, k) /\ BootAt(k)
     \/ \E r \in Regs, v \in Values, k \in 0 .. 8 :
          access = <<"write", r, v>> /\ Left(WriteOps(r, v), k) /\ WriteAt(r, v, k)
     \/ \E r \in Regs, k \in 0 .. 6 :
          access = <<"read", r, 0>> /\ Left(ReadOps(r), k) /\ ReadAt(r, k)
     \/ \E k \in 0 .. 2 : access = <<"reset", 0, 0>> /\ Left(ResetOps, k) /\ ResetAt(k)
     \/ \E v \in {0, 1}, k \in 0 .. 1 :
          access = <<"gate", 0, v>> /\ Left(GateOps(v), k) /\ GateAt

-----------------------------------------------------------------------------
(* The programs.                                                           *)

\* The pins by name: all but the data bus are outputs of the bridge.
LEMMA PinNames == {"AD", "RD", "WR", "GATE", "RESET", "DBUS", "DIR"} = Pins
                  /\ Ours = Pins \ {"DBUS"} /\ Outputs \subseteq Ours
  BY DEF Pins, Outputs, Strobes, Ours

\* Each pin operation is one of the alphabet.
LEMMA OpsAreOps ==
  /\ \A p \in Pins : /\ \A v \in Vals : Put(p, v) \in Ops
                     /\ DirOut(p) \in Ops /\ DirIn(p) \in Ops /\ Reinit(p) \in Ops
  /\ Sample \in Ops
  BY DEF Put, DirOut, DirIn, Reinit, Sample, Ops, Vals, Pins

\* Short literal sequences, and what is concatenated of them, are sequences.
LEMMA Tuples ==
  ASSUME NEW S
  PROVE  /\ \A a \in S : <<a>> \in Seq(S)
         /\ \A a, b \in S : <<a, b>> \in Seq(S)
         /\ \A a, b, c \in S : <<a, b, c>> \in Seq(S)
         /\ \A a, b, c, d \in S : <<a, b, c, d>> \in Seq(S)
         /\ \A s, t \in Seq(S) : s \o t \in Seq(S)
  OBVIOUS

\* pb_init touches each output three times running: neutral, its idle level, output.
LEMMA InitShape ==
  /\ InitOps \in Seq(Ops) /\ Len(InitOps) = 19
  /\ InitOps[1] = Reinit("DBUS")
  /\ \A p \in Ours : /\ InitOps[Driven(p) - 2] = Reinit(p)
                     /\ InitOps[Driven(p) - 1] = Put(p, Idle(p))
                     /\ InitOps[Driven(p)] = DirOut(p)
<1>1. InitOps \in Seq(Ops)
  <2>1. ASSUME NEW p \in Pins PROVE Parked(p) \in Seq(Ops)
    <3>1. Idle(p) \in Vals
      BY DEF Idle, Vals
    <3> QED BY <3>1, OpsAreOps, Tuples DEF Parked
  <2>2. <<Reinit("DBUS"), Reinit("DIR"), Put("DIR", 1), DirOut("DIR")>> \in Seq(Ops)
    <3>1. 1 \in Vals
      BY DEF Vals
    <3> QED BY <3>1, OpsAreOps, PinNames, Tuples
  <2> QED BY <2>1, <2>2, PinNames, Tuples DEF InitOps
<1>2. Len(InitOps) = 19
  BY DEF InitOps, Parked
<1>3. InitOps[1] = Reinit("DBUS")
  BY DEF InitOps, Parked
<1>4. ASSUME NEW p \in Ours
      PROVE  /\ InitOps[Driven(p) - 2] = Reinit(p)
             /\ InitOps[Driven(p) - 1] = Put(p, Idle(p))
             /\ InitOps[Driven(p)] = DirOut(p)
  <2>1. CASE p = "DIR"
    <3>1. InitOps[2] = Reinit(p) /\ InitOps[3] = Put(p, 1) /\ InitOps[4] = DirOut(p)
      BY <2>1 DEF InitOps, Parked
    <3> QED BY <2>1, <3>1 DEF Driven, Idle
  <2>2. CASE p = "AD"
    <3>1. InitOps[5] = Reinit(p) /\ InitOps[6] = Put(p, Idle(p)) /\ InitOps[7] = DirOut(p)
      BY <2>2 DEF InitOps, Parked
    <3> QED BY <2>2, <3>1 DEF Driven
  <2>3. CASE p = "RD"
    <3>1. InitOps[8] = Reinit(p) /\ InitOps[9] = Put(p, Idle(p)) /\ InitOps[10] = DirOut(p)
      BY <2>3 DEF InitOps, Parked
    <3> QED BY <2>3, <3>1 DEF Driven
  <2>4. CASE p = "WR"
    <3>1. InitOps[11] = Reinit(p) /\ InitOps[12] = Put(p, Idle(p)) /\ InitOps[13] = DirOut(p)
      BY <2>4 DEF InitOps, Parked
    <3> QED BY <2>4, <3>1 DEF Driven
  <2>5. CASE p = "GATE"
    <3>1. InitOps[14] = Reinit(p) /\ InitOps[15] = Put(p, Idle(p)) /\ InitOps[16] = DirOut(p)
      BY <2>5 DEF InitOps, Parked
    <3> QED BY <2>5, <3>1 DEF Driven
  <2>6. CASE p = "RESET"
    <3>1. InitOps[17] = Reinit(p) /\ InitOps[18] = Put(p, Idle(p)) /\ InitOps[19] = DirOut(p)
      BY <2>6 DEF InitOps, Parked
    <3> QED BY <2>6, <3>1 DEF Driven
  <2> QED BY <2>1, <2>2, <2>3, <2>4, <2>5, <2>6 DEF Ours, Outputs, Strobes
<1> QED BY <1>1, <1>2, <1>3, <1>4

\* pb_write_reg, line by line.
LEMMA WriteShape ==
  ASSUME NEW r \in Regs, NEW v \in Values
  PROVE  LET o == WriteOps(r, v)
         IN  /\ o \in Seq(Ops) /\ Len(o) = 8
             /\ o[1] = Put("AD", r) /\ o[2] = Put("DIR", 0) /\ o[3] = DirOut("DBUS")
             /\ o[4] = Put("DBUS", v) /\ o[5] = Put("WR", 0) /\ o[6] = Put("WR", 1)
             /\ o[7] = DirIn("DBUS") /\ o[8] = Put("DIR", 1)
<1>1. WriteOps(r, v) \in Seq(Ops)
  <2>1. {r, v, 0, 1} \subseteq Vals
    BY DEF Vals
  <2> QED BY <2>1, OpsAreOps, PinNames, Tuples DEF WriteOps, DriveBus, Release
<1> QED BY <1>1 DEF WriteOps, DriveBus, Release

\* pb_read_reg, line by line.
LEMMA ReadShape ==
  ASSUME NEW r \in Regs
  PROVE  LET o == ReadOps(r)
         IN  /\ o \in Seq(Ops) /\ Len(o) = 6
             /\ o[1] = Put("AD", r) /\ o[2] = DirIn("DBUS") /\ o[3] = Put("DIR", 1)
             /\ o[4] = Put("RD", 0) /\ o[5] = Sample /\ o[6] = Put("RD", 1)
<1>1. ReadOps(r) \in Seq(Ops)
  <2>1. {r, 0, 1} \subseteq Vals
    BY DEF Vals
  <2> QED BY <2>1, OpsAreOps, PinNames, Tuples DEF ReadOps, Release
<1> QED BY <1>1 DEF ReadOps, Release

\* pb_reset_pulse and pb_set_read_gate, line by line.
LEMMA ShortShapes ==
  /\ ResetOps \in Seq(Ops) /\ Len(ResetOps) = 2
  /\ ResetOps[1] = Put("RESET", 0) /\ ResetOps[2] = Put("RESET", 1)
  /\ \A v \in {0, 1} : /\ GateOps(v) \in Seq(Ops) /\ Len(GateOps(v)) = 1
                       /\ GateOps(v)[1] = Put("GATE", v)
<1>1. {0, 1} \subseteq Vals
  BY DEF Vals
<1>2. ResetOps \in Seq(Ops) /\ \A v \in {0, 1} : GateOps(v) \in Seq(Ops)
  BY <1>1, OpsAreOps, PinNames, Tuples DEF ResetOps, GateOps
<1> QED BY <1>2 DEF ResetOps, GateOps

-----------------------------------------------------------------------------
(* One pin operation.                                                      *)

Act(o) == Do(o[1], o[2], o[3])

\* A step does the next operation of the program, and no other.
LEMMA Advance ==
  ASSUME NEW ops \in Seq(Ops), NEW k \in 0 .. Len(ops), Left(ops, k), Step
  PROVE  /\ k + 1 \in 1 .. Len(ops) /\ prog' = SubSeq(ops, (k + 1) + 1, Len(ops))
         /\ Act(ops[k + 1]) /\ access' = access
<1>1. Len(ops) \in Nat
  BY LenProperties
<1>2. k # Len(ops)
  BY <1>1, SubSeqEmpty DEF Left, Step
<1>3. k + 1 \in 1 .. Len(ops) /\ Len(ops) \in k + 1 .. Len(ops)
  BY <1>1, <1>2
<1>4. Head(prog) = ops[k + 1] /\ Tail(prog) = SubSeq(ops, (k + 1) + 1, Len(ops))
  BY <1>3, HeadTailOfSubSeq DEF Left
<1> QED BY <1>3, <1>4 DEF Act, Step

\* Nothing is left exactly when all is done.
LEMMA AllDone ==
  ASSUME NEW ops \in Seq(Ops), NEW k \in 0 .. Len(ops), Left(ops, k)
  PROVE  prog = <<>> <=> k = Len(ops)
<1>1. Len(ops) \in Nat /\ \A i \in 1 .. Len(ops) : ops[i] \in Ops
  BY LenProperties, ElementOfSeq
<1>2. Len(prog) = IF k + 1 <= Len(ops) THEN Len(ops) - k ELSE 0
  BY <1>1, SubSeqProperties DEF Left
<1>3. prog \in Seq(Ops)
  BY <1>1, SubSeqProperties DEF Left
<1> QED BY <1>1, <1>2, <1>3, EmptySeq

\* A program is at its beginning before its first step.
LEMMA Begun ==
  ASSUME NEW ops \in Seq(Ops), prog' = ops PROVE Left(ops, 0)'
  BY SubSeqFull DEF Left

\* The drive takes a value only as -WR rises.
Rises == Level("WR") = 0 /\ Level("WR")' = 1

\* What gpio_put does: a latch, and nothing to the drive unless it is -WR that moves.
LEMMA PutDone ==
  ASSUME NEW p \in Pins, NEW v \in Vals, Act(Put(p, v)), PinsTyped
  PROVE  /\ latch' = [latch EXCEPT ![p] = v] /\ out' = out /\ sampled' = sampled /\ PinsTyped'
         /\ (p # "WR" \/ access[1] = "boot") => got' = got
<1>1. Do("put", p, v)
  BY DEF Put, Act
<1>2. latch' = [latch EXCEPT ![p] = v] /\ out' = out /\ sampled' = sampled
  BY <1>1 DEF Do
<1>3. p # "WR" => ~Rises
  BY <1>2 DEF PinsTyped, Rises, Level, Pins, Outputs, Strobes
<1> QED BY <1>1, <1>2, <1>3 DEF Do, Rises, PinsTyped

\* A put to -WR is taken by the drive when it is a rising edge, after the boot.
LEMMA StrobeDone ==
  ASSUME NEW v \in Vals, Act(Put("WR", v)), PinsTyped, out["WR"]
  PROVE  got' = IF access[1] # "boot" /\ latch["WR"] = 0 /\ v = 1
                THEN Append(got, <<Level("AD"), OnBus>>) ELSE got
<1>1. Do("put", "WR", v) /\ "WR" \in Pins
  BY PinNames DEF Put, Act
<1>2. latch' = [latch EXCEPT !["WR"] = v] /\ out' = out
  BY <1>1 DEF Do
<1>3. Rises <=> latch["WR"] = 0 /\ v = 1
  BY <1>1, <1>2 DEF PinsTyped, Rises, Level
<1> QED BY <1>1, <1>3 DEF Do, Rises

\* What gpio_set_dir to an output does.
LEMMA OutDone ==
  ASSUME NEW p \in Pins, Act(DirOut(p)), PinsTyped
  PROVE  /\ out' = [out EXCEPT ![p] = TRUE] /\ latch' = latch /\ sampled' = sampled /\ PinsTyped'
         /\ (p # "WR" \/ access[1] = "boot") => got' = got
<1>1. Do("out", p, 0)
  BY DEF DirOut, Act
<1>2. out' = [out EXCEPT ![p] = TRUE] /\ latch' = latch /\ sampled' = sampled
  BY <1>1 DEF Do
<1>3. p # "WR" => ~Rises
  BY <1>2 DEF PinsTyped, Rises, Level, Pins, Outputs, Strobes
<1> QED BY <1>1, <1>2, <1>3 DEF Do, Rises, PinsTyped

\* What gpio_set_dir to an input does.
LEMMA InDone ==
  ASSUME NEW p \in Pins, Act(DirIn(p)), PinsTyped
  PROVE  /\ out' = [out EXCEPT ![p] = FALSE] /\ latch' = latch /\ sampled' = sampled /\ PinsTyped'
         /\ p # "WR" => got' = got
<1>1. Do("in", p, 0)
  BY DEF DirIn, Act
<1>2. out' = [out EXCEPT ![p] = FALSE] /\ latch' = latch /\ sampled' = sampled
  BY <1>1 DEF Do
<1>3. p # "WR" => ~Rises
  BY <1>2 DEF PinsTyped, Rises, Level, Pins, Outputs, Strobes
<1> QED BY <1>1, <1>2, <1>3 DEF Do, Rises, PinsTyped

\* What gpio_init does: an input, with its latch at 0.
LEMMA InitDone ==
  ASSUME NEW p \in Pins, Act(Reinit(p)), PinsTyped
  PROVE  /\ latch' = [latch EXCEPT ![p] = 0] /\ out' = [out EXCEPT ![p] = FALSE]
         /\ sampled' = sampled /\ PinsTyped'
         /\ access[1] = "boot" => got' = got
<1>1. Do("init", p, 0) /\ 0 \in Vals
  BY DEF Reinit, Vals, Act
<1> QED BY <1>1 DEF Do, PinsTyped

\* What reading the data bus does.
LEMMA SampleDone ==
  ASSUME Act(Sample), PinsTyped
  PROVE  /\ latch' = latch /\ out' = out /\ sampled' = Append(sampled, Answer)
         /\ got' = got /\ PinsTyped'
<1>1. Do("sample", "DBUS", 0)
  BY DEF Sample, Act
<1>2. latch' = latch /\ out' = out /\ sampled' = Append(sampled, Answer)
  BY <1>1 DEF Do
<1>3. ~Rises
  BY <1>2 DEF Rises, Level
<1> QED BY <1>1, <1>2, <1>3 DEF Do, Rises, PinsTyped

-----------------------------------------------------------------------------
(* The operations.                                                         *)

\* pb_init: pin after pin, the latch is set before the pin is driven.
LEMMA BootStep ==
  ASSUME PinsTyped, Step, NEW k \in 0 .. 19, access = <<"boot", 0, 0>>, Left(InitOps, k), BootAt(k)
  PROVE  /\ k + 1 \in 0 .. 19 /\ Left(InitOps, k + 1)' /\ BootAt(k + 1)'
         /\ PinsTyped' /\ access' = access
<1> DEFINE o == InitOps[k + 1]
<1>1. /\ k \in 0 .. 18 /\ Left(InitOps, k + 1)' /\ access' = access
      /\ Act(o)
  <2>1. InitOps \in Seq(Ops) /\ Len(InitOps) = 19 /\ k \in 0 .. Len(InitOps)
    BY InitShape
  <2>2. /\ k + 1 \in 1 .. 19 /\ prog' = SubSeq(InitOps, (k + 1) + 1, Len(InitOps)) /\ Act(o)
        /\ access' = access
    BY <2>1, Advance
  <2> QED BY <2>2 DEF Left
<1>2. access[1] = "boot" /\ \A p \in Ours : Idle(p) \in Vals
  BY DEF Idle, Vals
<1>3. \A p, q \in Ours : \/ p = q
                         \/ Driven(p) + 3 <= Driven(q)
                         \/ Driven(q) + 3 <= Driven(p)
  BY DEF Driven, Ours, Outputs, Strobes
<1>4. \A p \in Ours : p \in Pins /\ p # "DBUS" /\ Driven(p) \in 4 .. 19
  BY PinNames DEF Driven, Ours, Outputs, Strobes
<1>5. CASE k = 0
  <2>1. Act(Reinit("DBUS"))
    BY <1>1, <1>5, InitShape
  <2>2. /\ latch' = [latch EXCEPT !["DBUS"] = 0] /\ out' = [out EXCEPT !["DBUS"] = FALSE]
        /\ sampled' = sampled /\ got' = got /\ PinsTyped'
    BY <1>2, <2>1, InitDone, PinNames
  <2>3. \A p \in Ours : out'[p] = out[p] /\ latch'[p] = latch[p]
    BY <1>4, <2>2 DEF PinsTyped
  <2> QED BY <1>1, <1>4, <1>5, <2>2, <2>3, PinNames DEF BootAt, PinsTyped
<1>6. ASSUME NEW p \in Ours, k + 1 = Driven(p) - 2
      PROVE  BootAt(k + 1)' /\ PinsTyped'
  <2>1. Act(Reinit(p))
    BY <1>1, <1>6, InitShape
  <2>2. /\ latch' = [latch EXCEPT ![p] = 0] /\ out' = [out EXCEPT ![p] = FALSE]
        /\ sampled' = sampled /\ got' = got /\ PinsTyped'
    BY <1>2, <1>4, <2>1, InitDone
  <2>3. \A q \in Ours \ {p} : out'[q] = out[q] /\ latch'[q] = latch[q]
    BY <1>4, <2>2 DEF PinsTyped
  <2>4. ~out'[p] /\ ~out'["DBUS"]
    BY <1>4, <2>2, PinNames DEF BootAt, PinsTyped
  <2>5. \A q \in Ours \ {p} : /\ out'[q] <=> k + 1 >= Driven(q)
                              /\ k + 1 >= Driven(q) - 1 => latch'[q] = Idle(q)
    <3> SUFFICES ASSUME NEW q \in Ours \ {p}
                 PROVE  /\ out'[q] <=> k + 1 >= Driven(q)
                        /\ k + 1 >= Driven(q) - 1 => latch'[q] = Idle(q)
      OBVIOUS
    <3>1. /\ Driven(p) \in Nat /\ Driven(q) \in Nat
          /\ Driven(p) + 3 <= Driven(q) \/ Driven(q) + 3 <= Driven(p)
      BY <1>3, <1>4
    <3>2. /\ out[q] <=> k >= Driven(q)
          /\ k >= Driven(q) - 1 => latch[q] = Idle(q)
      BY DEF BootAt
    <3>3. out'[q] = out[q] /\ latch'[q] = latch[q]
      BY <2>3
    <3>4. /\ k + 1 >= Driven(q) <=> k >= Driven(q)
          /\ k + 1 >= Driven(q) - 1 <=> k >= Driven(q) - 1
      BY <1>6, <3>1
    <3> QED BY <3>2, <3>3, <3>4
  <2>6. /\ out'[p] <=> k + 1 >= Driven(p)
        /\ k + 1 >= Driven(p) - 1 => latch'[p] = Idle(p)
    BY <1>4, <1>6, <2>4
  <2>7. got' = <<>> /\ sampled' = <<>> /\ PinsTyped'
    BY <2>2 DEF BootAt
  <2> QED BY <2>4, <2>5, <2>6, <2>7 DEF BootAt
<1>7. ASSUME NEW p \in Ours, k + 1 = Driven(p) - 1
      PROVE  BootAt(k + 1)' /\ PinsTyped'
  <2>1. Act(Put(p, Idle(p)))
    BY <1>1, <1>7, InitShape
  <2>2. /\ latch' = [latch EXCEPT ![p] = Idle(p)] /\ out' = out
        /\ sampled' = sampled /\ got' = got /\ PinsTyped'
    BY <1>2, <1>4, <2>1, PutDone
  <2>3. latch'[p] = Idle(p) /\ \A q \in Ours \ {p} : latch'[q] = latch[q]
    BY <1>4, <2>2 DEF PinsTyped
  <2>5. \A q \in Ours \ {p} : /\ out'[q] <=> k + 1 >= Driven(q)
                              /\ k + 1 >= Driven(q) - 1 => latch'[q] = Idle(q)
    <3> SUFFICES ASSUME NEW q \in Ours \ {p}
                 PROVE  /\ out'[q] <=> k + 1 >= Driven(q)
                        /\ k + 1 >= Driven(q) - 1 => latch'[q] = Idle(q)
      OBVIOUS
    <3>1. /\ Driven(p) \in Nat /\ Driven(q) \in Nat
          /\ Driven(p) + 3 <= Driven(q) \/ Driven(q) + 3 <= Driven(p)
      BY <1>3, <1>4
    <3>2. /\ out[q] <=> k >= Driven(q)
          /\ k >= Driven(q) - 1 => latch[q] = Idle(q)
      BY DEF BootAt
    <3>3. out'[q] = out[q] /\ latch'[q] = latch[q]
      BY <2>2, <2>3
    <3> QED BY <1>7, <3>1, <3>2, <3>3
  <2>6. ~out'[p] /\ ~out'["DBUS"]
    BY <1>1, <1>4, <1>7, <2>2 DEF BootAt
  <2> QED BY <1>4, <1>7, <2>2, <2>3, <2>5, <2>6 DEF BootAt
<1>8. ASSUME NEW p \in Ours, k + 1 = Driven(p)
      PROVE  BootAt(k + 1)' /\ PinsTyped'
  <2>1. Act(DirOut(p))
    BY <1>1, <1>8, InitShape
  <2>2. /\ latch' = latch /\ out' = [out EXCEPT ![p] = TRUE]
        /\ sampled' = sampled /\ got' = got /\ PinsTyped'
    BY <1>2, <1>4, <2>1, OutDone
  <2>3. out'[p] /\ ~out'["DBUS"] /\ \A q \in Ours \ {p} : out'[q] = out[q]
    BY <1>4, <2>2, PinNames DEF BootAt, PinsTyped
  <2>5. \A q \in Ours \ {p} : /\ out'[q] <=> k + 1 >= Driven(q)
                              /\ k + 1 >= Driven(q) - 1 => latch'[q] = Idle(q)
    <3> SUFFICES ASSUME NEW q \in Ours \ {p}
                 PROVE  /\ out'[q] <=> k + 1 >= Driven(q)
                        /\ k + 1 >= Driven(q) - 1 => latch'[q] = Idle(q)
      OBVIOUS
    <3>1. /\ Driven(p) \in Nat /\ Driven(q) \in Nat
          /\ Driven(p) + 3 <= Driven(q) \/ Driven(q) + 3 <= Driven(p)
      BY <1>3, <1>4
    <3>2. /\ out[q] <=> k >= Driven(q)
          /\ k >= Driven(q) - 1 => latch[q] = Idle(q)
      BY DEF BootAt
    <3>3. out'[q] = out[q] /\ latch'[q] = latch[q]
      BY <2>2, <2>3
    <3> QED BY <1>8, <3>1, <3>2, <3>3
  <2>6. latch'[p] = Idle(p)
    BY <1>1, <1>4, <1>8, <2>2 DEF BootAt
  <2> QED BY <1>4, <1>8, <2>2, <2>3, <2>5, <2>6 DEF BootAt
<1>9. \/ k = 0
      \/ \E p \in Ours : k + 1 \in {Driven(p) - 2, Driven(p) - 1, Driven(p)}
  <2>1. {"AD", "RD", "WR", "GATE", "RESET", "DIR"} = Ours
    BY DEF Ours, Outputs, Strobes
  <2> QED BY <1>1, <2>1 DEF Driven
<1> QED BY <1>1, <1>5, <1>6, <1>7, <1>8, <1>9

\* A write, from each of its operations to the next: the value is on the bus from
\* before -WR falls until after it rises.
LEMMA WriteStep ==
  ASSUME PinsTyped, Step, NEW r \in Regs, NEW v \in Values, NEW k \in 0 .. 8,
         access = <<"write", r, v>>, Left(WriteOps(r, v), k), WriteAt(r, v, k)
  PROVE  /\ k + 1 \in 0 .. 8 /\ Left(WriteOps(r, v), k + 1)' /\ WriteAt(r, v, k + 1)'
         /\ PinsTyped' /\ access' = access
<1> DEFINE ops == WriteOps(r, v)
           o == ops[k + 1]
<1> HIDE DEF ops
<1>0. /\ ops \in Seq(Ops) /\ Len(ops) = 8
      /\ ops[1] = Put("AD", r) /\ ops[2] = Put("DIR", 0) /\ ops[3] = DirOut("DBUS")
      /\ ops[4] = Put("DBUS", v) /\ ops[5] = Put("WR", 0) /\ ops[6] = Put("WR", 1)
      /\ ops[7] = DirIn("DBUS") /\ ops[8] = Put("DIR", 1)
  BY WriteShape DEF ops
<1>1. /\ k \in 0 .. 7 /\ Left(WriteOps(r, v), k + 1)' /\ access' = access
      /\ Act(o)
  <2>1. k \in 0 .. Len(ops) /\ Left(ops, k)
    BY <1>0 DEF ops
  <2>2. /\ k + 1 \in 1 .. Len(ops) /\ prog' = SubSeq(ops, (k + 1) + 1, Len(ops)) /\ Act(o)
        /\ access' = access
    BY <1>0, <2>1, Advance
  <2> QED BY <1>0, <2>2 DEF Left, ops
<1>2. access[1] = "write" /\ {r, v, 0, 1} \subseteq Vals
  BY DEF Vals
<1>3. CASE k = 0
  <2>0. Act(Put("AD", r))
    BY <1>0, <1>1, <1>3
  <2>1. /\ latch' = [latch EXCEPT !["AD"] = r] /\ out' = out /\ sampled' = sampled
        /\ got' = got /\ PinsTyped'
    BY <1>2, <2>0, PutDone, PinNames
  <2> QED BY <1>1, <1>3, <2>1, PinNames DEF WriteAt, Awake, PinsTyped
<1>4. CASE k \in {1, 7}
  <2>0. Act(Put("DIR", IF k = 1 THEN 0 ELSE 1))
    BY <1>0, <1>1, <1>4
  <2>1. /\ latch' = [latch EXCEPT !["DIR"] = IF k = 1 THEN 0 ELSE 1] /\ out' = out
        /\ sampled' = sampled /\ got' = got /\ PinsTyped'
    BY <1>2, <2>0, PutDone, PinNames
  <2> QED BY <1>1, <1>4, <2>1, PinNames DEF WriteAt, Awake, PinsTyped
<1>5. CASE k = 2
  <2>0. Act(DirOut("DBUS"))
    BY <1>0, <1>1, <1>5
  <2>1. /\ latch' = latch /\ out' = [out EXCEPT !["DBUS"] = TRUE] /\ sampled' = sampled
        /\ got' = got /\ PinsTyped'
    BY <1>2, <2>0, OutDone, PinNames
  <2> QED BY <1>1, <1>5, <2>1, PinNames DEF WriteAt, Awake, PinsTyped
<1>6. CASE k = 3
  <2>0. Act(Put("DBUS", v))
    BY <1>0, <1>1, <1>6
  <2>1. /\ latch' = [latch EXCEPT !["DBUS"] = v] /\ out' = out /\ sampled' = sampled
        /\ got' = got /\ PinsTyped'
    BY <1>2, <2>0, PutDone, PinNames
  <2> QED BY <1>1, <1>6, <2>1, PinNames DEF WriteAt, Awake, PinsTyped
<1>7. CASE k = 4
  <2>0. Act(Put("WR", 0))
    BY <1>0, <1>1, <1>7
  <2>1. /\ latch' = [latch EXCEPT !["WR"] = 0] /\ out' = out /\ sampled' = sampled /\ PinsTyped'
    BY <1>2, <2>0, PutDone, PinNames
  <2>2. got' = got
    BY <1>2, <1>7, <2>0, StrobeDone, PinNames DEF WriteAt, Awake
  <2> QED BY <1>1, <1>7, <2>1, <2>2, PinNames DEF WriteAt, Awake, PinsTyped
<1>8. CASE k = 5
  <2>0. Act(Put("WR", 1))
    BY <1>0, <1>1, <1>8
  <2>1. /\ latch' = [latch EXCEPT !["WR"] = 1] /\ out' = out /\ sampled' = sampled /\ PinsTyped'
    BY <1>2, <2>0, PutDone, PinNames
  <2>2. Level("AD") = r /\ OnBus = v
    BY <1>8, PinNames DEF WriteAt, Awake, Level, OnBus
  <2>3. got' = Append(got, <<Level("AD"), OnBus>>) /\ got = <<>>
    BY <1>2, <1>8, <2>0, StrobeDone, PinNames DEF WriteAt, Awake
  <2>4. got' = << <<r, v>> >>
    BY <2>2, <2>3
  <2> QED BY <1>1, <1>8, <2>1, <2>4, PinNames DEF WriteAt, Awake, PinsTyped
<1>9. CASE k = 6
  <2>0. Act(DirIn("DBUS"))
    BY <1>0, <1>1, <1>9
  <2>1. /\ latch' = latch /\ out' = [out EXCEPT !["DBUS"] = FALSE] /\ sampled' = sampled
        /\ got' = got /\ PinsTyped'
    BY <1>2, <2>0, InDone, PinNames
  <2> QED BY <1>1, <1>9, <2>1, PinNames DEF WriteAt, Awake, PinsTyped
<1> QED BY <1>1, <1>3, <1>4, <1>5, <1>6, <1>7, <1>8, <1>9

\* A read, from each of its operations to the next: the bus is the drive's throughout.
LEMMA ReadStep ==
  ASSUME PinsTyped, Step, NEW r \in Regs, NEW k \in 0 .. 6,
         access = <<"read", r, 0>>, Left(ReadOps(r), k), ReadAt(r, k)
  PROVE  /\ k + 1 \in 0 .. 6 /\ Left(ReadOps(r), k + 1)' /\ ReadAt(r, k + 1)'
         /\ PinsTyped' /\ access' = access
<1> DEFINE ops == ReadOps(r)
           o == ops[k + 1]
<1> HIDE DEF ops
<1>0. /\ ops \in Seq(Ops) /\ Len(ops) = 6
      /\ ops[1] = Put("AD", r) /\ ops[2] = DirIn("DBUS") /\ ops[3] = Put("DIR", 1)
      /\ ops[4] = Put("RD", 0) /\ ops[5] = Sample /\ ops[6] = Put("RD", 1)
  BY ReadShape DEF ops
<1>1. /\ k \in 0 .. 5 /\ Left(ReadOps(r), k + 1)' /\ access' = access
      /\ Act(o)
  <2>1. k \in 0 .. Len(ops) /\ Left(ops, k)
    BY <1>0 DEF ops
  <2>2. /\ k + 1 \in 1 .. Len(ops) /\ prog' = SubSeq(ops, (k + 1) + 1, Len(ops)) /\ Act(o)
        /\ access' = access
    BY <1>0, <2>1, Advance
  <2> QED BY <1>0, <2>2 DEF Left, ops
<1>2. access[1] = "read" /\ {r, 0, 1} \subseteq Vals
  BY DEF Vals
<1>3. CASE k = 0
  <2>0. Act(Put("AD", r))
    BY <1>0, <1>1, <1>3
  <2>1. /\ latch' = [latch EXCEPT !["AD"] = r] /\ out' = out /\ sampled' = sampled
        /\ got' = got /\ PinsTyped'
    BY <1>2, <2>0, PutDone, PinNames
  <2> QED BY <1>1, <1>3, <2>1, PinNames DEF ReadAt, Awake, Off, PinsTyped
<1>4. CASE k = 1
  <2>0. Act(DirIn("DBUS"))
    BY <1>0, <1>1, <1>4
  <2>1. /\ latch' = latch /\ out' = [out EXCEPT !["DBUS"] = FALSE] /\ sampled' = sampled
        /\ got' = got /\ PinsTyped'
    BY <1>2, <2>0, InDone, PinNames
  <2> QED BY <1>1, <1>4, <2>1, PinNames DEF ReadAt, Awake, Off, PinsTyped
<1>5. CASE k = 2
  <2>0. Act(Put("DIR", 1))
    BY <1>0, <1>1, <1>5
  <2>1. /\ latch' = [latch EXCEPT !["DIR"] = 1] /\ out' = out /\ sampled' = sampled
        /\ got' = got /\ PinsTyped'
    BY <1>2, <2>0, PutDone, PinNames
  <2> QED BY <1>1, <1>5, <2>1, PinNames DEF ReadAt, Awake, Off, PinsTyped
<1>6. CASE k \in {3, 5}
  <2>0. Act(Put("RD", IF k = 3 THEN 0 ELSE 1))
    BY <1>0, <1>1, <1>6
  <2>1. /\ latch' = [latch EXCEPT !["RD"] = IF k = 3 THEN 0 ELSE 1] /\ out' = out
        /\ sampled' = sampled /\ got' = got /\ PinsTyped'
    BY <1>2, <2>0, PutDone, PinNames
  <2> QED BY <1>1, <1>6, <2>1, PinNames DEF ReadAt, Awake, Off, PinsTyped
<1>7. CASE k = 4
  <2>1. /\ latch' = latch /\ out' = out /\ sampled' = Append(sampled, Answer)
        /\ got' = got /\ PinsTyped'
    BY <1>0, <1>1, <1>7, SampleDone
  <2>2. Answer = r /\ sampled = <<>>
    BY <1>7, PinNames DEF ReadAt, Awake, Off, Answer, Level
  <2>3. sampled' = <<r>>
    BY <2>1, <2>2
  <2> QED BY <1>1, <1>7, <2>1, <2>3, PinNames DEF ReadAt, Awake, Off, PinsTyped
<1> QED BY <1>1, <1>3, <1>4, <1>5, <1>6, <1>7

\* The reset pulse.
LEMMA ResetStep ==
  ASSUME PinsTyped, Step, NEW k \in 0 .. 2, access = <<"reset", 0, 0>>, Left(ResetOps, k), ResetAt(k)
  PROVE  /\ k + 1 \in 0 .. 2 /\ Left(ResetOps, k + 1)' /\ ResetAt(k + 1)'
         /\ PinsTyped' /\ access' = access
<1> DEFINE o == ResetOps[k + 1]
<1>1. k \in 0 .. 1 /\ Left(ResetOps, k + 1)' /\ access' = access /\ Act(o)
  <2>1. ResetOps \in Seq(Ops) /\ Len(ResetOps) = 2 /\ k \in 0 .. Len(ResetOps)
    BY ShortShapes
  <2>2. /\ k + 1 \in 1 .. 2 /\ prog' = SubSeq(ResetOps, (k + 1) + 1, Len(ResetOps)) /\ Act(o)
        /\ access' = access
    BY <2>1, Advance
  <2> QED BY <2>2 DEF Left
<1>2. o = Put("RESET", IF k = 0 THEN 0 ELSE 1) /\ {0, 1} \subseteq Vals
  BY <1>1, ShortShapes DEF Vals
<1>3. /\ latch' = [latch EXCEPT !["RESET"] = IF k = 0 THEN 0 ELSE 1] /\ out' = out
      /\ sampled' = sampled /\ got' = got /\ PinsTyped'
  BY <1>1, <1>2, PutDone, PinNames
<1> QED BY <1>1, <1>3, PinNames DEF ResetAt, Awake, Off, PinsTyped

\* The read gate.
LEMMA GateStep ==
  ASSUME PinsTyped, Step, NEW v \in {0, 1}, NEW k \in 0 .. 1, access = <<"gate", 0, v>>,
         Left(GateOps(v), k), GateAt
  PROVE  k + 1 \in 0 .. 1 /\ Left(GateOps(v), k + 1)' /\ GateAt' /\ PinsTyped' /\ access' = access
<1> DEFINE o == GateOps(v)[k + 1]
<1>1. k = 0 /\ Left(GateOps(v), k + 1)' /\ access' = access /\ Act(o)
  BY ShortShapes, Advance DEF Left
<1>2. o = Put("GATE", v) /\ v \in Vals
  BY <1>1, ShortShapes DEF Vals
<1>3. /\ latch' = [latch EXCEPT !["GATE"] = v] /\ out' = out
      /\ sampled' = sampled /\ got' = got /\ PinsTyped'
  BY <1>1, <1>2, PutDone, PinNames
<1> QED BY <1>1, <1>3, PinNames DEF GateAt, Awake, Off, PinsTyped

-----------------------------------------------------------------------------
(* The invariant.                                                          *)

\* Between two operations every strobe rests and the bus is the drive's.
LEMMA AtRest == ASSUME PinInv, prog = <<>> PROVE Awake({}) /\ Off
<1>1. CASE access = <<"boot", 0, 0>> /\ \E k \in 0 .. 19 : Left(InitOps, k) /\ BootAt(k)
  <2>1. BootAt(19)
    BY <1>1, InitShape, AllDone
  <2>2. \A p \in Ours : Driven(p) \in 4 .. 19
    BY DEF Driven, Ours, Outputs, Strobes
  <2>3. \A p \in Ours : out[p] /\ latch[p] = Idle(p)
    BY <2>1, <2>2 DEF BootAt
  <2> QED BY <2>1, <2>3 DEF BootAt, Awake, Off, Idle, Ours, Outputs, Strobes
<1>2. ASSUME NEW r \in Regs, NEW v \in Values, NEW k \in 0 .. 8,
             Left(WriteOps(r, v), k), WriteAt(r, v, k)
      PROVE  Awake({}) /\ Off
  <2>1. k = 8
    BY <1>2, WriteShape, AllDone
  <2> QED BY <1>2, <2>1 DEF WriteAt, Awake, Off
<1>3. ASSUME NEW r \in Regs, NEW k \in 0 .. 6, Left(ReadOps(r), k), ReadAt(r, k)
      PROVE  Awake({}) /\ Off
  <2>1. k = 6
    BY <1>3, ReadShape, AllDone
  <2> QED BY <1>3, <2>1 DEF ReadAt, Awake, Off
<1>4. ASSUME NEW k \in 0 .. 2, Left(ResetOps, k), ResetAt(k)
      PROVE  Awake({}) /\ Off
  <2>1. k = 2
    BY <1>4, ShortShapes, AllDone
  <2> QED BY <1>4, <2>1 DEF ResetAt, Awake, Off
<1>5. CASE GateAt
  BY <1>5 DEF GateAt
<1> QED BY <1>1, <1>2, <1>3, <1>4, <1>5 DEF PinInv

\* An operation begins only where the one before has ended, with everything at rest.
LEMMA BeginStep ==
  ASSUME PinInv, Write \/ Read \/ ResetDrive \/ Gate PROVE PinInv'
<1>1. Awake({}) /\ Off /\ PinsTyped
  BY AtRest DEF Write, Read, ResetDrive, Gate, Start, PinInv
<1>2. CASE Write
  <2>1. PICK r \in Regs, v \in Values : Start("write", r, v, WriteOps(r, v))
    BY <1>2 DEF Write
  <2>2. access' = <<"write", r, v>> /\ Left(WriteOps(r, v), 0)'
    BY <2>1, WriteShape, Begun DEF Start
  <2>3. PinsTyped' /\ WriteAt(r, v, 0)'
    BY <1>1, <2>1 DEF Start, WriteAt, Awake, Off, PinsTyped
  <2> QED BY <2>2, <2>3 DEF PinInv
<1>3. CASE Read
  <2>1. PICK r \in Regs : Start("read", r, 0, ReadOps(r))
    BY <1>3 DEF Read
  <2>2. access' = <<"read", r, 0>> /\ Left(ReadOps(r), 0)'
    BY <2>1, ReadShape, Begun DEF Start
  <2>3. PinsTyped' /\ ReadAt(r, 0)'
    BY <1>1, <2>1 DEF Start, ReadAt, Awake, Off, PinsTyped
  <2> QED BY <2>2, <2>3 DEF PinInv
<1>4. CASE ResetDrive
  <2>1. access' = <<"reset", 0, 0>> /\ Left(ResetOps, 0)'
    BY <1>4, ShortShapes, Begun DEF ResetDrive, Start
  <2>2. PinsTyped' /\ ResetAt(0)'
    BY <1>1, <1>4 DEF ResetDrive, Start, ResetAt, Awake, Off, PinsTyped
  <2> QED BY <2>1, <2>2 DEF PinInv
<1>5. CASE Gate
  <2>1. PICK v \in {0, 1} : Start("gate", 0, v, GateOps(v))
    BY <1>5 DEF Gate, GateOps
  <2>2. access' = <<"gate", 0, v>> /\ Left(GateOps(v), 0)'
    BY <2>1, ShortShapes, Begun DEF Start
  <2>3. PinsTyped' /\ GateAt'
    BY <1>1, <2>1 DEF Start, GateAt, Awake, Off, PinsTyped
  <2> QED BY <2>2, <2>3 DEF PinInv
<1> QED BY <1>2, <1>3, <1>4, <1>5

\* At any moment some number of the operations of the program are done, and the pins
\* are what those leave behind.
THEOREM PinInductive == PinSpec => []PinInv
<1>1. PinInit => PinInv
  <2> SUFFICES ASSUME PinInit PROVE PinInv
    OBVIOUS
  <2>1. PinsTyped /\ BootAt(0)
    <3>1. \A p \in Ours : p \in Pins /\ Driven(p) \in 4 .. 19
      BY PinNames DEF Driven, Ours, Outputs, Strobes
    <3> QED BY <3>1, PinNames DEF PinInit, PinsTyped, BootAt, Vals
  <2>2. Left(InitOps, 0)
    BY InitShape, SubSeqFull DEF PinInit, Left
  <2> QED BY <2>1, <2>2 DEF PinInv, PinInit
<1>2. PinInv /\ [PinNext]_pinVars => PinInv'
  <2> SUFFICES ASSUME PinInv, [PinNext]_pinVars PROVE PinInv'
    OBVIOUS
  <2>1. CASE Write \/ Read \/ ResetDrive \/ Gate
    BY <2>1, BeginStep
  <2>2. CASE Step
    <3>0. PinsTyped
      BY DEF PinInv
    <3>1. CASE access = <<"boot", 0, 0>> /\ \E k \in 0 .. 19 : Left(InitOps, k) /\ BootAt(k)
      <4>1. PICK k \in 0 .. 19 : Left(InitOps, k) /\ BootAt(k)
        BY <3>1
      <4>2. /\ k + 1 \in 0 .. 19 /\ Left(InitOps, k + 1)' /\ BootAt(k + 1)'
            /\ PinsTyped' /\ access' = access
        BY <2>2, <3>0, <3>1, <4>1, BootStep
      <4> QED BY <3>1, <4>2 DEF PinInv
    <3>2. ASSUME NEW r \in Regs, NEW v \in Values, NEW k \in 0 .. 8,
                 access = <<"write", r, v>>, Left(WriteOps(r, v), k), WriteAt(r, v, k)
          PROVE  PinInv'
      <4>1. /\ k + 1 \in 0 .. 8 /\ Left(WriteOps(r, v), k + 1)' /\ WriteAt(r, v, k + 1)'
            /\ PinsTyped' /\ access' = access
        BY <2>2, <3>0, <3>2, WriteStep
      <4> QED BY <3>2, <4>1 DEF PinInv
    <3>3. ASSUME NEW r \in Regs, NEW k \in 0 .. 6,
                 access = <<"read", r, 0>>, Left(ReadOps(r), k), ReadAt(r, k)
          PROVE  PinInv'
      <4>1. /\ k + 1 \in 0 .. 6 /\ Left(ReadOps(r), k + 1)' /\ ReadAt(r, k + 1)'
            /\ PinsTyped' /\ access' = access
        BY <2>2, <3>0, <3>3, ReadStep
      <4> QED BY <3>3, <4>1 DEF PinInv
    <3>4. ASSUME NEW k \in 0 .. 2, access = <<"reset", 0, 0>>, Left(ResetOps, k), ResetAt(k)
          PROVE  PinInv'
      <4>1. /\ k + 1 \in 0 .. 2 /\ Left(ResetOps, k + 1)' /\ ResetAt(k + 1)'
            /\ PinsTyped' /\ access' = access
        BY <2>2, <3>0, <3>4, ResetStep
      <4> QED BY <3>4, <4>1 DEF PinInv
    <3>5. ASSUME NEW v \in {0, 1}, NEW k \in 0 .. 1,
                 access = <<"gate", 0, v>>, Left(GateOps(v), k), GateAt
          PROVE  PinInv'
      <4>1. /\ k + 1 \in 0 .. 1 /\ Left(GateOps(v), k + 1)' /\ GateAt'
            /\ PinsTyped' /\ access' = access
        BY <2>2, <3>0, <3>5, GateStep
      <4> QED BY <3>5, <4>1 DEF PinInv
    <3> QED BY <3>1, <3>2, <3>3, <3>4, <3>5 DEF PinInv
  <2>3. CASE UNCHANGED pinVars
    BY <2>3 DEF pinVars, PinInv, PinsTyped, Left, BootAt, WriteAt, ReadAt, ResetAt, GateAt, Awake, Off
  <2> QED BY <2>1, <2>2, <2>3 DEF PinNext
<1> QED BY <1>1, <1>2, PTL DEF PinSpec

\* pb_init drives no strobe that is not at rest, and on either side of U1 only one
\* drives the bus, whatever operations follow each other.
THEOREM BusNeverFought == PinSpec => []BusSafe
<1>1. PinInv => BusSafe
  <2> SUFFICES ASSUME PinInv PROVE BusSafe
    OBVIOUS
  <2>1. CASE access = <<"boot", 0, 0>> /\ \E k \in 0 .. 19 : Left(InitOps, k) /\ BootAt(k)
    <3>1. PICK k \in 0 .. 19 : BootAt(k)
      BY <2>1
    <3>2. \A p \in Ours : Driven(p) \in 4 .. 19
      BY DEF Driven, Ours, Outputs, Strobes
    <3>3. \A p \in Ours : out[p] => latch[p] = Idle(p)
      BY <3>1, <3>2 DEF BootAt
    <3>4. Level("RESET") = 1
      BY <3>3 DEF Level, Idle, Ours, Outputs
    <3> QED BY <2>1, <3>1, <3>3, <3>4, PinNames DEF BusSafe, NoContention, ParkedIdle, BootAt
  <2>2. ASSUME NEW r \in Regs, NEW v \in Values, NEW k \in 0 .. 8,
               access = <<"write", r, v>>, WriteAt(r, v, k)
        PROVE  BusSafe
    BY <2>2, PinNames DEF WriteAt, Awake, BusSafe, NoContention, ParkedIdle, Level
  <2>3. ASSUME NEW r \in Regs, NEW k \in 0 .. 6, access = <<"read", r, 0>>, ReadAt(r, k)
        PROVE  BusSafe
    BY <2>3, PinNames DEF ReadAt, Awake, Off, BusSafe, NoContention, ParkedIdle, Level
  <2>4. ASSUME NEW k \in 0 .. 2, access = <<"reset", 0, 0>>, ResetAt(k)
        PROVE  BusSafe
    BY <2>4, PinNames DEF ResetAt, Awake, Off, BusSafe, NoContention, ParkedIdle, Level
  <2>5. ASSUME NEW v \in {0, 1}, access = <<"gate", 0, v>>, GateAt
        PROVE  BusSafe
    BY <2>5, PinNames DEF GateAt, Awake, Off, BusSafe, NoContention, ParkedIdle, Level
  <2> QED BY <2>1, <2>2, <2>3, <2>4, <2>5 DEF PinInv
<1> QED BY <1>1, PinInductive, PTL

\* write_register and read_register are what PriamBus takes them for: one access of
\* the drive, with that register and that value.
THEOREM AccessesAtomic == PinSpec => []AccessTrue
<1>1. PinInv => AccessTrue
  <2> SUFFICES ASSUME PinInv PROVE AccessTrue
    OBVIOUS
  <2>0. latch \in [Pins -> Values \cup Regs \cup {0, 1}] /\ out \in [Pins -> BOOLEAN]
    BY DEF PinInv, PinsTyped, Vals
  <2>1. CASE access = <<"boot", 0, 0>> /\ \E k \in 0 .. 19 : Left(InitOps, k) /\ BootAt(k)
    BY <2>0, <2>1, EmptySeq DEF AccessTrue, PinTypeOK, WriteTrue, ReadTrue, BootAt
  <2>2. ASSUME NEW r \in Regs, NEW v \in Values, NEW k \in 0 .. 8,
               access = <<"write", r, v>>, Left(WriteOps(r, v), k), WriteAt(r, v, k)
        PROVE  AccessTrue
    <3>1. prog = <<>> => k = 8
      BY <2>2, WriteShape, AllDone
    <3>2. got = IF k < 6 THEN <<>> ELSE << <<r, v>> >>
      BY <2>2 DEF WriteAt
    <3>3. sampled = <<>>
      BY <2>2 DEF WriteAt
    <3>4. Len(got) <= 1 /\ Len(sampled) <= 1
      BY <3>2, <3>3
    <3> QED BY <2>0, <2>2, <3>1, <3>2, <3>4 DEF AccessTrue, PinTypeOK, WriteTrue, ReadTrue
  <2>3. ASSUME NEW r \in Regs, NEW k \in 0 .. 6,
               access = <<"read", r, 0>>, Left(ReadOps(r), k), ReadAt(r, k)
        PROVE  AccessTrue
    <3>1. prog = <<>> => k = 6
      BY <2>3, ReadShape, AllDone
    <3>2. sampled = IF k < 5 THEN <<>> ELSE <<r>>
      BY <2>3 DEF ReadAt
    <3>3. got = <<>>
      BY <2>3 DEF ReadAt
    <3>4. Len(got) <= 1 /\ Len(sampled) <= 1
      BY <3>2, <3>3
    <3> QED BY <2>0, <2>3, <3>1, <3>2, <3>3, <3>4 DEF AccessTrue, PinTypeOK, WriteTrue, ReadTrue
  <2>4. ASSUME access \in {<<"reset", 0, 0>>, <<"gate", 0, 0>>, <<"gate", 0, 1>>},
               got = <<>>, sampled = <<>>
        PROVE  AccessTrue
    BY <2>0, <2>4, EmptySeq DEF AccessTrue, PinTypeOK, WriteTrue, ReadTrue
  <2>5. ASSUME NEW k \in 0 .. 2, access = <<"reset", 0, 0>>, ResetAt(k)
        PROVE  AccessTrue
    BY <2>4, <2>5 DEF ResetAt
  <2>6. ASSUME NEW v \in {0, 1}, access = <<"gate", 0, v>>, GateAt
        PROVE  AccessTrue
    BY <2>4, <2>6 DEF GateAt
  <2> QED BY <2>1, <2>2, <2>3, <2>5, <2>6 DEF PinInv
<1> QED BY <1>1, PinInductive, PTL
=============================================================================
