--------------------------------- MODULE BusPins ---------------------------------
(***************************************************************************)
(* priam_bus.c below the register operations: the GPIO pins, the bus       *)
(* transceiver U1 between them and the drive, and the strobes, one pin     *)
(* operation a step.  PriamBus takes its register accesses as atomic; here *)
(* is what that rests on; MCPriamBus extends both, so no name is in both.  *)
(***************************************************************************)
EXTENDS Naturals, Sequences

CONSTANTS
  Regs,    \* what AD0 and AD1 say
  Values   \* bytes

\* DBUS and AD are groups of pins.
Strobes == {"RD", "WR", "GATE"}
Outputs == Strobes \cup {"AD", "RESET"}
Pins    == Outputs \cup {"DBUS", "DIR"}
Idle(p) == IF p = "AD" THEN 0 ELSE 1  \* CONTROL_IDLE_HIGH_MASK

VARIABLES
  latch, out, \* of each pin: its output latch, whether it is an output
  prog,       \* the pin operations still to be done
  access,     \* what they are part of, <<kind, register, value>>
  got,        \* what the drive took in the write, a <<register, value>> each time
  sampled     \* what the read returned

pinVars == <<latch, out, prog, access, got, sampled>>

Junk == 256  \* no byte, no register

\* A pad out of reset is an input with a pull-down; R29 pulls -RESET up.
Level(p) == IF out[p] THEN latch[p] ELSE IF p = "RESET" THEN 1 ELSE 0

-----------------------------------------------------------------------------
(* The operations, as they follow each other in the code.                  *)

Put(p, v) == <<"put", p, v>>
DirOut(p) == <<"out", p, 0>>
DirIn(p) == <<"in", p, 0>>
Reinit(p) == <<"init", p, 0>>  \* gpio_init: an input, its latch 0
Sample == <<"sample", "DBUS", 0>>

Parked_Late(p) == <<Reinit(p), DirOut(p), Put(p, Idle(p))>>  \* mutant: driven, then parked
Parked(p) == <<Reinit(p), Put(p, Idle(p)), DirOut(p)>>
InitOps == <<Reinit("DBUS"), Reinit("DIR"), Put("DIR", 1), DirOut("DIR")>>
           \o Parked("AD") \o Parked("RD") \o Parked("WR") \o Parked("GATE") \o Parked("RESET")

DriveBus(v) == <<Put("DIR", 0), DirOut("DBUS"), Put("DBUS", v)>>
Release_Dir == <<Put("DIR", 1), DirIn("DBUS")>>  \* mutant: U1 is turned first
Release == <<DirIn("DBUS"), Put("DIR", 1)>>
WriteOps_Early(r, v) ==  \* mutant: the bus is let go within the strobe
  <<Put("AD", r)>> \o DriveBus(v) \o <<Put("WR", 0)>> \o Release \o <<Put("WR", 1)>>
WriteOps(r, v) ==
  <<Put("AD", r)>> \o DriveBus(v) \o <<Put("WR", 0), Put("WR", 1)>> \o Release
ReadOps_Late(r) ==  \* mutant: sampled after the strobe
  <<Put("AD", r)>> \o Release \o <<Put("RD", 0), Put("RD", 1), Sample>>
ReadOps(r) ==
  <<Put("AD", r)>> \o Release \o <<Put("RD", 0), Sample, Put("RD", 1)>>
ResetOps == <<Put("RESET", 0), Put("RESET", 1)>>

PinInit == /\ latch = [p \in Pins |-> 0] /\ out = [p \in Pins |-> FALSE]
           /\ prog = InitOps /\ access = <<"boot", 0, 0>>
           /\ got = <<>> /\ sampled = <<>>

-----------------------------------------------------------------------------
Start(kind, r, v, ops) ==
  /\ prog = <<>>
  /\ access' = <<kind, r, v>> /\ prog' = ops
  /\ got' = <<>> /\ sampled' = <<>>
  /\ UNCHANGED <<latch, out>>

Write == \E r \in Regs, v \in Values : Start("write", r, v, WriteOps(r, v))
Read  == \E r \in Regs : Start("read", r, 0, ReadOps(r))
ResetDrive == Start("reset", 0, 0, ResetOps)  \* host_cli: reset
Gate  == \E v \in {0, 1} : Start("gate", 0, v, <<Put("GATE", v)>>)

\* The drive takes the bus as it is when -WR rises, and sources it while -RD is low.
OnBus == IF Level("DIR") = 0 /\ out["DBUS"] THEN latch["DBUS"] ELSE Junk
Answer == IF Level("DIR") = 1 /\ ~out["DBUS"] /\ Level("RD") = 0 THEN Level("AD") ELSE Junk
Do(what, p, x) ==
  /\ CASE what = "put"  -> latch' = [latch EXCEPT ![p] = x] /\ UNCHANGED out
       [] what \in {"out", "in"} -> out' = [out EXCEPT ![p] = (what = "out")] /\ UNCHANGED latch
       [] what = "init" -> /\ latch' = [latch EXCEPT ![p] = 0]
                           /\ out' = [out EXCEPT ![p] = FALSE]
       [] OTHER         -> UNCHANGED <<latch, out>>
  /\ got' = IF access[1] # "boot" /\ Level("WR") = 0 /\ Level("WR")' = 1
            THEN Append(got, <<Level("AD"), OnBus>>) ELSE got
  /\ sampled' = IF what = "sample" THEN Append(sampled, Answer) ELSE sampled
Step == /\ prog # <<>>
        /\ Do(Head(prog)[1], Head(prog)[2], Head(prog)[3])
        /\ prog' = Tail(prog)
        /\ UNCHANGED access

PinNext == Write \/ Read \/ ResetDrive \/ Gate \/ Step
PinSpec == PinInit /\ [][PinNext]_pinVars

-----------------------------------------------------------------------------
\* A write reaches the drive at most once, and a read samples the bus at most once.
PinTypeOK ==
  /\ latch \in [Pins -> Values \cup Regs \cup {0, 1}] /\ out \in [Pins -> BOOLEAN]
  /\ access[1] \in {"boot", "write", "read", "reset", "gate"}
  /\ Len(got) <= 1 /\ Len(sampled) <= 1

\* "we never contend with the drive": on the core's side U1 and the Pico never both
\* drive the bus, from power-on; on the drive's side U1 and the drive never do, and
\* -RD and -WR are never both asserted, once the pins are parked.
NoContention ==
  /\ ~(out["DBUS"] /\ Level("DIR") = 1)
  /\ access[1] # "boot" => /\ ~(Level("DIR") = 0 /\ Level("RD") = 0)
                           /\ ~(Level("RD") = 0 /\ Level("WR") = 0)

\* "the first driven level is idle": no output that boot turns on asserts a strobe,
\* and -RESET is never low but in the reset command.
ParkedIdle ==
  /\ access[1] = "boot" => \A p \in Outputs : out[p] => latch[p] = Idle(p)
  /\ access[1] # "reset" => Level("RESET") = 1

\* A register write reaches the drive once, with its register and its value; every
\* other operation leaves the drive's registers alone.
WriteTrue == access[1] # "boot" =>
  IF access[1] = "write" THEN /\ got # <<>> => got = << <<access[2], access[3]>> >>
                              /\ prog = <<>> => got # <<>>
  ELSE got = <<>>

\* A read returns what the drive put on the bus for that register.
ReadTrue ==
  access[1] = "read" => /\ sampled # <<>> => sampled = <<access[2]>>
                        /\ prog = <<>> => sampled # <<>>

\* The Pico, U1 and the drive never drive the bus against each other, and no
\* strobe is asserted before it is meant to be, -RESET but by the reset command.
BusSafe == NoContention /\ ParkedIdle
\* What PriamBus takes a register access for: a write_register reaches the drive
\* once and as it was meant, as does what the drive answers to a read_register.
AccessTrue == PinTypeOK /\ WriteTrue /\ ReadTrue
=============================================================================
