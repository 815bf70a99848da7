------------------------------ MODULE ConsoleLink ------------------------------
(***************************************************************************)
(* The serial link between a session of sweep.py (Console, main) and the   *)
(* console loop of the firmware (main.c, host_cli_task).  A session may be *)
(* killed or give up on a timeout at any moment, and another be started;   *)
(* the firmware goes on with the command it is at, and with the lines that *)
(* wait in its input.  It prints to whoever is connected then.             *)
(*                                                                         *)
(* A command is one line.  An answer is one message, which ends with the   *)
(* prompt; only the dump, 20 KB long, is cut in two.                       *)
(***************************************************************************)
EXTENDS Naturals, Sequences, SequencesExt

CONSTANTS
  Tracks,    \* the <cyl> <head> pairs a session images
  Backlog,   \* lines of dead sessions the firmware may still be at when one starts
  Sessions,  \* bound: times sweep.py is started
  Captures   \* bound: captures of a session, the warm-up not counted

ASSUME LinkAssumption ==
  Tracks # {} /\ Backlog \in Nat /\ Sessions \in Nat /\ Captures \in Nat

NoTrack == "none"
ASSUME NoTrackAssumption == NoTrack \notin Tracks

\* What the console prints, as far as the host looks at it.  Every message but
\* the first part of a dump ends with the prompt.
Banner      == [kind |-> "banner"]
Status(r)   == [kind |-> "status", ready |-> r]
Report(k,r) == [kind |-> "report", ok |-> k, ready |-> r]  \* "what: OK  status 0x.."
Captured(k) == [kind |-> "captured", ok |-> k]             \* "OK:", or "PARTIAL:", "FAIL:"
DumpHead(t) == [kind |-> "dump", of |-> t]                 \* from the BEGIN marker on
DumpTail    == [kind |-> "end"]                            \* up to the END marker, prompt
Messages == {Banner, DumpTail} \cup {Status(r) : r \in BOOLEAN}
            \cup {Report(k, r) : k, r \in BOOLEAN}
            \cup {Captured(k) : k \in BOOLEAN}
            \cup {DumpHead(t) : t \in Tracks \cup {NoTrack}}
Prompts_NotReports(m) == m.kind \notin {"dump", "report"}  \* mutant: a report returns without the prompt
Prompts(m) == m.kind # "dump"

Lines == {[cmd |-> "status"], [cmd |-> "up"], [cmd |-> "dumpb64"]}
         \cup {[cmd |-> "capture", of |-> t] : t \in Tracks}
NoLine == [cmd |-> "none"]

VARIABLES
  \* sweep.py
  phase,    \* the call main is in, "closed" when no session runs
  waiting,  \* cmd has sent its line and reads
  buf,      \* cmd's buffer: the messages read since
  want,     \* the track of the capture
  taken,    \* captures this session made
  started,  \* sessions so far
  \* the line
  toFw,     \* typed and not yet read by the firmware
  toHost,   \* printed and not yet read by the host
  \* the firmware
  connected,\* main.c's `connected`
  running,  \* the line it executes
  tail,     \* it is inside a dump
  ready,    \* READY of the drive
  buffer,   \* the track whose words fill the capture buffer
  \* history
  stored    \* captures image_track got: the track asked and the track it is of

host == <<phase, waiting, buf, want, taken, started>>
fw   == <<connected, running, tail, ready, buffer>>
vars == <<host, toFw, toHost, fw, stored>>

Phases == {"closed", "open", "status", "up", "recheck", "warm", "warmdump",
           "track", "dump"}
Open == phase # "closed"
Idle == running = NoLine
Pending == Len(toFw) + (IF Idle THEN 0 ELSE 1)  \* lines not answered

\* Only messages and lines of the protocol are on the link, within the bounds.
TypeOK ==
  /\ phase \in Phases /\ waiting \in BOOLEAN
  /\ buf \in Seq(Messages) /\ toHost \in Seq(Messages)
  /\ want \in Tracks /\ taken \in 0 .. Captures /\ started \in 0 .. Sessions
  /\ toFw \in Seq(Lines)
  /\ connected \in BOOLEAN /\ running \in Lines \cup {NoLine} /\ tail \in BOOLEAN
  /\ ready \in BOOLEAN /\ buffer \in Tracks \cup {NoTrack}
  /\ stored \subseteq Tracks \X (Tracks \cup {NoTrack})

Init ==
  /\ phase = "closed" /\ waiting = FALSE /\ buf = <<>>
  /\ want \in Tracks /\ taken = 0 /\ started = 0
  /\ toFw = <<>> /\ toHost = <<>>
  /\ connected = FALSE /\ running = NoLine /\ tail = FALSE
  /\ ready \in BOOLEAN /\ buffer = NoTrack
  /\ stored = {}

-----------------------------------------------------------------------------
(* sweep.py                                                                *)

\* Console.__init__: the port opens; what was printed to nobody is not there.
OpenPort ==
  /\ ~Open /\ started < Sessions
  /\ Pending <= Backlog
  /\ phase' = "open" /\ started' = started + 1
  /\ waiting' = FALSE /\ buf' = <<>> /\ taken' = 0 /\ want' \in Tracks
  /\ toHost' = <<>>
  /\ UNCHANGED <<toFw, fw, stored>>

Line == CASE phase \in {"status", "recheck"} -> [cmd |-> "status"]
          [] phase = "up"                   -> [cmd |-> "up"]
          [] phase \in {"warm", "track"}    -> [cmd |-> "capture", of |-> want]
          [] phase \in {"warmdump", "dump"} -> [cmd |-> "dumpb64"]

\* There are tracks, and reads of the track, to do.
More == taken < Captures

\* cmd: the input that has arrived is discarded, then the line is sent.
Discarded == <<>>
Send ==
  /\ Open /\ phase # "open" /\ ~waiting /\ buf = <<>>
  /\ phase = "track" => More
  /\ toHost' = Discarded
  /\ toFw' = Append(toFw, Line)
  /\ waiting' = TRUE /\ buf' = <<>>
  /\ UNCHANGED <<phase, want, taken, started, fw, stored>>

\* The 0.3 s after the port opened are over, and the input is discarded.
Settle ==
  /\ phase = "open"
  /\ phase' = "status" /\ toHost' = <<>>
  /\ UNCHANGED <<waiting, buf, want, taken, started, toFw, fw, stored>>

\* cmd: a chunk is read, of any length; if the buffer does not end with the
\* prompt then, the loop goes on.
Read ==
  /\ waiting /\ toHost # <<>>
  /\ \E n \in 1 .. Len(toHost) :
       /\ buf' = buf \o SubSeq(toHost, 1, n)
       /\ toHost' = SubSeq(toHost, n + 1, Len(toHost))
  /\ waiting' = ~Prompts(Last(buf'))
  /\ UNCHANGED <<phase, want, taken, started, toFw, fw, stored>>

Is(kind) == {i \in DOMAIN buf : buf[i].kind = kind}
First(I) == CHOOSE i \in I : \A j \in I : i <= j

\* status_byte: the first "status 0x" in the text; any report has one.
Statuses == Is("status") \cup Is("report")
Spun == buf[First(Statuses)].ready
\* 'OK' in the text; base64 may spell it, too.
SaysOK == Is("dump") # {} \/ \E i \in Is("report") \cup Is("captured") : buf[i].ok
\* 'OK:' in the text.
CaptureOK == \E i \in Is("captured") : buf[i].ok
\* Between the first BEGIN and the first END marker there are 15,120 bytes.
DumpOK == /\ Is("dump") # {} /\ Is("end") # {}
          /\ First(Is("end")) = First(Is("dump")) + 1
Dumped == buf[First(Is("dump"))].of

\* What main goes on to when cmd has returned; otherwise it stops.
Onward_Cold ==  \* mutant: no warm-up capture
  CASE phase \in {"status", "recheck"} -> IF Statuses # {} /\ Spun THEN {"track"} ELSE {}
    [] phase = "track"                 -> IF CaptureOK THEN {"dump"} ELSE {}
    [] OTHER                           -> IF DumpOK THEN {"track"} ELSE {}
Onward ==
  CASE phase = "status"   -> IF Statuses = {} THEN {} ELSE IF Spun THEN {"warm"} ELSE {"up"}
    [] phase = "up"       -> IF SaysOK THEN {"recheck"} ELSE {}
    [] phase = "recheck"  -> IF Statuses # {} /\ Spun THEN {"warm"} ELSE {}
    [] phase = "warm"     -> IF CaptureOK THEN {"warmdump"} ELSE {}
    [] phase = "warmdump" -> IF DumpOK THEN {"track"} ELSE {}
    [] phase = "track"    -> IF CaptureOK THEN {"dump"} ELSE {}
    [] phase = "dump"     -> IF DumpOK THEN {"track"} ELSE {}
Proceed ==
  /\ Open /\ phase # "open" /\ ~waiting /\ buf # <<>>
  /\ phase' \in Onward /\ buf' = <<>>
  /\ IF phase = "dump"
     THEN /\ stored' = stored \cup {<<want, Dumped>>}
          /\ taken' = taken + 1 /\ want' \in Tracks
     ELSE UNCHANGED <<stored, taken, want>>
  /\ UNCHANGED <<waiting, started, toFw, toHost, fw>>

\* The process ends: killed, or cmd has waited long enough (TimeoutError), or
\* it does not like the answer (RuntimeError), or its tracks are done.
Leave ==
  /\ Open
  /\ phase' = "closed" /\ waiting' = FALSE /\ buf' = <<>> /\ toHost' = <<>>
  /\ UNCHANGED <<want, taken, started, toFw, fw, stored>>

-----------------------------------------------------------------------------
(* The firmware: main.c's loop, one command at a time.                     *)

Utter(m) == toHost' = IF Open THEN Append(toHost, m) ELSE <<>>

Greet ==
  /\ Idle /\ Open /\ ~connected
  /\ connected' = TRUE /\ Utter(Banner)
  /\ UNCHANGED <<host, toFw, running, tail, ready, buffer, stored>>

Hangup ==
  /\ Idle /\ ~Open /\ connected
  /\ connected' = FALSE
  /\ UNCHANGED <<host, toFw, toHost, running, tail, ready, buffer, stored>>

Dispatch ==
  /\ Idle /\ toFw # <<>>
  /\ running' = Head(toFw) /\ toFw' = Tail(toFw)
  /\ UNCHANGED <<host, toHost, connected, tail, ready, buffer, stored>>

Done == running' = NoLine /\ UNCHANGED <<host, toFw, connected, stored>>

CmdStatus ==
  /\ running.cmd = "status"
  /\ Utter(Status(ready)) /\ Done /\ UNCHANGED <<tail, ready, buffer>>

CmdUp ==
  /\ running.cmd = "up"
  /\ \E ok \in BOOLEAN :
       /\ ready' \in (IF ok THEN {TRUE} ELSE {ready})
       /\ Utter(Report(ok, ready'))
  /\ Done /\ UNCHANGED <<tail, buffer>>

\* The seek fails; or there is no INDEX edge; or the clock stops on the way; or
\* the buffer holds that track.
CmdCapture ==
  /\ running.cmd = "capture"
  /\ \/ Utter(Report(FALSE, ready)) /\ buffer' = buffer
     \/ ready /\ Utter(Captured(FALSE)) /\ buffer' \in {buffer, NoTrack}
     \/ ready /\ Utter(Captured(TRUE)) /\ buffer' = running.of
  /\ Done /\ UNCHANGED <<tail, ready>>

CmdDump ==
  /\ running.cmd = "dumpb64"
  /\ \/ /\ ~tail /\ tail' = TRUE
        /\ Utter(DumpHead(buffer))
        /\ UNCHANGED <<host, toFw, connected, running, stored>>
     \/ /\ tail /\ tail' = FALSE
        /\ Utter(DumpTail) /\ Done
  /\ UNCHANGED <<ready, buffer>>

-----------------------------------------------------------------------------
Next == \/ OpenPort \/ Settle \/ Send \/ Read \/ Proceed \/ Leave
        \/ Greet \/ Hangup \/ Dispatch
        \/ CmdStatus \/ CmdUp \/ CmdCapture \/ CmdDump

Spec == Init /\ [][Next]_vars

-----------------------------------------------------------------------------
\* sweep.py's reading ends, or times out, on its own; of the firmware: a line it
\* has read is executed (Capture and PriamBus show that each command returns).
Fairness == WF_vars(Read) /\ WF_vars(Dispatch \/ CmdStatus \/ CmdUp \/ CmdCapture \/ CmdDump)
FairSpec == Spec /\ Fairness

-----------------------------------------------------------------------------
\* The warm-up capture and its dump put the session in step: whenever main goes
\* on from there the firmware is not behind, and it stops on any answer that is
\* not to the line just sent.
InStep == phase \in {"track", "dump"} /\ buf = <<>> =>
            Pending <= (IF waiting THEN 1 ELSE 0)

\* Why: the lines not answered yet, in their order, and what the host has of the
\* answers since it sent its own. To pass status, warm-up and dump it takes an
\* answer with a status, a capture's and a dump's, in this order; two lines of
\* dead sessions cannot give all three, so that one of its own did, which came last.
Outstanding == IF Idle THEN toFw ELSE <<running>> \o toFw
Heard == {buf[i] : i \in DOMAIN buf}
         \cup {m \in {toHost[i] : i \in DOMAIN toHost} : waiting}
Hears(kinds) == \E m \in Heard : m.kind \in kinds
Begun == waiting \/ buf # <<>>

NoDump(q)   == \A j \in DOMAIN q : q[j].cmd # "dumpb64"
DumpLast(q) == \A j \in DOMAIN q : j < Len(q) => q[j].cmd # "dumpb64"
NoPair(q)   == \A i, j \in DOMAIN q : i < j /\ q[i].cmd = "capture" => q[j].cmd # "dumpb64"
NoTriple(q) == \A i, j \in DOMAIN q :
                 1 < i /\ i < j /\ q[i].cmd = "capture" => q[j].cmd # "dumpb64"

CatchUpInv ==
  /\ phase = "open" => ~Begun
  /\ phase \in {"open", "status"} /\ ~Begun => Len(Outstanding) <= Backlog
  /\ phase = "status" /\ Begun =>
       NoTriple(Outstanding) /\ (Hears({"status", "report"}) => NoPair(Outstanding))
  /\ phase \in {"up", "recheck", "warm"} => NoPair(Outstanding)
  /\ phase = "warm" /\ Begun /\ Hears({"captured"}) => NoDump(Outstanding)
  /\ phase = "warmdump" /\ ~Begun => NoDump(Outstanding)
  /\ phase = "warmdump" /\ Begun =>
       Outstanding = <<>> \/ (DumpLast(Outstanding) /\ ~Hears({"end"}))

InStepInv ==
  /\ phase = "dump" \/ (phase = "track" /\ Begun) => More
  /\ phase \in {"track", "dump"} /\ ~Begun => Outstanding = <<>>
  /\ phase = "track" /\ Begun =>
       \/ Outstanding = << [cmd |-> "capture", of |-> want] >> /\ ~Hears({"captured"})
       \/ Outstanding = <<>> /\ (Captured(TRUE) \in Heard => buffer = want)
  /\ phase = "dump" =>
       /\ buffer = want
       /\ Outstanding \in {<<>>, << [cmd |-> "dumpb64"] >>}
       /\ Begun => /\ \A m \in Heard : m.kind = "dump" => m.of = want
                   /\ Outstanding = <<>> \/ ~Hears({"end"})

IInv == TypeOK /\ CatchUpInv /\ InStepInv

\* What Console.capture returns for a track was captured on that track: no
\* answer to an older line, and no dump of an older capture, is taken for its
\* own, however the sessions before were killed or gave up. That is so because
\* the session is in step.
RightTrack == /\ IInv /\ InStep
              /\ \A p \in stored : p[1] = p[2]

\* A line that is sent is answered: the input discarded before it never holds
\* its own answer, and a prompt always comes.
AnswerComes == waiting ~> ~waiting
=============================================================================
