-------------------------- MODULE ConsoleLinkProofs --------------------------
(***************************************************************************)
(* The console link, for any tracks, sessions and captures, and at most two*)
(* lines of dead sessions.  IInv is inductive: the lemmas below say how the*)
(* lines not answered and the messages heard change in a step, then each   *)
(* part of IInv has a lemma, with one step for each action.                *)
(***************************************************************************)
EXTENDS ConsoleLink, TLAPS, SequenceTheorems, FiniteSetTheorems

USE DEF host, fw

-----------------------------------------------------------------------------
(* Queues of lines.                                                        *)

\* A queue without its first line.
LEMMA TailFacts ==
  ASSUME NEW S, NEW q \in Seq(S), q # <<>>
  PROVE  /\ Head(q) = q[1] /\ Tail(q) \in Seq(S)
         /\ Len(q) \in Nat \ {0} /\ Len(Tail(q)) = Len(q) - 1
         /\ DOMAIN q = 1 .. Len(q) /\ DOMAIN Tail(q) = 1 .. (Len(q) - 1)
         /\ \A i \in DOMAIN Tail(q) : i + 1 \in DOMAIN q /\ Tail(q)[i] = q[i + 1]
<1>1. Head(q) = q[1]
  OBVIOUS
<1>2. /\ Tail(q) \in Seq(S) /\ Len(Tail(q)) = Len(q) - 1
      /\ \A i \in 1 .. Len(Tail(q)) : Tail(q)[i] = q[i + 1]
  BY HeadTailProperties
<1>3. Len(q) \in Nat \ {0} /\ DOMAIN q = 1 .. Len(q)
  BY EmptySeq, LenProperties
<1>4. DOMAIN Tail(q) = 1 .. (Len(q) - 1)
  BY <1>2, LenProperties
<1> QED BY <1>1, <1>2, <1>3, <1>4

\* A queue with a line added.
LEMMA AppendFacts ==
  ASSUME NEW S, NEW q \in Seq(S), NEW e \in S
  PROVE  /\ Append(q, e) \in Seq(S) /\ Append(q, e) # <<>>
         /\ Len(q) \in Nat /\ Len(Append(q, e)) = Len(q) + 1
         /\ DOMAIN q = 1 .. Len(q) /\ DOMAIN Append(q, e) = 1 .. (Len(q) + 1)
         /\ \A i \in DOMAIN q : Append(q, e)[i] = q[i]
         /\ Append(q, e)[Len(q) + 1] = e
<1>1. Append(q, e) \in Seq(S)
  OBVIOUS
<1> QED BY <1>1, AppendProperties, LenProperties

\* A line is answered: what the lines that wait behind it cannot be.
LEMMA Shorter ==
  ASSUME NEW q \in Seq(Lines), q # <<>>
  PROVE  /\ NoTriple(q) => NoTriple(Tail(q)) /\ NoPair(Tail(q))
         /\ NoPair(q) => NoPair(Tail(q))
         /\ NoPair(q) /\ Head(q).cmd = "capture" => NoDump(Tail(q))
         /\ NoDump(q) => NoDump(Tail(q))
         /\ DumpLast(q) => DumpLast(Tail(q))
         /\ DumpLast(q) /\ Head(q).cmd = "dumpb64" => Tail(q) = <<>>
<1>1. NoTriple(q) => NoTriple(Tail(q)) /\ NoPair(Tail(q))
  <2> SUFFICES ASSUME NoTriple(q) PROVE NoTriple(Tail(q)) /\ NoPair(Tail(q))
    OBVIOUS
  <2>1. NoPair(Tail(q))
    <3> SUFFICES ASSUME NEW i \in DOMAIN Tail(q), NEW j \in DOMAIN Tail(q),
                        i < j, Tail(q)[i].cmd = "capture"
                 PROVE  Tail(q)[j].cmd # "dumpb64"
      BY DEF NoPair
    <3>1. /\ i + 1 \in DOMAIN q /\ j + 1 \in DOMAIN q /\ 1 < i + 1 /\ i + 1 < j + 1
          /\ q[i + 1].cmd = "capture" /\ Tail(q)[j] = q[j + 1]
      BY TailFacts
    <3> QED BY <3>1 DEF NoTriple
  <2> QED BY <2>1 DEF NoTriple, NoPair
<1>2. NoPair(q) => NoPair(Tail(q))
  BY TailFacts DEF NoPair
<1>3. NoPair(q) /\ Head(q).cmd = "capture" => NoDump(Tail(q))
  BY TailFacts DEF NoPair, NoDump
<1>4. NoDump(q) => NoDump(Tail(q))
  BY TailFacts DEF NoDump
<1>5. DumpLast(q) => DumpLast(Tail(q))
  BY TailFacts DEF DumpLast
<1>6. DumpLast(q) /\ Head(q).cmd = "dumpb64" => Tail(q) = <<>>
  <2> SUFFICES ASSUME DumpLast(q), Head(q).cmd = "dumpb64" PROVE Tail(q) = <<>>
    OBVIOUS
  <2>1. ~(1 < Len(q))
    BY TailFacts DEF DumpLast
  <2>2. Tail(q) \in Seq(Lines) /\ Len(Tail(q)) = 0
    <3>1. Len(q) \in Nat \ {0} /\ Len(Tail(q)) = Len(q) - 1 /\ Tail(q) \in Seq(Lines)
      BY TailFacts
    <3> QED BY <3>1, <2>1
  <2>3. Tail(q) # <<>> => Len(Tail(q)) \in Nat \ {0}
    BY <2>2, EmptySeq
  <2> QED BY <2>2, <2>3
<1> QED BY <1>1, <1>2, <1>3, <1>4, <1>5, <1>6

\* A line is sent.
LEMMA Longer ==
  ASSUME NEW q \in Seq(Lines), NEW l \in Lines
  PROVE  /\ Len(q) <= 2 /\ l.cmd = "status" => NoTriple(Append(q, l))
         /\ NoPair(q) /\ l.cmd # "dumpb64" => NoPair(Append(q, l))
         /\ NoDump(q) => DumpLast(Append(q, l))
<1> DEFINE r == Append(q, l)
<1>1. ASSUME Len(q) <= 2, l.cmd = "status" PROVE NoTriple(r)
  <2> SUFFICES ASSUME NEW i \in DOMAIN r, NEW j \in DOMAIN r, 1 < i, i < j
               PROVE  r[j].cmd # "dumpb64"
    BY DEF NoTriple
  <2>1. j = 3 /\ Len(q) = 2
    <3>1. DOMAIN r = 1 .. Len(r) /\ Len(r) = Len(q) + 1 /\ Len(q) \in Nat
      BY AppendFacts
    <3> DEFINE n == Len(q)
    <3>2. n \in Nat /\ n <= 2 /\ i \in 1 .. n + 1 /\ j \in 1 .. n + 1
      BY <1>1, <3>1
    <3> HIDE DEF r, n
    <3>3. j = 3 /\ n = 2
      BY <3>2
    <3> QED BY <3>3 DEF n
  <2>2. r[3] = l
    <3>1. r[Len(q) + 1] = l
      BY AppendFacts
    <3> QED BY <3>1, <2>1
  <2> QED BY <1>1, <2>1, <2>2
<1>2. ASSUME NoPair(q), l.cmd # "dumpb64" PROVE NoPair(r)
  BY <1>2, AppendFacts DEF NoPair
<1>3. ASSUME NoDump(q) PROVE DumpLast(r)
  BY <1>3, AppendFacts DEF NoDump, DumpLast
<1> QED BY <1>1, <1>2, <1>3

-----------------------------------------------------------------------------
(* The lines not answered.                                                 *)

\* What a session sends is a line of the protocol.
LEMMA LineTyped == ASSUME TypeOK, Open, phase # "open" PROVE Line \in Lines
<1>1. phase \in Phases \ {"closed", "open"} /\ want \in Tracks
  BY DEF TypeOK, Open
<1>2. CASE phase \in {"status", "recheck"}
  BY <1>2 DEF Line, Lines
<1>3. CASE phase = "up"
  BY <1>3 DEF Line, Lines
<1>4. CASE phase \in {"warm", "track"}
  BY <1>1, <1>4 DEF Line, Lines
<1>5. CASE phase \in {"warmdump", "dump"}
  BY <1>5 DEF Line, Lines
<1> QED BY <1>1, <1>2, <1>3, <1>4, <1>5 DEF Phases

\* The firmware that runs nothing runs no line.
LEMMA NotALine == NoLine \notin Lines /\ NoLine.cmd = "none"
  BY DEF NoLine, Lines

\* The lines not answered are lines, and Pending is how many.
LEMMA OutstandingTyped ==
  ASSUME TypeOK
  PROVE  /\ Outstanding \in Seq(Lines) /\ toFw \in Seq(Lines)
         /\ Outstanding = <<>> => Idle /\ toFw = <<>>
         /\ Pending = Len(Outstanding)
<1>1. toFw \in Seq(Lines) /\ running \in Lines \cup {NoLine}
  BY DEF TypeOK
<1>2. CASE Idle
  BY <1>1, <1>2 DEF Outstanding, Pending
<1>3. CASE ~Idle
  <2>1. running \in Lines
    BY <1>1, <1>3 DEF Idle
  <2>2. <<running>> \in Seq(Lines) /\ Len(<<running>>) = 1
    BY <2>1
  <2>3. /\ Outstanding \in Seq(Lines) /\ Len(Outstanding) = 1 + Len(toFw)
    BY <1>1, <1>3, <2>2, ConcatProperties DEF Outstanding
  <2>4. Outstanding # <<>>
    BY <2>3, <1>1, LenProperties, EmptySeq
  <2> QED BY <1>1, <1>3, <2>3, <2>4, LenProperties DEF Pending
<1> QED BY <1>2, <1>3

\* They stay when neither the firmware's input nor what it runs changes.
LEMMA OutstandingStays ==
  ASSUME UNCHANGED <<running, toFw>>
  PROVE  Outstanding' = Outstanding
  BY DEF Outstanding, Idle

\* A line that is dispatched is not answered yet.
LEMMA OutstandingDispatched ==
  ASSUME TypeOK, Dispatch
  PROVE  Outstanding' = Outstanding
<1>1. /\ Idle /\ toFw \in Seq(Lines) /\ toFw # <<>>
      /\ running' = Head(toFw) /\ toFw' = Tail(toFw)
  BY DEF Dispatch, TypeOK
<1>2. Head(toFw) \in Lines /\ toFw = <<Head(toFw)>> \o Tail(toFw)
  <2> DEFINE s == <<Head(toFw)>> \o Tail(toFw)
  <2>1. Head(toFw) \in Lines /\ Tail(toFw) \in Seq(Lines) /\ Len(Tail(toFw)) = Len(toFw) - 1
    BY <1>1, HeadTailProperties
  <2>2. <<Head(toFw)>> \in Seq(Lines) /\ Len(<<Head(toFw)>>) = 1
    BY <2>1
  <2>3. s \in Seq(Lines) /\ Len(s) = Len(toFw)
    BY <1>1, <2>1, <2>2, ConcatProperties, LenProperties
  <2>4. \A i \in 1 .. Len(toFw) : s[i] = toFw[i]
    BY <1>1, <2>1, <2>2, TailFacts
  <2> QED BY <1>1, <2>1, <2>3, <2>4, SeqEqual
<1>3. running' # NoLine
  BY <1>1, <1>2, NotALine
<1> QED BY <1>1, <1>2, <1>3 DEF Outstanding, Idle

\* A line that is answered was the first of them.
LEMMA OutstandingAnswered ==
  ASSUME TypeOK, running \in Lines, running' = NoLine, toFw' = toFw
  PROVE  /\ Outstanding # <<>> /\ Head(Outstanding) = running
         /\ Outstanding' = Tail(Outstanding)
<1>1. toFw \in Seq(Lines) /\ running # NoLine
  BY NotALine DEF TypeOK
<1>2. Outstanding = <<running>> \o toFw /\ Outstanding' = toFw
  BY <1>1 DEF Outstanding, Idle
<1>3. <<running>> \in Seq(Lines) /\ Len(<<running>>) = 1
  OBVIOUS
<1>4. Outstanding \in Seq(Lines) /\ Len(Outstanding) = Len(toFw) + 1
  BY <1>1, <1>2, <1>3, ConcatProperties, LenProperties
<1>5. Outstanding # <<>>
  BY <1>1, <1>4, EmptySeq, LenProperties
<1>6. Head(Outstanding) = running
  BY <1>2, <1>3, <1>4, <1>5
<1>7. /\ Tail(Outstanding) \in Seq(Lines) /\ Len(Tail(Outstanding)) = Len(toFw)
      /\ \A i \in 1 .. Len(toFw) : Tail(Outstanding)[i] = toFw[i]
  BY <1>1, <1>2, <1>3, <1>4, <1>5, TailFacts, LenProperties
<1> QED BY <1>1, <1>2, <1>5, <1>6, <1>7, SeqEqual

\* A line that is sent becomes the last of them.
LEMMA OutstandingSent ==
  ASSUME TypeOK, Send
  PROVE  /\ Line \in Lines
         /\ Outstanding' = Append(Outstanding, Line)
<1>1. /\ Line \in Lines /\ toFw \in Seq(Lines) /\ toFw' = Append(toFw, Line)
      /\ running' = running
  BY LineTyped DEF TypeOK, Send
<1>2. CASE Idle
  BY <1>1, <1>2 DEF Outstanding, Idle
<1>3. CASE ~Idle
  <2>1. running \in Lines
    BY <1>3 DEF Idle, TypeOK
  <2>2. <<running>> \o Append(toFw, Line) = Append(<<running>> \o toFw, Line)
    BY <1>1, <2>1, AppendIsConcat, ConcatAssociative, ConcatProperties
  <2> QED BY <1>1, <1>3, <2>2 DEF Outstanding, Idle
<1> QED BY <1>1, <1>2, <1>3

-----------------------------------------------------------------------------
(* The messages heard.                                                     *)

\* What the kind of a message says of the message.
LEMMA Kinds ==
  ASSUME NEW m \in Messages
  PROVE  /\ m.kind = "captured" => m.ok \in BOOLEAN /\ m = Captured(m.ok)
         /\ m.kind = "dump" => m.of \in Tracks \cup {NoTrack}
<1>1. CASE m \in {Banner, DumpTail}
  BY <1>1 DEF Banner, DumpTail
<1>2. CASE m \in {Status(r) : r \in BOOLEAN}
  BY <1>2 DEF Status
<1>3. CASE m \in {Report(k, r) : k, r \in BOOLEAN}
  BY <1>3 DEF Report
<1>4. CASE m \in {Captured(k) : k \in BOOLEAN}
  BY <1>4 DEF Captured
<1>5. CASE m \in {DumpHead(t) : t \in Tracks \cup {NoTrack}}
  BY <1>5 DEF DumpHead
<1> QED BY <1>1, <1>2, <1>3, <1>4, <1>5 DEF Messages

\* What the firmware prints are messages of the kinds they are named for.
LEMMA Uttered ==
  /\ Banner \in Messages /\ Banner.kind = "banner"
  /\ DumpTail \in Messages /\ DumpTail.kind = "end"
  /\ \A r \in BOOLEAN : Status(r) \in Messages /\ Status(r).kind = "status"
  /\ \A k, r \in BOOLEAN : Report(k, r) \in Messages /\ Report(k, r).kind = "report"
  /\ \A k \in BOOLEAN : Captured(k) \in Messages /\ Captured(k).kind = "captured"
  /\ \A t \in Tracks \cup {NoTrack} : /\ DumpHead(t) \in Messages
                                      /\ DumpHead(t).kind = "dump" /\ DumpHead(t).of = t
<1>1. /\ Banner \in Messages /\ DumpTail \in Messages
      /\ \A r \in BOOLEAN : Status(r) \in Messages
      /\ \A k, r \in BOOLEAN : Report(k, r) \in Messages
      /\ \A k \in BOOLEAN : Captured(k) \in Messages
      /\ \A t \in Tracks \cup {NoTrack} : DumpHead(t) \in Messages
  <2> DEFINE reports == {Report(k, r) : k, r \in BOOLEAN}
  <2>1. \A k, r \in BOOLEAN : Report(k, r) \in reports
    OBVIOUS
  <2>2. reports \subseteq Messages
    BY DEF Messages
  <2> QED BY <2>1, <2>2 DEF Messages
<1>2. /\ Banner.kind = "banner" /\ DumpTail.kind = "end"
      /\ \A r : Status(r).kind = "status"
      /\ \A k, r : Report(k, r).kind = "report"
      /\ \A k : Captured(k).kind = "captured"
      /\ \A t : DumpHead(t).kind = "dump" /\ DumpHead(t).of = t
  BY DEF Banner, DumpTail, Status, Report, Captured, DumpHead
<1> QED BY <1>1, <1>2

\* What is heard are messages.
LEMMA HeardTyped == ASSUME TypeOK PROVE Heard \subseteq Messages
<1>1. /\ \A i \in DOMAIN buf : buf[i] \in Messages
      /\ \A i \in DOMAIN toHost : toHost[i] \in Messages
  BY ElementOfSeq, LenProperties DEF TypeOK
<1> QED BY <1>1 DEF Heard

\* Nothing is heard after the input is discarded, or the answer taken.
LEMMA NothingHeard ==
  /\ buf = <<>> /\ ~waiting => Heard = {}
  /\ buf' = <<>> /\ toHost' = <<>> => Heard' = {}
  /\ buf' = <<>> /\ ~waiting' => Heard' = {}
<1>1. DOMAIN <<>> = {}
  OBVIOUS
<1> QED BY <1>1 DEF Heard

\* What is heard depends on the two buffers and on cmd's waiting.
LEMMA HeardStays ==
  ASSUME UNCHANGED <<buf, toHost, waiting>>
  PROVE  Heard' = Heard
  BY DEF Heard

\* A read moves messages: none is heard that was not.
LEMMA HeardRead ==
  ASSUME TypeOK, Read
  PROVE  /\ Heard' \subseteq Heard /\ waiting
         /\ buf' \in Seq(Messages) /\ toHost' \in Seq(Messages) /\ buf' # <<>>
<1>1. PICK n \in 1 .. Len(toHost) :
        /\ buf' = buf \o SubSeq(toHost, 1, n)
        /\ toHost' = SubSeq(toHost, n + 1, Len(toHost))
  BY DEF Read
<1>2. waiting
  BY DEF Read
<1>3. /\ buf \in Seq(Messages) /\ toHost \in Seq(Messages)
      /\ Len(buf) \in Nat /\ Len(toHost) \in Nat
      /\ DOMAIN buf = 1 .. Len(buf) /\ DOMAIN toHost = 1 .. Len(toHost)
  BY LenProperties DEF TypeOK
<1>4. \A i \in 1 .. Len(toHost) : toHost[i] \in Messages
  BY <1>3, ElementOfSeq
<1> DEFINE s == SubSeq(toHost, 1, n)
<1>5. /\ s \in Seq(Messages) /\ Len(s) = n
      /\ \A i \in 1 .. n : s[i] = toHost[i]
  BY <1>3, <1>4, SubSeqProperties
<1>6. /\ toHost' \in Seq(Messages) /\ Len(toHost') = Len(toHost) - n
      /\ \A i \in 1 .. Len(toHost') : toHost'[i] = toHost[n + i]
  <2> DEFINE t == SubSeq(toHost, n + 1, Len(toHost))
  <2>1. /\ t \in Seq(Messages)
        /\ Len(t) = IF n + 1 <= Len(toHost) THEN Len(toHost) - (n + 1) + 1 ELSE 0
        /\ \A i \in 1 .. (Len(toHost) - (n + 1) + 1) : t[i] = toHost[(n + 1) + i - 1]
    BY <1>3, <1>4, SubSeqProperties
  <2>2. toHost' = t
    BY <1>1
  <2> HIDE DEF t
  <2>3. Len(t) = Len(toHost) - n
    <3> DEFINE c == Len(t)
               l == Len(toHost)
    <3>1. /\ l \in Nat /\ n \in 1 .. l
          /\ c = IF n + 1 <= l THEN l - (n + 1) + 1 ELSE 0
      BY <1>3, <2>1
    <3> HIDE DEF c, l
    <3>2. c = l - n
      BY <3>1
    <3> QED BY <3>2 DEF c, l
  <2>4. \A i \in 1 .. Len(toHost) - n : t[i] = toHost[n + i]
    <3>1. \A i \in 1 .. Len(toHost) - n :
            i \in 1 .. (Len(toHost) - (n + 1) + 1) /\ (n + 1) + i - 1 = n + i
      BY <1>3
    <3> QED BY <2>1, <3>1
  <2> QED BY <2>1, <2>2, <2>3, <2>4
<1>7. /\ buf' \in Seq(Messages) /\ Len(buf') = Len(buf) + n
      /\ \A i \in 1 .. Len(buf) : buf'[i] = buf[i]
      /\ \A i \in 1 .. n : buf'[Len(buf) + i] = s[i]
  BY <1>1, <1>3, <1>5, ConcatProperties
<1>8. /\ DOMAIN buf' = 1 .. (Len(buf) + n) /\ DOMAIN toHost' = 1 .. (Len(toHost) - n)
  BY <1>6, <1>7, LenProperties
<1>9. buf' # <<>>
  BY <1>3, <1>7, EmptySeq
<1>10. ASSUME NEW i \in DOMAIN buf' PROVE buf'[i] \in Heard
  <2>1. CASE i <= Len(buf)
    BY <1>3, <1>7, <1>8, <2>1 DEF Heard
  <2>2. CASE i > Len(buf)
    <3>1. i - Len(buf) \in 1 .. n /\ i = Len(buf) + (i - Len(buf))
      BY <1>3, <1>8, <2>2
    <3>2. buf'[i] = toHost[i - Len(buf)] /\ i - Len(buf) \in DOMAIN toHost
      BY <1>3, <1>5, <1>7, <3>1
    <3> QED BY <1>2, <3>2 DEF Heard
  <2> QED BY <1>3, <1>8, <2>1, <2>2
<1>11. ASSUME NEW i \in DOMAIN toHost' PROVE toHost'[i] \in Heard
  <2>1. n + i \in DOMAIN toHost /\ toHost'[i] = toHost[n + i]
    BY <1>3, <1>6, <1>8
  <2> QED BY <1>2, <2>1 DEF Heard
<1> QED BY <1>2, <1>6, <1>7, <1>9, <1>10, <1>11 DEF Heard

\* Of a message printed, a host that waits hears it, another one does not.
LEMMA HeardUttered ==
  ASSUME TypeOK, NEW m \in Messages, Utter(m), UNCHANGED <<buf, waiting>>
  PROVE  /\ Heard' \subseteq Heard \cup {m} /\ (~waiting => Heard' = Heard)
         /\ toHost' \in Seq(Messages)
<1>1. /\ toHost \in Seq(Messages)
      /\ toHost' = Append(toHost, m) \/ toHost' = <<>>
  BY DEF TypeOK, Utter
<1>2. CASE toHost' = <<>>
  BY <1>2 DEF Heard
<1>3. CASE toHost' = Append(toHost, m)
  <2>1. \A i \in DOMAIN toHost' : toHost'[i] = m \/ (i \in DOMAIN toHost /\ toHost'[i] = toHost[i])
    BY <1>1, <1>3, AppendFacts
  <2>2. toHost' \in Seq(Messages)
    BY <1>1, <1>3
  <2> QED BY <2>1, <2>2 DEF Heard
<1> QED BY <1>1, <1>2, <1>3

\* What is in cmd's buffer is heard.
LEMMA BufHeard ==
  ASSUME NEW kind, NEW i \in Is(kind)
  PROVE  buf[i] \in Heard /\ buf[i].kind = kind /\ i \in DOMAIN buf
  BY DEF Is, Heard

\* Of indices there is a least: were there none, adding one to the numbers below
\* all of them would put 0 .. n into 1 .. n, one to one.
LEMMA LeastIndex ==
  ASSUME NEW n \in Nat, NEW I, I \subseteq 1 .. n, I # {}
  PROVE  \E i \in I : \A j \in I : i <= j
<1> SUFFICES ASSUME \A i \in I : \E j \in I : j < i PROVE FALSE
  OBVIOUS
<1> DEFINE Below == {k \in 0 .. n : \A i \in I : k < i}
           g == [k \in 0 .. n |-> IF k \in Below THEN k + 1 ELSE k]
<1>1. 0 \in Below /\ n \notin Below
  <2>1. \A i \in I : i \in 1 .. n
    OBVIOUS
  <2>2. PICK i \in I : TRUE
    OBVIOUS
  <2>3. i <= n /\ \A k \in I : 0 < k
    BY <2>1
  <2> QED BY <2>3
<1>2. ASSUME NEW k \in Below PROVE k + 1 \in Below
  <2>1. k \in 0 .. n /\ k # n
    BY <1>1
  <2>2. ASSUME NEW i \in I PROVE k + 1 < i
    <3>1. PICK j \in I : j < i
      OBVIOUS
    <3>2. k < j
      OBVIOUS
    <3> QED BY <3>1, <3>2, <2>1
  <2> QED BY <2>1, <2>2
<1>3. g \in [0 .. n -> 1 .. n]
  BY <1>1, <1>2
<1>4. PICK x \in 0 .. n, y \in 0 .. n : x # y /\ g[x] = g[y]
  <2>1. /\ IsFiniteSet(0 .. n) /\ Cardinality(0 .. n) = n + 1
        /\ IsFiniteSet(1 .. n) /\ Cardinality(1 .. n) = n
    BY FS_Interval
  <2> DEFINE S == 0 .. n
             T == 1 .. n
  <2>2. /\ IsFiniteSet(S) /\ IsFiniteSet(T) /\ Cardinality(T) < Cardinality(S)
        /\ g \in [S -> T]
    BY <1>3, <2>1
  <2> HIDE DEF g, S, T
  <2>3. \E x, y \in S : x # y /\ g[x] = g[y]
    BY <2>2, FS_PigeonHole
  <2>4. \E x, y \in 0 .. n : x # y /\ g[x] = g[y]
    BY <2>3 DEF S
  <2> QED BY <2>4
<1> QED BY <1>2, <1>4

\* Of the messages of one kind there is a first.
LEMMA FirstOfKind ==
  ASSUME TypeOK, NEW kind, Is(kind) # {}
  PROVE  First(Is(kind)) \in Is(kind)
<1>1. Is(kind) \subseteq 1 .. Len(buf) /\ Len(buf) \in Nat
  BY LenProperties DEF TypeOK, Is
<1> DEFINE least(i) == \A j \in Is(kind) : i <= j
<1>2. \E i : i \in Is(kind) /\ least(i)
  BY <1>1, LeastIndex
<1>3. First(Is(kind)) = CHOOSE i : i \in Is(kind) /\ least(i)
  BY Zenon DEF First
<1> QED BY <1>2, <1>3, Zenon

-----------------------------------------------------------------------------
(* IInv.                                                                   *)

\* An answer of the firmware: the command, its message, and what it changes.
Answer(m) ==
  /\ running \in Lines /\ Done /\ m \in Messages /\ Utter(m)
  /\ m.kind = "captured" => running.cmd = "capture"
  /\ m.kind = "end" <=> running.cmd = "dumpb64"
  /\ running.cmd # "capture" => buffer' = buffer
  /\ m = Captured(TRUE) => buffer' = running.of
  /\ m.kind # "dump"
  /\ buffer' \in Tracks \cup {NoTrack} /\ ready' \in BOOLEAN /\ tail' \in BOOLEAN

\* A command that runs came in a line.
LEMMA RunsALine ==
  ASSUME TypeOK, running.cmd \in {"status", "up", "capture", "dumpb64"}
  PROVE  running \in Lines
  BY NotALine DEF TypeOK

\* A capture's line names a track.
LEMMA CaptureOf ==
  ASSUME NEW l \in Lines, l.cmd = "capture"
  PROVE  l.of \in Tracks /\ l = [cmd |-> "capture", of |-> l.of]
  BY DEF Lines

\* Each command but the first part of a dump is one answer.
LEMMA Answering ==
  ASSUME TypeOK, CmdStatus \/ CmdUp \/ CmdCapture \/ (CmdDump /\ tail)
  PROVE  \E m : Answer(m)
<1>1. CASE CmdStatus
  <2>1. /\ running \in Lines /\ running.cmd = "status" /\ Done /\ Utter(Status(ready))
        /\ UNCHANGED <<tail, ready, buffer>> /\ ready \in BOOLEAN
        /\ tail \in BOOLEAN /\ buffer \in Tracks \cup {NoTrack}
    BY <1>1, RunsALine DEF CmdStatus, TypeOK
  <2>2. Status(ready) \in Messages /\ Status(ready).kind = "status"
    BY <2>1, Uttered
  <2>3. Status(ready) # Captured(TRUE)
    BY <2>2, Uttered
  <2>4. Answer(Status(ready))
    BY <2>1, <2>2, <2>3 DEF Answer
  <2> QED BY <2>4
<1>2. CASE CmdUp
  <2>1. /\ running \in Lines /\ running.cmd = "up" /\ Done
        /\ UNCHANGED <<tail, buffer>> /\ ready \in BOOLEAN
        /\ tail \in BOOLEAN /\ buffer \in Tracks \cup {NoTrack}
    BY <1>2, RunsALine DEF CmdUp, TypeOK
  <2>2. PICK ok \in BOOLEAN : ready' \in BOOLEAN /\ Utter(Report(ok, ready'))
    BY <1>2, <2>1 DEF CmdUp
  <2> DEFINE m == Report(ok, ready')
  <2>3. m \in Messages /\ m.kind = "report" /\ m # Captured(TRUE)
    BY <2>2, Uttered
  <2>4. Answer(m)
    BY <2>1, <2>2, <2>3 DEF Answer
  <2> QED BY <2>4
<1>3. CASE CmdCapture
  <2>1. /\ running \in Lines /\ running.cmd = "capture" /\ Done
        /\ UNCHANGED <<tail, ready>> /\ ready \in BOOLEAN /\ running.of \in Tracks
        /\ tail \in BOOLEAN /\ buffer \in Tracks \cup {NoTrack}
    BY <1>3, RunsALine, CaptureOf DEF CmdCapture, TypeOK
  <2>2. CASE Utter(Report(FALSE, ready)) /\ buffer' = buffer
    <3>1. /\ Report(FALSE, ready) \in Messages /\ Report(FALSE, ready).kind = "report"
          /\ Report(FALSE, ready) # Captured(TRUE)
      BY <2>1, Uttered
    <3>2. Answer(Report(FALSE, ready))
      BY <2>1, <2>2, <3>1 DEF Answer
    <3> QED BY <3>2
  <2>3. CASE Utter(Captured(FALSE)) /\ buffer' \in {buffer, NoTrack}
    <3>1. /\ Captured(FALSE) \in Messages /\ Captured(FALSE).kind = "captured"
          /\ Captured(FALSE) # Captured(TRUE)
      BY Uttered DEF Captured
    <3>2. Answer(Captured(FALSE))
      BY <2>1, <2>3, <3>1 DEF Answer
    <3> QED BY <3>2
  <2>4. CASE Utter(Captured(TRUE)) /\ buffer' = running.of
    <3>1. Captured(TRUE) \in Messages /\ Captured(TRUE).kind = "captured"
      BY Uttered
    <3>2. Answer(Captured(TRUE))
      BY <2>1, <2>4, <3>1 DEF Answer
    <3> QED BY <3>2
  <2> QED BY <1>3, <2>2, <2>3, <2>4 DEF CmdCapture
<1>4. CASE CmdDump /\ tail
  <2>1. /\ running \in Lines /\ running.cmd = "dumpb64" /\ Done /\ Utter(DumpTail)
        /\ tail' = FALSE /\ UNCHANGED <<ready, buffer>> /\ ready \in BOOLEAN
        /\ buffer \in Tracks \cup {NoTrack}
    BY <1>4, RunsALine DEF CmdDump, TypeOK
  <2>2. DumpTail \in Messages /\ DumpTail.kind = "end" /\ DumpTail # Captured(TRUE)
    BY Uttered
  <2>3. Answer(DumpTail)
    BY <2>1, <2>2 DEF Answer
  <2> QED BY <2>3
<1> QED BY <1>1, <1>2, <1>3, <1>4

\* What an answer changes.
LEMMA AnswerFacts ==
  ASSUME TypeOK, NEW m, Answer(m)
  PROVE  /\ Outstanding # <<>> /\ Head(Outstanding) = running
         /\ Outstanding' = Tail(Outstanding) /\ Outstanding \in Seq(Lines)
         /\ Heard' \subseteq Heard \cup {m} /\ (~waiting => Heard' = Heard)
         /\ toHost' \in Seq(Messages)
         /\ UNCHANGED <<host, toFw, stored, connected>> /\ running' = NoLine
<1>1. /\ running \in Lines /\ running' = NoLine /\ toFw' = toFw /\ m \in Messages
      /\ Utter(m) /\ UNCHANGED <<host, toFw, stored, connected>>
  BY DEF Answer, Done
<1>2. UNCHANGED <<buf, waiting>>
  BY <1>1
<1> QED BY <1>1, <1>2, OutstandingAnswered, OutstandingTyped, HeardUttered

\* The dump's first part: the only message that is no whole answer.
LEMMA DumpBegins ==
  ASSUME TypeOK, CmdDump, ~tail
  PROVE  /\ running \in Lines /\ running.cmd = "dumpb64"
         /\ Outstanding' = Outstanding
         /\ Heard' \subseteq Heard \cup {DumpHead(buffer)} /\ (~waiting => Heard' = Heard)
         /\ DumpHead(buffer).kind = "dump" /\ DumpHead(buffer).of = buffer
         /\ toHost' \in Seq(Messages) /\ tail' = TRUE
         /\ UNCHANGED <<host, toFw, connected, running, ready, buffer, stored>>
<1>1. /\ running.cmd = "dumpb64" /\ tail' = TRUE /\ Utter(DumpHead(buffer))
      /\ UNCHANGED <<host, toFw, connected, running, ready, buffer, stored>>
  BY DEF CmdDump, TypeOK
<1>2. /\ DumpHead(buffer) \in Messages /\ DumpHead(buffer).kind = "dump"
      /\ DumpHead(buffer).of = buffer
  BY Uttered DEF TypeOK
<1>3. UNCHANGED <<buf, waiting, running, toFw>>
  BY <1>1
<1> QED BY <1>1, <1>2, <1>3, RunsALine, OutstandingStays, HeardUttered

\* What a dump of the protocol is of.
LEMMA DumpedHeard ==
  ASSUME TypeOK, DumpOK
  PROVE  /\ \E m \in Heard : m.kind = "dump" /\ m.of = Dumped
         /\ Dumped \in Tracks \cup {NoTrack} /\ Hears({"end"})
<1>1. First(Is("dump")) \in Is("dump") /\ Is("end") # {}
  BY FirstOfKind DEF DumpOK
<1>2. /\ buf[First(Is("dump"))] \in Heard
      /\ buf[First(Is("dump"))].kind = "dump"
  BY <1>1, BufHeard
<1>3. PICK i \in Is("end") : TRUE
  BY <1>1
<1>4. buf[i] \in Heard /\ buf[i].kind = "end"
  BY <1>3, BufHeard
<1> QED BY <1>2, <1>4, HeardTyped, Kinds DEF Dumped, Hears

\* Every step keeps the types.
LEMMA TypeStep == ASSUME IInv, Next PROVE TypeOK'
<1> USE DEF IInv, TypeOK
<1> <<>> \in Seq(Messages)
  OBVIOUS
<1>1. CASE OpenPort
  <2>1. started' \in 0 .. Sessions /\ taken' \in 0 .. Captures
    BY <1>1, LinkAssumption DEF OpenPort
  <2>2. /\ phase' \in Phases /\ waiting' \in BOOLEAN /\ buf' = <<>> /\ toHost' = <<>>
        /\ want' \in Tracks /\ UNCHANGED <<toFw, fw, stored>>
    BY <1>1 DEF OpenPort, Phases
  <2> QED BY <2>1, <2>2
<1>2. CASE Settle
  BY <1>2 DEF Settle, Phases
<1>3. CASE Send
  BY <1>3, LineTyped, AppendFacts DEF Send, Discarded
<1>4. CASE Read
  <2>1. /\ buf' \in Seq(Messages) /\ toHost' \in Seq(Messages)
        /\ waiting' \in BOOLEAN
        /\ UNCHANGED <<phase, want, taken, started, toFw, fw, stored>>
    BY <1>4, HeardRead DEF Read
  <2> QED BY <2>1
<1>5. CASE Proceed
  <2>1. phase' \in Phases
    BY <1>5 DEF Proceed, Onward, Open, Phases
  <2>2. /\ stored' \subseteq Tracks \X (Tracks \cup {NoTrack})
        /\ taken' \in 0 .. Captures /\ want' \in Tracks
    <3>1. CASE phase = "dump"
      <4>1. DumpOK
        BY <1>5, <3>1 DEF Proceed, Onward
      <4>2. taken < Captures
        BY <3>1 DEF InStepInv, More
      <4>3. <<want, Dumped>> \in Tracks \X (Tracks \cup {NoTrack})
        BY <4>1, DumpedHeard
      <4>4. /\ stored' = stored \cup {<<want, Dumped>>}
            /\ taken' = taken + 1 /\ want' \in Tracks
        BY <1>5, <3>1 DEF Proceed
      <4>5. taken' \in 0 .. Captures
        BY <4>2, <4>4, LinkAssumption
      <4> QED BY <4>3, <4>4, <4>5
    <3>2. CASE phase # "dump"
      BY <1>5, <3>2 DEF Proceed
    <3> QED BY <3>1, <3>2
  <2> QED BY <1>5, <2>1, <2>2 DEF Proceed
<1>6. CASE Leave
  BY <1>6 DEF Leave, Phases
<1>7. CASE Greet
  BY <1>7, Uttered, HeardUttered DEF Greet
<1>8. CASE Hangup
  BY <1>8 DEF Hangup
<1>9. CASE Dispatch
  BY <1>9, TailFacts DEF Dispatch
<1>10. CASE CmdStatus \/ CmdUp \/ CmdCapture \/ (CmdDump /\ tail)
  <2>1. PICK m : Answer(m)
    BY <1>10, Answering
  <2>2. /\ toHost' \in Seq(Messages) /\ running' = NoLine
        /\ UNCHANGED <<host, toFw, stored, connected>>
    BY <2>1, AnswerFacts
  <2> QED BY <2>1, <2>2 DEF Answer
<1>11. CASE CmdDump /\ ~tail
  BY <1>11, DumpBegins
<1> QED BY <1>1, <1>2, <1>3, <1>4, <1>5, <1>6, <1>7, <1>8, <1>9, <1>10, <1>11 DEF Next

\* An answer brings the session nearer to the firmware, as CatchUpInv counts.
LEMMA CatchUpAnswered ==
  ASSUME IInv, NEW m, Answer(m)
  PROVE  CatchUpInv'
<1> DEFINE L == Outstanding
<1>1. TypeOK /\ CatchUpInv
  BY DEF IInv
<1>2. /\ L \in Seq(Lines) /\ L # <<>> /\ L' = Tail(L) /\ Head(L) = running
      /\ Heard' \subseteq Heard \cup {m} /\ (~waiting => Heard' = Heard)
      /\ phase' = phase /\ waiting' = waiting /\ buf' = buf
  BY <1>1, AnswerFacts
<1>3. /\ NoTriple(L) => NoTriple(L') /\ NoPair(L')
      /\ NoPair(L) => NoPair(L')
      /\ NoPair(L) /\ running.cmd = "capture" => NoDump(L')
      /\ NoDump(L) => NoDump(L')
      /\ DumpLast(L) => DumpLast(L')
      /\ DumpLast(L) /\ running.cmd = "dumpb64" => L' = <<>>
  BY <1>2, Shorter
<1>4. Len(L') <= Len(L)
  <2>1. Len(L') = Len(L) - 1 /\ Len(L) \in Nat
    BY <1>2, TailFacts
  <2> QED BY <2>1
<1>5. Len(L) \in Nat /\ Len(L') \in Nat
  BY <1>2, TailFacts
<1>6. Begun' <=> Begun
  BY <1>2 DEF Begun
<1>7. /\ m.kind = "captured" => running.cmd = "capture"
      /\ m.kind = "end" <=> running.cmd = "dumpb64"
  BY DEF Answer
<1> HIDE DEF L
<1>8. (phase = "open" => ~Begun)'
  BY <1>1, <1>2, <1>6 DEF CatchUpInv
<1>9. phase \in {"open", "status"} /\ ~Begun => Len(L') <= Backlog
  BY <1>1, <1>4, <1>5, LinkAssumption DEF CatchUpInv, L
<1>10. phase = "status" /\ Begun => NoTriple(L') /\ NoPair(L')
  BY <1>1, <1>3 DEF CatchUpInv, L
<1>11. phase \in {"up", "recheck", "warm"} => NoPair(L')
  BY <1>1, <1>3 DEF CatchUpInv, L
<1>12. ASSUME phase = "warm", Begun, Hears({"captured"})' PROVE NoDump(L')
  <2>1. CASE Hears({"captured"})
    BY <1>1, <1>3, <1>12, <2>1 DEF CatchUpInv, L
  <2>2. CASE ~Hears({"captured"})
    <3>1. running.cmd = "capture"
      BY <1>2, <1>7, <1>12, <2>2 DEF Hears
    <3> QED BY <1>1, <1>3, <1>12, <3>1 DEF CatchUpInv, L
  <2> QED BY <2>1, <2>2
<1>13. phase = "warmdump" /\ ~Begun => NoDump(L')
  BY <1>1, <1>3 DEF CatchUpInv, L
<1>14. ASSUME phase = "warmdump", Begun
       PROVE  L' = <<>> \/ (DumpLast(L') /\ ~Hears({"end"})')
  <2>1. DumpLast(L) /\ ~Hears({"end"})
    BY <1>1, <1>2, <1>14 DEF CatchUpInv, L
  <2>2. CASE running.cmd = "dumpb64"
    BY <1>3, <2>1, <2>2
  <2>3. CASE running.cmd # "dumpb64"
    BY <1>2, <1>3, <1>7, <2>1, <2>3 DEF Hears
  <2> QED BY <2>2, <2>3
<1> QED BY <1>2, <1>6, <1>8, <1>9, <1>10, <1>11, <1>12, <1>13, <1>14 DEF CatchUpInv, L

\* Nothing is answered or sent, and no message is heard that was not.
LEMMA CatchUpStays ==
  ASSUME IInv, Outstanding' = Outstanding, Heard' \subseteq Heard,
         phase' = phase, Begun' <=> Begun
  PROVE  CatchUpInv'
<1>1. \A kinds : Hears(kinds)' => Hears(kinds)
  BY DEF Hears
<1> HIDE DEF Outstanding, Hears, Begun
<1> QED BY <1>1 DEF IInv, CatchUpInv

\* Every step keeps CatchUpInv, if a session starts at most two lines behind.
LEMMA CatchUpStep == ASSUME Backlog <= 2, IInv, Next PROVE CatchUpInv'
<1> USE DEF IInv
<1>1. CASE OpenPort
  <2>1. /\ phase' = "open" /\ ~Begun' /\ Outstanding' = Outstanding
        /\ Pending <= Backlog
    BY <1>1, OutstandingStays DEF OpenPort, Begun
  <2>2. Len(Outstanding) <= Backlog
    BY <2>1, OutstandingTyped
  <2> QED BY <2>1, <2>2 DEF CatchUpInv
<1>2. CASE Settle
  <2>1. /\ phase = "open" /\ phase' = "status" /\ Begun' = Begun
        /\ Outstanding' = Outstanding
    BY <1>2, OutstandingStays DEF Settle, Begun
  <2> QED BY <2>1 DEF CatchUpInv
<1>3. CASE Send
  <2>1. /\ Line \in Lines /\ Outstanding' = Append(Outstanding, Line)
        /\ Outstanding \in Seq(Lines)
    BY <1>3, OutstandingSent, OutstandingTyped
  <2>2. Heard' = {}
    BY <1>3, NothingHeard DEF Send, Discarded
  <2>3. phase' = phase /\ ~Begun /\ Begun' /\ phase \in Phases \ {"closed", "open"}
    BY <1>3 DEF Send, Begun, Open, TypeOK
  <2>4. ~Hears({"status", "report"})' /\ ~Hears({"captured"})' /\ ~Hears({"end"})'
    BY <2>2 DEF Hears
  <2>5. /\ phase = "status" => Line.cmd = "status"
        /\ phase \in {"up", "recheck", "warm"} => Line.cmd # "dumpb64"
    BY DEF Line
  <2>6. phase = "status" => NoTriple(Outstanding')
    <3>1. phase = "status" => Len(Outstanding) <= 2
      BY <2>1, <2>3, LenProperties, LinkAssumption DEF CatchUpInv
    <3> QED BY <2>1, <2>5, <3>1, Longer
  <2>7. phase \in {"up", "recheck", "warm"} => NoPair(Outstanding')
    BY <2>1, <2>5, Longer DEF CatchUpInv
  <2>8. phase = "warmdump" => DumpLast(Outstanding')
    BY <2>1, <2>3, Longer DEF CatchUpInv
  <2> QED BY <2>3, <2>4, <2>6, <2>7, <2>8 DEF CatchUpInv
<1>4. CASE Read
  <2>1. Heard' \subseteq Heard /\ Begun /\ Begun' /\ phase' = phase
    BY <1>4, HeardRead DEF Begun, Read
  <2>2. Outstanding' = Outstanding
    BY <1>4, OutstandingStays DEF Read
  <2> QED BY <2>1, <2>2, CatchUpStays
<1>5. CASE Proceed
  <2>1. /\ Begun /\ ~Begun' /\ Outstanding' = Outstanding
        /\ phase' \in Onward /\ phase \in Phases \ {"closed", "open"}
    BY <1>5, OutstandingStays DEF Proceed, Begun, Open, TypeOK
  <2>2. phase' \notin {"open", "status"}
    BY <2>1 DEF Onward, Phases
  <2>3. ASSUME phase' \in {"up", "recheck", "warm"} PROVE NoPair(Outstanding)
    <3>1. CASE phase = "status"
      <4>1. PICK i \in Statuses : TRUE
        BY <2>1, <2>3, <3>1 DEF Onward
      <4>2. buf[i] \in Heard /\ buf[i].kind \in {"status", "report"}
        BY <4>1, BufHeard DEF Statuses
      <4> QED BY <2>1, <3>1, <4>2 DEF CatchUpInv, Hears
    <3>2. CASE phase # "status"
      <4>1. phase \in {"up", "recheck"}
        BY <2>1, <2>3, <3>2 DEF Onward, Phases
      <4> QED BY <4>1 DEF CatchUpInv
    <3> QED BY <3>1, <3>2
  <2>4. ASSUME phase' = "warmdump" PROVE NoDump(Outstanding)
    <3>1. phase = "warm" /\ CaptureOK
      BY <2>1, <2>4 DEF Onward, Phases
    <3>2. PICK i \in Is("captured") : TRUE
      BY <3>1 DEF CaptureOK
    <3>3. Hears({"captured"})
      BY <3>2, BufHeard DEF Hears
    <3> QED BY <2>1, <3>1, <3>3 DEF CatchUpInv
  <2> QED BY <2>1, <2>2, <2>3, <2>4 DEF CatchUpInv
<1>6. CASE Leave
  BY <1>6 DEF Leave, CatchUpInv
<1>7. CASE Greet
  <2>1. Heard' \subseteq Heard \cup {Banner} /\ Banner.kind = "banner"
    BY <1>7, Uttered, HeardUttered DEF Greet
  <2>2. phase' = phase /\ Begun' = Begun /\ Outstanding' = Outstanding
    BY <1>7, OutstandingStays DEF Greet, Begun
  <2>3. /\ Hears({"status", "report"})' => Hears({"status", "report"})
        /\ Hears({"captured"})' => Hears({"captured"})
        /\ Hears({"end"})' => Hears({"end"})
    BY <2>1 DEF Hears
  <2> QED BY <2>2, <2>3 DEF CatchUpInv
<1>8. CASE Hangup
  <2>1. Heard' = Heard /\ phase' = phase /\ Begun' = Begun /\ Outstanding' = Outstanding
    BY <1>8, HeardStays, OutstandingStays DEF Hangup, Begun
  <2> QED BY <2>1, CatchUpStays
<1>9. CASE Dispatch
  <2>1. Heard' = Heard /\ phase' = phase /\ Begun' = Begun /\ Outstanding' = Outstanding
    BY <1>9, HeardStays, OutstandingDispatched DEF Dispatch, Begun
  <2> QED BY <2>1, CatchUpStays
<1>10. CASE CmdStatus \/ CmdUp \/ CmdCapture \/ (CmdDump /\ tail)
  BY <1>10, Answering, CatchUpAnswered
<1>11. CASE CmdDump /\ ~tail
  <2>1. /\ Outstanding' = Outstanding /\ phase' = phase /\ Begun' = Begun
        /\ Heard' \subseteq Heard \cup {DumpHead(buffer)}
        /\ DumpHead(buffer).kind = "dump"
    BY <1>11, DumpBegins DEF Begun
  <2>2. /\ Hears({"status", "report"})' => Hears({"status", "report"})
        /\ Hears({"captured"})' => Hears({"captured"})
        /\ Hears({"end"})' => Hears({"end"})
    BY <2>1 DEF Hears
  <2> QED BY <2>1, <2>2 DEF CatchUpInv
<1> QED BY <1>1, <1>2, <1>3, <1>4, <1>5, <1>6, <1>7, <1>8, <1>9, <1>10, <1>11 DEF Next

\* The one line of the session itself is answered.
LEMMA OneLine ==
  ASSUME NEW l \in Lines
  PROVE  /\ Append(<<>>, l) = <<l>> /\ <<l>> # <<>>
         /\ Head(<<l>>) = l /\ Tail(<<l>>) = <<>>
  OBVIOUS

\* An answer to a session in step is the answer to its own line.
LEMMA InStepAnswered ==
  ASSUME IInv, NEW m, Answer(m)
  PROVE  InStepInv'
<1> DEFINE L == Outstanding
<1>1. TypeOK /\ InStepInv /\ want \in Tracks
  BY DEF IInv, TypeOK
<1>2. /\ L # <<>> /\ L' = Tail(L) /\ Head(L) = running
      /\ Heard' \subseteq Heard \cup {m} /\ (~waiting => Heard' = Heard)
      /\ UNCHANGED <<phase, waiting, buf, want, taken>>
  BY <1>1, AnswerFacts
<1>3. /\ Begun' <=> Begun
      /\ More' <=> More
  BY <1>2 DEF Begun, More
<1>4. /\ m = Captured(TRUE) => buffer' = running.of
      /\ running.cmd # "capture" => buffer' = buffer
      /\ m.kind # "dump"
  BY DEF Answer
<1>5. [cmd |-> "capture", of |-> want] \in Lines /\ [cmd |-> "dumpb64"] \in Lines
  BY <1>1 DEF Lines
<1> HIDE DEF L
<1>6. phase \in {"track", "dump"} => Begun
  BY <1>1, <1>2 DEF InStepInv, L
<1>7. ASSUME phase = "track"
      PROVE  L' = <<>> /\ (Captured(TRUE) \in Heard' => buffer' = want')
  <2>1. L = << [cmd |-> "capture", of |-> want] >> /\ ~Hears({"captured"})
    BY <1>1, <1>2, <1>6, <1>7 DEF InStepInv, L
  <2>2. L' = <<>> /\ running = [cmd |-> "capture", of |-> want]
    BY <1>2, <1>5, <2>1, OneLine
  <2>3. Captured(TRUE) \notin Heard
    BY <2>1 DEF Hears, Captured
  <2>4. running.of = want /\ want' = want
    BY <1>2, <2>2
  <2>5. Captured(TRUE) \in Heard' => buffer' = want'
    BY <1>2, <1>4, <2>3, <2>4
  <2> QED BY <2>2, <2>5
<1>8. ASSUME phase = "dump"
      PROVE  /\ L' = <<>> /\ buffer' = want'
             /\ \A n \in Heard' : n.kind = "dump" => n.of = want'
  <2>1. /\ L = << [cmd |-> "dumpb64"] >> /\ buffer = want
        /\ \A n \in Heard : n.kind = "dump" => n.of = want
    BY <1>1, <1>2, <1>6, <1>8 DEF InStepInv, L
  <2>2. L' = <<>> /\ running = [cmd |-> "dumpb64"]
    BY <1>2, <1>5, <2>1, OneLine
  <2> QED BY <1>2, <1>4, <2>1, <2>2
<1>9. InStepInv'
  BY <1>1, <1>2, <1>3, <1>6, <1>7, <1>8 DEF InStepInv, L
<1> QED BY <1>9

\* Nothing is answered or sent, and the only messages heard that were not are
\* banners and dumps of what fills the buffer.
LEMMA InStepStays ==
  ASSUME IInv, Outstanding' = Outstanding, UNCHANGED <<phase, want, taken, buffer>>,
         Begun' <=> Begun,
         \A m \in Heard' : m \in Heard \/ m.kind = "banner"
                             \/ (m.kind = "dump" /\ m.of = buffer)
  PROVE  InStepInv'
<1>1. /\ Hears({"captured"})' => Hears({"captured"})
      /\ Hears({"end"})' => Hears({"end"})
  BY DEF Hears
<1>2. Captured(TRUE) \in Heard' => Captured(TRUE) \in Heard
  BY DEF Captured
<1>3. phase = "dump" /\ Begun => \A m \in Heard' : m.kind = "dump" => m.of = want
  BY DEF IInv, InStepInv
<1>4. More' <=> More
  BY DEF More
<1> HIDE DEF Outstanding, Hears, Begun, Heard
<1> QED BY <1>1, <1>2, <1>3, <1>4 DEF IInv, InStepInv

\* Every step keeps InStepInv: the warm-up's dump was answered last.
LEMMA InStepStep == ASSUME IInv, Next PROVE InStepInv'
<1>1. TypeOK /\ CatchUpInv /\ InStepInv
  BY DEF IInv
<1>2. CASE OpenPort
  BY <1>2 DEF OpenPort, InStepInv
<1>3. CASE Settle
  BY <1>3 DEF Settle, InStepInv
<1>4. CASE Send
  <2>1. /\ Line \in Lines /\ Outstanding' = Append(Outstanding, Line)
    BY <1>1, <1>4, OutstandingSent
  <2>2. Heard' = {} /\ ~Hears({"captured"})' /\ ~Hears({"end"})'
    BY <1>4, NothingHeard DEF Send, Discarded, Hears
  <2>3. /\ UNCHANGED <<phase, want, taken, buffer>> /\ ~Begun /\ Begun'
        /\ (phase = "track" => More) /\ More' = More
    BY <1>4 DEF Send, Begun, More
  <2>4. /\ phase = "track" => Line = [cmd |-> "capture", of |-> want]
        /\ phase = "dump" => Line = [cmd |-> "dumpb64"]
    BY DEF Line
  <2>5. phase \in {"track", "dump"} => Outstanding' = <<Line>>
    BY <1>1, <2>1, <2>3, OneLine DEF InStepInv
  <2> QED BY <1>1, <2>2, <2>3, <2>4, <2>5 DEF InStepInv
<1>5. CASE Read
  <2>1. Heard' \subseteq Heard /\ Begun /\ Begun' /\ UNCHANGED <<phase, want, taken, buffer>>
    BY <1>1, <1>5, HeardRead DEF Begun, Read
  <2>2. Outstanding' = Outstanding
    BY <1>5, OutstandingStays DEF Read
  <2> QED BY <2>1, <2>2, InStepStays
<1>6. CASE Proceed
  <2>1. /\ Begun /\ ~Begun' /\ Outstanding' = Outstanding /\ Heard' = {}
        /\ phase' \in Onward /\ phase \in Phases \ {"closed", "open"}
        /\ buffer' = buffer /\ ~waiting
    BY <1>1, <1>6, OutstandingStays, NothingHeard DEF Proceed, Begun, Open, TypeOK
  <2>2. ASSUME phase' = "track" PROVE Outstanding = <<>>
    <3>1. phase \in {"warmdump", "dump"} /\ DumpOK
      BY <2>1, <2>2 DEF Onward, Phases
    <3>2. Hears({"end"})
      BY <1>1, <3>1, DumpedHeard
    <3> QED BY <1>1, <2>1, <3>1, <3>2 DEF CatchUpInv, InStepInv
  <2>3. ASSUME phase' = "dump" PROVE Outstanding = <<>> /\ buffer = want /\ More' /\ want' = want
    <3>1. phase = "track" /\ CaptureOK
      BY <2>1, <2>3 DEF Onward, Phases
    <3>2. PICK i \in Is("captured") : buf[i].ok
      BY <3>1 DEF CaptureOK
    <3>3. buf[i] \in Heard /\ buf[i].kind = "captured" /\ buf[i] \in Messages
      BY <1>1, <3>2, BufHeard, HeardTyped
    <3>4. buf[i] = Captured(TRUE)
      BY <3>2, <3>3, Kinds
    <3>5. Hears({"captured"})
      BY <3>3 DEF Hears
    <3>6. Outstanding = <<>> /\ buffer = want /\ More
      BY <1>1, <2>1, <3>1, <3>3, <3>4, <3>5 DEF InStepInv
    <3> QED BY <1>6, <3>1, <3>6 DEF Proceed, More
  <2> QED BY <2>1, <2>2, <2>3 DEF InStepInv
<1>7. CASE Leave
  BY <1>7 DEF Leave, InStepInv
<1>8. CASE Greet
  <2>1. Heard' \subseteq Heard \cup {Banner} /\ Banner.kind = "banner"
    BY <1>1, <1>8, Uttered, HeardUttered DEF Greet
  <2>2. /\ UNCHANGED <<phase, want, taken, buffer>> /\ Begun' = Begun
        /\ Outstanding' = Outstanding
    BY <1>8, OutstandingStays DEF Greet, Begun
  <2> QED BY <2>1, <2>2, InStepStays
<1>9. CASE Hangup
  <2>1. /\ UNCHANGED <<phase, want, taken, buffer>> /\ Begun' = Begun
        /\ Heard' = Heard /\ Outstanding' = Outstanding
    BY <1>9, HeardStays, OutstandingStays DEF Hangup, Begun
  <2> QED BY <2>1, InStepStays
<1>10. CASE Dispatch
  <2>1. /\ UNCHANGED <<phase, want, taken, buffer>> /\ Begun' = Begun
        /\ Heard' = Heard /\ Outstanding' = Outstanding
    BY <1>1, <1>10, HeardStays, OutstandingDispatched DEF Dispatch, Begun
  <2> QED BY <2>1, InStepStays
<1>11. CASE CmdStatus \/ CmdUp \/ CmdCapture \/ (CmdDump /\ tail)
  BY <1>1, <1>11, Answering, InStepAnswered
<1>12. CASE CmdDump /\ ~tail
  <2>1. /\ Outstanding' = Outstanding /\ Begun' = Begun
        /\ UNCHANGED <<phase, want, taken, buffer>>
        /\ Heard' \subseteq Heard \cup {DumpHead(buffer)}
        /\ DumpHead(buffer).kind = "dump" /\ DumpHead(buffer).of = buffer
    BY <1>1, <1>12, DumpBegins DEF Begun
  <2> QED BY <2>1, InStepStays
<1> QED BY <1>2, <1>3, <1>4, <1>5, <1>6, <1>7, <1>8, <1>9, <1>10, <1>11, <1>12 DEF Next

\* The invariant holds at the start.
LEMMA Started == ASSUME Init PROVE IInv
<1>1. phase = "closed" /\ buf = <<>> /\ ~waiting
  BY DEF Init
<1>2. TypeOK
  <2>1. 0 \in 0 .. Captures /\ 0 \in 0 .. Sessions
    BY LinkAssumption
  <2>2. <<>> \in Seq(Messages) /\ <<>> \in Seq(Lines)
    OBVIOUS
  <2> QED BY <2>1, <2>2 DEF Init, TypeOK, Phases
<1> QED BY <1>1, <1>2 DEF IInv, CatchUpInv, InStepInv, Begun

-----------------------------------------------------------------------------
(* The theorems.                                                           *)

\* IInv is inductive (the firmware may still be at two lines of dead sessions
\* when a session starts; with three the catching up is not always complete).
THEOREM Inductive == ASSUME Backlog <= 2 PROVE Spec => []IInv
<1>1. Init => IInv
  BY Started
<1>2. IInv /\ [Next]_vars => IInv'
  <2> SUFFICES ASSUME IInv, [Next]_vars PROVE IInv'
    OBVIOUS
  <2>1. CASE Next
    BY <2>1, TypeStep, CatchUpStep, InStepStep DEF IInv
  <2>2. CASE UNCHANGED vars
    <3>1. UNCHANGED vars => /\ TypeOK' = TypeOK /\ Outstanding' = Outstanding
                            /\ Heard' = Heard /\ Begun' = Begun
                            /\ UNCHANGED <<phase, want, taken, buffer>>
      BY DEF vars, TypeOK, Outstanding, Heard, Begun, Idle
    <3>2. CatchUpInv'
      BY <2>2, <3>1, CatchUpStays
    <3>3. InStepInv'
      BY <2>2, <3>1, InStepStays
    <3> QED BY <2>2, <3>1, <3>2, <3>3 DEF IInv
  <2> QED BY <2>1, <2>2
<1> QED BY <1>1, <1>2, PTL DEF Spec

\* The session is in step with the firmware once it is warmed up.
LEMMA Stepping == ASSUME IInv PROVE InStep
<1> SUFFICES ASSUME phase \in {"track", "dump"}, buf = <<>>
             PROVE  Pending <= (IF waiting THEN 1 ELSE 0)
  BY DEF InStep
<1>1. Pending = Len(Outstanding) /\ waiting \in BOOLEAN
  BY OutstandingTyped DEF IInv, TypeOK
<1>2. CASE ~waiting
  BY <1>1, <1>2 DEF IInv, InStepInv, Begun
<1>3. CASE waiting
  <2>1. \E l : Outstanding = <<>> \/ Outstanding = <<l>>
    BY <1>3 DEF IInv, InStepInv, Begun
  <2> QED BY <1>1, <1>3, <2>1
<1> QED BY <1>1, <1>2, <1>3

\* What is stored for a track was captured on it.
LEMMA StoredRight ==
  ASSUME IInv, \A p \in stored : p[1] = p[2], [Next]_vars
  PROVE  (\A p \in stored : p[1] = p[2])'
<1>1. CASE stored' = stored
  BY <1>1
<1>2. CASE Proceed /\ phase = "dump"
  <2>1. DumpOK /\ TypeOK /\ Begun
    BY <1>2 DEF Proceed, Onward, Begun, IInv
  <2>2. Dumped = want
    BY <1>2, <2>1, DumpedHeard DEF IInv, InStepInv
  <2> QED BY <1>2, <2>2 DEF Proceed
<1> QED BY <1>1, <1>2 DEF Next, vars, OpenPort, Settle, Send, Read, Proceed, Leave, Greet,
       Hangup, Dispatch, CmdStatus, CmdUp, CmdCapture, CmdDump, Done

\* What a session stores for a track was captured on that track, and it is in
\* step with the firmware, however the sessions before it ended: sweep.py's
\* warm-up capture is enough to catch up with two lines.
THEOREM TracksRight == ASSUME Backlog <= 2 PROVE Spec => []RightTrack
<1> DEFINE Right == \A p \in stored : p[1] = p[2]
<1>1. Init => Right
  BY DEF Init
<1>2. IInv /\ Right /\ [Next]_vars => Right'
  BY StoredRight
<1>3. IInv /\ Right => RightTrack
  BY Stepping DEF RightTrack
<1> QED BY <1>1, <1>2, <1>3, Inductive, PTL DEF Spec
=============================================================================
