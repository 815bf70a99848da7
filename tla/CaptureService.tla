----------------------------- MODULE CaptureService -----------------------------
(***************************************************************************)
(* What capture.h promises to the console: one request at a time; while it *)
(* is served the track buffer fills from its start with the words of this  *)
(* revolution; the answer is how many of them there are; and between an    *)
(* answer and the next request nobody touches the buffer.                  *)
(***************************************************************************)
EXTENDS Naturals, FiniteSets

CONSTANT Words  \* CAPTURE_WORDS

VARIABLES busy,    \* a request is being served
          buffer,  \* "now": a word of the latest request; "old": of one before
          answer   \* words the latest request captured

Index == 0 .. Words - 1
Older(b) == [i \in Index |-> IF b[i] = "now" THEN "old" ELSE b[i]]
Fresh == Cardinality({i \in Index : buffer[i] = "now"})

Init == busy = FALSE /\ buffer = [i \in Index |-> "none"] /\ answer = 0

Ask == /\ ~busy /\ busy' = TRUE
       /\ buffer' = Older(buffer)
       /\ UNCHANGED answer

Fill == /\ busy /\ Fresh < Words
        /\ buffer' = [buffer EXCEPT ![Fresh] = "now"]
        /\ UNCHANGED <<busy, answer>>

Answer == /\ busy /\ busy' = FALSE
          /\ answer' = Fresh
          /\ UNCHANGED buffer

Spec == Init /\ [][Ask \/ Fill \/ Answer]_<<busy, buffer, answer>>
=============================================================================
