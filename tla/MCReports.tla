------------------------------- MODULE MCReports -------------------------------
(***************************************************************************)
(* The two scripts that read a finished image, irmx_fs.py and              *)
(* defect_map.py, on one small damaged volume of four cylinders.           *)
(*                                                                         *)
(* Blocks 0 to 2 hold the fnode table, one fnode over two of them.         *)
(* Directory 4 points back to the root, and file 5 is in two directories;  *)
(* the last slot in the root was never allocated.  The last cylinder has   *)
(* the bad-track table on its second head; two strays come before it, one  *)
(* a ramp, one with a track that does not exist.                           *)
(***************************************************************************)
EXTENDS DefectMap

Node(type, long, size, ptrs) == [type |-> type, long |-> long, size |-> size, ptrs |-> ptrs]
MCFnode == 1 :> Node("dir", FALSE, 2, << <<2, 3>> >>)
        @@ 2 :> Node("data", FALSE, 2, << <<1, 6>>, <<2, 7>> >>)     \* a slack block
        @@ 3 :> Node("data", TRUE, 3, << <<2, 10>>, <<1, 14>> >>)
        @@ 4 :> Node("dir", FALSE, 1, << <<1, 5>> >>)
        @@ 5 :> Node("data", FALSE, 1, << <<1, 9>> >>)
MCFnBlocks == 1 :> <<0, 0>> @@ 2 :> <<0, 1>> @@ 3 :> <<1, 1>> @@ 4 :> <<1, 1>> @@ 5 :> <<2, 2>>
MCIndirect == 10 :> << <<1, 11>>, <<1, 12>>, <<0, 0>> >> @@ 14 :> << <<1, 13>>, <<1, 9>> >>
MCEntries == 3 :> <<2, 0, 4>> @@ 4 :> <<5, 3, 9>> @@ 5 :> <<0, 5, 1>>
MCContent == 1 :> {3, 4} @@ 2 :> {6, 7} @@ 3 :> {11, 12, 13} @@ 4 :> {5} @@ 5 :> {9}
MCBlocks == 0 .. 23

MCTables == {<< <<2, 1>> >>, << <<1, 1>>, <<2, 1>> >>}
MCCopyAt == {21, 23}
MCStrays == 18 :> [n |-> 43982, ents |-> << <<43983, 43984>> >>]
         @@ 20 :> [n |-> 1, ents |-> << <<1, 9>> >>]

\* Up to three blocks of the files; or up to two; or one, with copies of the table, and
\* a track.
UpTo(k) == UNION {kSubset(j, 0 .. 14) : j \in 0 .. k}
Some == UpTo(3) \cup {MCBlocks}
SomeOfAll == UpTo(2) \cup {a \cup b \cup c : a \in UpTo(1), b \in SUBSET {20, 21, 23},
                                             c \in {{}, {15, 16, 17}}}
MCLosses == Some \cup SomeOfAll

-----------------------------------------------------------------------------
VARIABLE script
NoTable == /\ written = <<>> /\ probe = 0 /\ bad = <<>> /\ on_head = NoHead
           /\ covered = {} /\ rows = <<>> /\ claim = FALSE
MCInit == \/ script = "irmx_fs.py" /\ Init /\ missing \in Some /\ NoTable
          \/ script = "defect_map.py" /\ Start /\ missing \in SomeOfAll
MCNext == /\ UNCHANGED script
          /\ \/ script = "irmx_fs.py" /\ Next /\ UNCHANGED <<tableVars, reportVars>>
             \/ script = "defect_map.py" /\ Attribute
MCSpec == MCInit /\ [][MCNext]_<<vars, tableVars, reportVars, script>>
=============================================================================
