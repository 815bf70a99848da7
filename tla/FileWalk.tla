-------------------------------- MODULE FileWalk --------------------------------
(***************************************************************************)
(* irmx_fs.py: walk and the report of main on a damaged volume.  The tree  *)
(* of the directories is walked depth first from the root; the fnode table *)
(* may lead in circles, or one fnode be in two directories.                *)
(***************************************************************************)
EXTENDS Volume

CONSTANTS
  Losses,   \* the sets of blocks that may be missing
  Content   \* what is to be found: fnode -> the set of blocks it was written to
ASSUME LossAssumption == \A m \in Losses : m \subseteq Blocks
\* The volume as it was written: with nothing lost every file is read from its own
\* blocks, and no two files were given the same one.
ASSUME ContentAssumption ==
  /\ Content \in [DOMAIN Fnode -> SUBSET Blocks] /\ Fnode[rootfn].type = "dir"
  /\ \A n \in DOMAIN Fnode : Content[n] = Within({}, fnode({}, n))
  /\ \A n, o \in DOMAIN Fnode :
       n # o => ToSet(extents({}, fnode({}, n))) \cap ToSet(extents({}, fnode({}, o))) = {}

VARIABLES
  pc,       \* "walk", "report", "done"
  missing,  \* the blocks never recovered
  todo,     \* what rec has still to visit: of each directory it is in, the innermost
            \* first, the entries left
  seen,     \* its dict
  files,    \* the fnode numbers it has listed
  intact, damaged, \* the files of either kind in the report
  owner     \* missing block -> fnode, the first file that has it

vars == <<pc, missing, todo, seen, files, intact, damaged, owner>>
NoOwner == 0

Init == /\ pc = "walk" /\ missing \in Losses
        /\ todo = << {rootfn} >> /\ seen = {} /\ files = <<>>
        /\ intact = {} /\ damaged = {} /\ owner = [b \in Blocks |-> NoOwner]

-----------------------------------------------------------------------------
\* rec: an fnode that was listed before is a LOOP, otherwise it is listed, and the
\* entries of a directory come next, in the order of their names: in any order.
Again_Never(n) == FALSE  \* mutant: no LOOP check
Again(n) == n \in seen
Visit ==
  /\ pc = "walk" /\ todo # <<>>
  /\ \E n \in Head(todo) :
       LET f == fnode(missing, n)
           rest == <<Head(todo) \ {n}>> \o Tail(todo)
       IN  IF Again(n) THEN todo' = rest /\ UNCHANGED <<seen, files>>
           ELSE /\ seen' = seen \cup {n} /\ files' = Append(files, n)
                /\ todo' = IF f.type = "dir" THEN <<readdir(missing, f)>> \o rest ELSE rest
  /\ UNCHANGED <<pc, missing, intact, damaged, owner>>

\* rec returns from a directory.
Leave == /\ pc = "walk" /\ todo # <<>> /\ Head(todo) = {}
         /\ todo' = Tail(todo)
         /\ UNCHANGED <<pc, missing, seen, files, intact, damaged, owner>>

Walked == /\ pc = "walk" /\ todo = <<>>
          /\ pc' = "report"
          /\ UNCHANGED <<missing, todo, seen, files, intact, damaged, owner>>

\* main: what is not a directory is a file, intact or damaged; a missing block
\* belongs to the first file, or directory, that has it.
Listing == {files[k] : k \in DOMAIN files}
FilesOf(whole) ==
  {n \in Listing : /\ n # rootfn /\ fnode(missing, n).type # "dir"
                   /\ (damage(missing, fnode(missing, n)) = {}) = whole}
Owners(b) == {k \in DOMAIN files : b \in ToSet(extents(missing, fnode(missing, files[k])))}
Report ==
  /\ pc = "report"
  /\ intact' = FilesOf(TRUE) /\ damaged' = FilesOf(FALSE)
  /\ owner' = [b \in Blocks |->
       IF b \in missing /\ Owners(b) # {}
       THEN files[CHOOSE k \in Owners(b) : \A l \in Owners(b) : k <= l] ELSE NoOwner]
  /\ pc' = "done"
  /\ UNCHANGED <<missing, todo, seen, files>>

Next == Visit \/ Leave \/ Walked \/ Report
Spec == Init /\ [][Next]_vars

-----------------------------------------------------------------------------
Numbers == ((UNION {ToSet(Entries[b]) : b \in DOMAIN Entries}) \cup DOMAIN Fnode) \ {0}
\* The walk's dict and list agree, and only fnodes a directory names are visited.
TypeOK ==
  /\ missing \in Losses
  /\ todo \in Seq(SUBSET Numbers) /\ seen = Listing
  /\ intact \subseteq Numbers /\ damaged \subseteq Numbers
  /\ owner \in [Blocks -> Numbers \cup {NoOwner}]

\* No file is listed, or counted, twice, however the directories point.
EachOnce == \A k, l \in DOMAIN files : files[k] = files[l] => k = l

\* The blocks the verdict on a file rests on.
Indirects(n) == IF Fnode[n].long THEN {p[2] : p \in ToSet(Fnode[n].ptrs)} ELSE {}
Meta(n) == {FnBlocks[n][1], FnBlocks[n][2]} \cup Indirects(n)

\* What a reader could find in the image by following directories from the root:
\* the walk lists all of it, whatever it visited first, and nothing else, if no
\* directory on its way has lost an indirect block.
Directory(n) == n \in DOMAIN Fnode /\ Fnode[n].type = "dir"
Leads(n) == IF Directory(n) /\ FnBlocks[n][1] \notin missing /\ FnBlocks[n][2] \notin missing
            THEN (UNION {ToSet(EntriesOf({}, b)) : b \in Content[n] \ missing}) \ {0} ELSE {}
Closed(S) == rootfn \in S /\ \A n \in S : Leads(n) \subseteq S
Complete ==
  /\ TypeOK
  /\ pc = "done" /\ (\A n \in Listing : Directory(n) => Indirects(n) \cap missing = {})
     => Closed(Listing) /\ \A S \in SUBSET Numbers : Closed(S) => Listing \subseteq S

\* The report is true of every file whose fnode and indirect blocks are there: what
\* is past its size does not count against it, what is in it does. And each missing
\* block of a file that is reported damaged has an owner, and no other than the file
\* it is of, whenever what the owner says of itself is there.
VerdictTrue == pc = "done" =>
  /\ \A n \in Listing \cap DOMAIN Fnode :
       Meta(n) \cap missing = {} /\ Fnode[n].type = "data" =>
         /\ n \in intact <=> Content[n] \cap missing = {}
         /\ n \in damaged <=> Content[n] \cap missing # {}
  /\ \A b \in Blocks : \A n \in DOMAIN Fnode :
       b \in Content[n] /\ b \in missing =>
         /\ n \in damaged /\ Meta(n) \cap missing = {} => owner[b] # NoOwner
         /\ owner[b] # NoOwner => owner[b] = n \/ Meta(owner[b]) \cap missing # {}
=============================================================================
