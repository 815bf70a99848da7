------------------------------ MODULE VoteRepair ------------------------------
(***************************************************************************)
(* vote_repair.py: one failed sector.  The fields found behind its header  *)
(* in all captures are grouped by where they begin, the reads far from the *)
(* rest of their group are dropped, what is left is voted bit by bit, and  *)
(* the ECC tells whether the result is the sector.                         *)
(*                                                                         *)
(* A field that begins at the wrong place is never valid.  Repair extends  *)
(* this module and PositionRescue, so no name is in both.                  *)
(***************************************************************************)
EXTENDS AnchorWalk, FiniteSetsExt

CONSTANTS
  Reads,         \* what may pass under the head: whose header, the ones behind it
                 \* on the track, and the bits of the field that are read wrong
  Truth,         \* the ones of the field as it was written
  Bits,          \* its bits
  OUTLIER_BITS,  \* 300 in the code
  MAX_BURST,     \* what validate corrects, as correct_burst does,
  LastBurst,     \* and the last bit where that may begin: 4 before the ECC
  min_reads,
  MaxReads       \* bound: headers in all captures

\* What the constants have to be.
ASSUME VoteAssumption ==
  /\ Bits \subseteq Nat /\ IsFiniteSet(Bits) /\ Truth \subseteq Bits /\ IsFiniteSet(Reads)
  /\ OUTLIER_BITS \in Nat /\ MAX_BURST \in Nat /\ LastBurst \in Nat
  /\ min_reads \in Nat /\ MaxReads \in Nat
  /\ \A d \in Reads : d.own \in BOOLEAN /\ d.ones \subseteq Nat /\ d.wrong \subseteq Bits

START == 298  \* where the field begins, in bits from the header

VARIABLES
  vpc,     \* "read" the captures, "vote", "done"
  reads,   \* the headers found in all captures: how many of each kind
  groups,  \* the alignments not yet tried
  voted    \* data: "none", or the bits that are wrong in what is returned

voteVars == <<vpc, reads, groups, voted>>
None == {-1}

VoteInit == vpc = "read" /\ reads = [d \in Reads |-> 0] /\ groups = {} /\ voted = None

-----------------------------------------------------------------------------
\* extract_instances: every field that could be tried behind a header of the
\* sector and the cylinder: <<the read, its number, the try>>.
found == UNION {{d} \X (1 .. reads[d]) : d \in Reads}
tries == [d \in Reads |-> Tries(d.ones)]
Instances == UNION {{<<h[1], h[2], t>> : t \in tries[h[1]]} : h \in {h \in found : h[1].own}}
Key(x) == x[3][1] - x[3][2]
Group(key) == {x \in Instances : Key(x) = key}
field(x) == IF Key(x) = START THEN SymDiff(Truth, x[1].wrong) ELSE {}

hamming(a, b) == Cardinality(SymDiff(a, b))
\* Of the least distance to the others, all of them together: the bits of the
\* others that differ.  Which, if there are several, hangs on the order of the files.
Differ(x, G) == {p \in G \X Bits : p[2] \in SymDiff(field(x), field(p[1]))}
Medoids(G) ==
  LET far == [x \in G |-> Cardinality(Differ(x, G))]
  IN  {x \in G : \A y \in G : far[x] <= far[y]}

\* filter_outliers
Near(m, G) == {x \in G : hamming(field(x), field(m)) <= OUTLIER_BITS}
Filtered(G) == IF Cardinality(G) <= 2 THEN {G} ELSE {Near(m, G) : m \in Medoids(G)}

vote(G) == {b \in Bits : 2 * Cardinality({x \in G : b \in field(x)}) > Cardinality(G)}

\* validate: the data, if the field checks or a burst is all that is wrong.
validate_Never(key, fld) == SymDiff(fld, Truth)  \* mutant: the ECC is not asked
validate(key, fld) ==
  IF key = START /\ Undone(SymDiff(fld, Truth), MAX_BURST, LastBurst) THEN {} ELSE None

-----------------------------------------------------------------------------
Read == /\ vpc = "read" /\ Cardinality(found) < MaxReads
        /\ \E d \in Reads : reads' = [reads EXCEPT ![d] = @ + 1]
        /\ UNCHANGED <<vpc, groups, voted>>

Extract == /\ vpc = "read"
           /\ IF Cardinality(Instances) < min_reads THEN vpc' = "done" /\ groups' = {}
              ELSE vpc' = "vote" /\ groups' = {Key(x) : x \in Instances}
           /\ UNCHANGED <<reads, voted>>

\* The largest of the groups left is tried; what it votes, if anything, decides
\* whether the next is.
Largest(key) == \A g \in groups : Cardinality(Group(g)) <= Cardinality(Group(key))
Others_None(key) == {}  \* mutant: no other group is tried
Others(key) == groups \ {key}
TryGroup ==
  /\ vpc = "vote" /\ voted = None
  /\ \E key \in groups : \E kept \in Filtered(Group(key)) :
       /\ Largest(key)
       /\ groups' = Others(key)
       /\ voted' = IF Cardinality(kept) < min_reads THEN None ELSE validate(key, vote(kept))
  /\ UNCHANGED <<vpc, reads>>

NoGroupLeft == /\ vpc = "vote" /\ (groups = {} \/ voted # None)
               /\ vpc' = "done"
               /\ UNCHANGED <<reads, groups, voted>>

VoteNext == Read \/ Extract \/ TryGroup \/ NoGroupLeft
VoteSpec == VoteInit /\ [][VoteNext]_voteVars
-----------------------------------------------------------------------------
\* Above all: what is returned is right.
VoteRight ==
  /\ vpc \in {"read", "vote", "done"}
  /\ reads \in [Reads -> 0 .. MaxReads]
  /\ voted \in {None, {}}

\* The reads of the field that are within half the filter's distance of it.
Good == {x \in Group(START) : 2 * Cardinality(x[1].wrong) <= OUTLIER_BITS}
Bad  == Group(START) \ Good
MostlyRight == \A b \in Bits :
  2 * Cardinality({x \in Good : b \in x[1].wrong}) < Cardinality(Good)
\* So far off that the medoid is a good read, however alike the bad ones are.
FarOff == \A x \in Bad, y \in Good :
  (Cardinality(Good) - Cardinality(Bad)) * hamming(field(x), field(y))
    > 2 * OUTLIER_BITS * (Cardinality(Good) - 1)

GoodPrevail == /\ Cardinality(Good) >= min_reads /\ Cardinality(Good) > Cardinality(Bad)
               /\ MostlyRight /\ FarOff

\* More good reads than reads of something else, each bit right in most of the
\* good ones: the sector is recovered, though those others agree on every bit,
\* and though more fields were found at another alignment.
Recovered == vpc = "done" /\ GoodPrevail => voted = {}
=============================================================================
