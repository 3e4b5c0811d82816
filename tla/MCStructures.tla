----------------------------- MODULE MCStructures -----------------------------
(***************************************************************************)
(* Small instances of the containers, the packer and the algorithms, side  *)
(* by side: a behaviour is one of the machine that "machine" names.        *)
(* layout_place, upon its packer, has variables of its own; the others     *)
(* take turns at q1 to q9.                                                 *)
(***************************************************************************)
EXTENDS Layout

CONSTANT Machines

VARIABLES machine, q1, q2, q3, q4, q5, q6, q7, q8, q9

registers == <<q1, q2, q3, q4, q5, q6, q7, q8, q9>>
mcvars == <<machine, allVars, registers>>

Rect(x0, y0, x1, y1) == [x0 |-> x0, y0 |-> y0, x1 |-> x1, y1 |-> y1]
\* The functions of geom/box against the points of boxes, empty ones too.
Points(b) == {p \in (-2 .. 4) \X (-2 .. 4) : contains_point(b, p[1], p[2])}
Rects == {Rect(x0, y0, x1, y1) : x0, y0, x1, y1 \in 0 .. 2}

ASSUME BoxLaws ==
  /\ \A b \in Rects :
       /\ is_empty(b) <=> Points(b) = {}
       /\ Points(translated(b, -1, 2)) = {<<p[1] - 1, p[2] + 2>> : p \in Points(b)}
       /\ ~ is_empty(b) =>
            /\ Points(b) \subseteq Points(grow(b, 1))
            /\ could_hold(b, 2, 1) <=>
                 \E p \in Points(b) : <<p[1] + 1, p[2]>> \in Points(b)
            /\ LET r == round(b, 1, 0)
               IN  /\ Points(b) \subseteq Points(r) /\ r.x0 % 2 = 0 /\ r.x1 % 2 = 0
                   /\ Points(r) \subseteq Points(round4(r))
  /\ \A a, b \in Rects :
       /\ Points(intersection(a, b)) = Points(a) \cap Points(b)
       /\ ~ is_empty(a) /\ ~ is_empty(b) =>
            /\ intersects(a, b) <=> Points(a) \cap Points(b) # {}
            /\ contains_box(a, b) <=> Points(a) \subseteq Points(b)
            /\ Points(a) \cup Points(b) \subseteq Points(union(a, b))
            /\ clipped(a, b) = Rect(0, 0, 0, 0) <=> contains_box(b, a)

\* Margins at the left and top, and wider than the page; an area in the middle
\* and one over the top; boxes that share lines, and one that no line has room
\* for.
MCPage == Rect(0, 0, 4, 3)
MCMargins == {Rect(1, 0, 0, 1), Rect(2, 0, 3, 0)}
MCAreas == {Rect(1, 1, 3, 2), Rect(0, 1, 2, 4)}
MCElements ==
  {<<BoxElement(1, 2, 1), BoxElement(2, 2, 1), BoxElement(1, 1, 2)>>,
   <<Newline, BoxElement(2, 3, 1)>>, <<BoxElement(4, 4, 1), Newline>>}

\* They are such as PackerProofs takes them to be.
ASSUME PageFits == LayoutFits

\* Every length of the cache's own test, in steps that meet every remainder.
MCLengths == {511} \cup {512 + 29 * n : n \in 0 .. 36} \cup {4096, 65536}

\* The sizes of a 64-bit target.
CL == INSTANCE CacheLayout WITH
  BlockLengths <- MCLengths, ChainLengths <- {0, 4, 8},
  Percentages <- {4, 5, 20, 25, 50, 70, 95}, SizeModulus <- 1048576,
  SizeHeader <- 72, SizePointer <- 8, SizeEntry <- 40, Quantum <- 16,
  call <- q1, reply <- q2

\* They are such as DataProofs takes them to be.
ASSUME BlockFits == CL!SizesFit

VE == INSTANCE Vector WITH
  Widths <- {2, 3}, MaxLength <- 3, Values <- {1, 2},
  width <- q1, used <- q2, allocated <- q3, base <- q4, block <- q5, result <- q6

BV == INSTANCE BitVec WITH
  Vectors <- {"v", "w"}, WordBits <- 2, MaxBits <- 4, vec <- q1, answer <- q2

\* Walks of every node and of branches, of all levels and of two.
TR == INSTANCE NTree WITH
  NNodes <- 4, Depths <- {0, 2},
  Flags <- {[leaves |-> TRUE, branches |-> TRUE], [leaves |-> FALSE, branches |-> TRUE]},
  live <- q1, next <- q2, prev <- q3, parent <- q4, children <- q5,
  walk <- q6, todo <- q7, visited <- q8, lost <- q9

HL == INSTANCE HList WITH
  NCells <- 3, Values <- {1, 2},
  live <- q1, rest <- q2, first <- q3, head <- q4, lost <- q5, answer <- q6

\* Arrays and single values of every pair of sizes, alone, before and after
\* another item.
PackItems ==
  [array : BOOLEAN, count : 0 .. 2, src : {0, 1, 2, 4, 8}, dst : {1, 2, 4, 8}, signed : BOOLEAN]
Byte == [array |-> FALSE, count |-> 1, src |-> 0, dst |-> 1, signed |-> FALSE]
Halves == [array |-> FALSE, count |-> 2, src |-> 2, dst |-> 4, signed |-> TRUE]

PA == INSTANCE Pack WITH
  Formats <- UNION {{<<t>>, <<Byte, t>>, <<t, Halves>>} : t \in PackItems},
  format <- q1, values <- q2, endian <- q3, pc <- q4, item <- q5, buf <- q6,
  bp <- q7, out <- q8, answer <- q9

SE == INSTANCE BinarySearch WITH
  Values <- {2, 4, 6}, Wanted <- 1 .. 7, MaxElems <- 9,
  array <- q1, want <- q2, range <- q3, i <- q4, c <- q5, pc <- q6

ASSUME SearchFits == SE!ValuesFit

\* Alphas at and about the ends and the middle; colours that fit when they are
\* divided by a small alpha, and some that do not.
CO == INSTANCE Composite WITH
  Pixels <- {<<c[1], c[2], c[3], a>> :
    a \in {0, 1, 2, 64, 128, 254, 255},
    c \in {<<0, 0, 0>>, <<171, 0, 255>>, <<0, 170, 1>>, <<100, 33, 128>>}},
  Formats <- {"rgba8888", "bgra8888", "abgr8888"},
  src <- q1, dst <- q2, reply <- q3

MCInit ==
  /\ machine \in Machines
  /\ LayoutInit
  /\ CASE machine = "vector" -> VE!Init /\ q7 = 0 /\ q8 = 0 /\ q9 = 0
       [] machine = "bitvec" ->
            BV!Init /\ q3 = 0 /\ q4 = 0 /\ q5 = 0 /\ q6 = 0 /\ q7 = 0 /\ q8 = 0 /\ q9 = 0
       [] machine = "ntree"  -> TR!Init
       [] machine = "hlist"  -> HL!Init /\ q7 = 0 /\ q8 = 0 /\ q9 = 0
       [] machine = "pack"   -> PA!Init
       [] machine = "search" -> SE!Init /\ q7 = 0 /\ q8 = 0 /\ q9 = 0
       [] machine = "composite" ->
            CO!Init /\ q4 = 0 /\ q5 = 0 /\ q6 = 0 /\ q7 = 0 /\ q8 = 0 /\ q9 = 0
       [] machine = "cachelayout" ->
            CL!Init /\ q3 = 0 /\ q4 = 0 /\ q5 = 0 /\ q6 = 0 /\ q7 = 0 /\ q8 = 0 /\ q9 = 0
       [] OTHER -> /\ q1 = 0 /\ q2 = 0 /\ q3 = 0 /\ q4 = 0 /\ q5 = 0
                   /\ q6 = 0 /\ q7 = 0 /\ q8 = 0 /\ q9 = 0

Containers ==
  \/ machine = "cachelayout" /\ CL!Next /\ UNCHANGED <<q3, q4, q5, q6, q7, q8, q9>>
  \/ machine = "vector" /\ VE!Next /\ UNCHANGED <<q7, q8, q9>>
  \/ machine = "bitvec" /\ BV!Next /\ UNCHANGED <<q3, q4, q5, q6, q7, q8, q9>>
  \/ machine = "ntree" /\ TR!Next
  \/ machine = "hlist" /\ HL!Next /\ UNCHANGED <<q7, q8, q9>>
  \/ machine = "pack" /\ PA!Next
  \/ machine = "search" /\ SE!Next /\ UNCHANGED <<q7, q8, q9>>
  \/ machine = "composite" /\ CO!Next /\ UNCHANGED <<q4, q5, q6, q7, q8, q9>>

MCNext ==
  \/ machine = "packing" /\ LayoutNext /\ UNCHANGED <<machine, registers>>
  \/ Containers /\ UNCHANGED <<machine, allVars>>

\* layout_place is a plain call: nothing keeps it from its next step.
MCSpec ==
  /\ MCInit /\ [][MCNext]_mcvars
  /\ WF_pc(machine = "packing" /\ Proceeds)

-----------------------------------------------------------------------------
(* The properties of each machine, in its own behaviours; those of the     *)
(* packer and of layout_place are their own.                               *)

\* CacheLayout!LaidOutIfRoom and ChainsAsConfigured: header, bins, entries and
\* store follow each other inside exactly the blocks that have room for them.
CacheLayoutFits ==
  machine = "cachelayout" => CL!LaidOutIfRoom /\ CL!ChainsAsConfigured

\* CacheLayout!LayoutFits: no block is accepted that its parts do not fit.
CacheStoreInBlock == machine = "cachelayout" => CL!LayoutFits

\* Vector!KeepsElements: elements keep their bytes through changes of length
\* and width.
VectorKeepsElements ==
  /\ machine = "vector" => VE!Array!Init
  /\ [][machine = "vector" => VE!ElementsKept]_registers

\* BitVec!AreSets: bit vectors are sets of numbers of any length.
BitVecsAreSets ==
  /\ machine = "bitvec" => BV!Sets!SetsInit
  /\ [][machine = "bitvec" => BV!Sets!Next \/ BV!FromClear]_registers

\* BitVec!NextIsNext: bitvec_next answers the next bit set after any number.
BitVecNextIsNext == [][machine = "bitvec" => BV!Sets!Next]_registers

\* NTree!KeepsForest, LinksAgree and VisitsInOrder: the calls do to every
\* node's children what they say, the four links say the same, and a walk visits
\* what it was asked to in order, though nodes go as it visits them.
TreeKeepsForest ==
  /\ machine = "ntree" => TR!Ordered!Init
  /\ [][machine = "ntree" /\ TR!links' # TR!links => TR!Ordered!Next]_registers
  /\ [](machine = "ntree" => TR!LinksAgree /\ TR!VisitsInOrder)

\* HList!KeepsLists: lists change as the calls say and share no cell.
HListsKept ==
  [](machine = "hlist" => HL!OwnsCells) /\ [][machine = "hlist" => HL!Promised]_registers

\* Pack!UnpacksWhatWasPacked: what was packed is unpacked the same.
UnpacksWhatWasPacked == machine = "pack" => PA!UnpacksWhatWasPacked

\* Pack!UnpacksBigEndian: big endian data is unpacked to what it says.
UnpacksBigEndian == machine = "pack" => PA!UnpacksBigEndian

\* BinarySearch!FindsIffThere: a value is found exactly when it is there, and
\* nothing but the array is read.
FindsIffThere == machine = "search" => SE!FindsIffThere

\* Composite!ComposesByRule: each pixel becomes what the rule makes of the two.
ComposesByRule == [][machine = "composite" => CO!ComposesByRule]_registers

=============================================================================
