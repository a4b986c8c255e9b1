------------------------------ MODULE Def2Stream ------------------------------
(***************************************************************************)
(* The last step of the physical flow, def2stream.py: the placed design is *)
(* read with the abstracts of its cells, every abstract is emptied, the    *)
(* cells' real layouts are merged in from the GDS files, and the tree of   *)
(* the top cell is written out, after a check for cells that stayed empty. *)
(*                                                                         *)
(* A cell is what was drawn in it, told apart by where it came from, and   *)
(* the cells placed in it.  KLayout is external: reading a file into a     *)
(* layout adds to the cells that have the same name.                       *)
(***************************************************************************)
EXTENDS Naturals, Sequences, FiniteSets

CONSTANTS
  Cell, Top,     \* the names of cells; the design
  Via,           \* those with the prefix VIA_, drawn by the DEF itself
  AllowEmpty,    \* those that GDS_ALLOW_EMPTY matches
  Placements,    \* the sets of cells a design may place
  Streams,       \* the GDS files: from cells to the cells placed in them
  StatusSpan,    \* the exit statuses there are, 256
  MaxFiles,
  Unreadable, Nothing

\* No library file places a via of the design, which only the DEF defines.
ASSUME StreamAssumption ==
  /\ IsFiniteSet(Cell) /\ Top \in Cell
  /\ \A placed \in Placements : placed \subseteq Cell
  /\ \A gds \in Streams : \A c \in DOMAIN gds : gds[c] \subseteq Cell \ Via
  /\ StatusSpan \in Nat \ {0} /\ Nothing \notin Nat
  /\ \A S \in SUBSET Cell : Nothing \notin [S -> SUBSET {"def", "lef", "gds"}]

VARIABLES
  files,              \* what is left of gds_flist
  drawn, children,    \* main_layout
  step, errors,
  out_file, status    \* what the step leaves behind

layout     == <<drawn, children>>
streamVars == <<files, layout, step, errors, out_file, status>>

\* An abstract counts as drawn by "lef", a via as drawn by "def".
StreamInit ==
  /\ files \in UNION {[1..k -> Streams \cup {Unreadable}] : k \in 0..MaxFiles}
  /\ \E placed \in Placements :
       /\ children = [c \in Cell |-> IF c = Top THEN placed ELSE {}]
       /\ drawn = [c \in Cell |-> IF c = Top \/ c \in placed \cap Via THEN {"def"}
                                  ELSE IF c \in placed THEN {"lef"} ELSE {}]
  /\ step = "clear" /\ errors = 0
  /\ out_file = Nothing /\ status = Nothing

Cleared == Cell \ (Via \cup {Top})

ClearCells ==
  /\ step = "clear"
  /\ drawn' = [c \in Cell |-> IF c \in Cleared THEN {} ELSE drawn[c]]
  /\ children' = [c \in Cell |-> IF c \in Cleared THEN {} ELSE children[c]]
  /\ step' = "merge"
  /\ UNCHANGED <<files, errors, out_file, status>>

\* A file that cannot be read ends the script.
Merge ==
  /\ step = "merge" /\ files # <<>>
  /\ files' = Tail(files)
  /\ IF Head(files) = Unreadable
     THEN step' = "end" /\ status' = 1 /\ UNCHANGED layout
     ELSE LET gds == Head(files) IN
          /\ drawn' = [c \in Cell |-> drawn[c] \cup (IF c \in DOMAIN gds THEN {"gds"} ELSE {})]
          /\ children' = [c \in Cell |-> children[c] \cup (IF c \in DOMAIN gds THEN gds[c] ELSE {})]
          /\ UNCHANGED <<step, status>>
  /\ UNCHANGED <<errors, out_file>>

\* Only the cells the top places itself.
OneLevel == {Top} \cup children[Top]

\* copy_tree: the cells of top_only_layout, level by level.
down[k \in 0..Cardinality(Cell)] ==
  IF k = 0 THEN {Top} ELSE down[k-1] \cup UNION {children[c] : c \in down[k-1]}

Tree == down[Cardinality(Cell)]

CopyTop ==
  /\ step = "merge" /\ files = <<>>
  /\ LET copied == Tree IN
     /\ children' = [c \in copied |-> children[c]]
     /\ drawn' = [c \in copied |-> drawn[c]]
  /\ step' = "missing"
  /\ UNCHANGED <<files, errors, out_file, status>>

Empty   == {c \in DOMAIN drawn : drawn[c] = {} /\ children[c] = {}}
Orphans == {c \in DOMAIN drawn \ {Top} : \A p \in DOMAIN drawn : c \notin children[p]}

CheckMissing ==
  /\ step = "missing"
  /\ errors' = errors + Cardinality(Empty \ AllowEmpty)
  /\ step' = "orphans"
  /\ UNCHANGED <<files, layout, out_file, status>>

CheckOrphans ==
  /\ step = "orphans"
  /\ errors' = errors + Cardinality(Orphans)
  /\ step' = "write"
  /\ UNCHANGED <<files, layout, out_file, status>>

\* The file is written whatever was found; the status is the count's low byte.
Write ==
  /\ step = "write"
  /\ out_file' = drawn
  /\ status' = errors % StatusSpan
  /\ step' = "end"
  /\ UNCHANGED <<files, layout, errors>>

StreamNext == ClearCells \/ Merge \/ CopyTop \/ CheckMissing \/ CheckOrphans \/ Write

StreamSpec == StreamInit /\ [][StreamNext]_streamVars

-----------------------------------------------------------------------------
StreamTypeOK ==
  /\ step \in {"clear", "merge", "missing", "orphans", "write", "end"}
  /\ Top \in DOMAIN drawn /\ DOMAIN children = DOMAIN drawn
  /\ \A c \in DOMAIN drawn : drawn[c] \subseteq {"def", "lef", "gds"} /\ children[c] \subseteq Cell
  /\ errors \in 0..2 * Cardinality(Cell)
  /\ status = Nothing <=> step # "end"

\* What is sent out holds no abstract of a cell, and every via of the design
\* keeps the drawing only the DEF has (def2stream.py:30-33).
NoAbstractSent ==
  out_file # Nothing =>
    \A c \in DOMAIN out_file :
      "lef" \notin out_file[c] /\ (c \in Via => "def" \in out_file[c])

\* The tree of the top cell has no orphans, so every error is a missing cell
\* (def2stream.py:70-76 checks it again).
ErrorsAreMissing ==
  step = "write" \/ out_file # Nothing => errors = Cardinality(Empty \ AllowEmpty)

\* What is written holds every cell the design places, at any depth; the step
\* fails if one of them has no drawing from any file, cells allowed to be empty
\* aside, and succeeds if none has.  Only where the missing cells are as many as
\* there are exit statuses can it succeed without them (def2stream.py:52-87).
StatusIsTruthful ==
  /\ status = 0 => out_file # Nothing
  /\ out_file # Nothing =>
       LET missing == {c \in DOMAIN out_file : out_file[c] = {} /\ children[c] = {}} \ AllowEmpty
       IN  /\ \A c \in DOMAIN out_file : children[c] \subseteq DOMAIN out_file
           /\ status = 0 => missing = {} \/ Cardinality(missing) >= StatusSpan
           /\ missing = {} => status = 0

\* The layout sent out is complete, real, and reported for what it is
\* (def2stream.py:27-87).
StreamCorrect == StreamTypeOK /\ NoAbstractSent /\ ErrorsAreMissing /\ StatusIsTruthful
=============================================================================
