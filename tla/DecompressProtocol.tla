------------------------- MODULE DecompressProtocol -------------------------
(***************************************************************************)
(* What the decompression API promises its client, image after image: the  *)
(* order of the phases, that the lines of an image come out once and in    *)
(* order, that a multi-scan image is complete before its first line, and   *)
(* that an image is only finished once its EOI has been passed.            *)
(***************************************************************************)
EXTENDS Integers

CONSTANT Height

VARIABLES
  phase,    \* where the client stands in the life of an image
  line,     \* lines of the current pass delivered so far
  scans,    \* "one" or "many": what the header says of the image
  complete  \* the EOI of the image has been passed

vars == <<phase, line, scans, complete>>

Phases == {"idle", "header", "ready", "loading", "output", "passes", "draining"}

TypeOK ==
  /\ phase \in Phases
  /\ line \in 0..Height
  /\ scans \in {"one", "many"}
  /\ complete \in BOOLEAN

Init == phase = "idle" /\ line = 0 /\ scans = "one" /\ complete = FALSE

Begin ==
  /\ phase = "idle" /\ phase' = "header"
  /\ scans' = "one" /\ complete' = FALSE /\ UNCHANGED line

(* Input advances: markers are read, the EOI may go by.  A pass that has    *)
(* started knows how many scans its image has.                              *)
Consume ==
  /\ phase \notin {"idle"}
  /\ complete' \in {complete, TRUE}
  /\ phase = "header" \/ UNCHANGED scans
  /\ scans' \in {"one", "many"}
  /\ UNCHANGED <<phase, line>>

HeaderRead ==
  /\ phase = "header" /\ phase' = "ready"
  /\ scans' \in {"one", "many"} /\ UNCHANGED <<line, complete>>

TablesOnly ==
  /\ phase = "header" /\ complete /\ phase' = "idle"
  /\ UNCHANGED <<line, scans, complete>>

Load ==
  /\ phase = "ready" /\ scans = "many" /\ phase' = "loading"
  /\ UNCHANGED <<line, scans, complete>>

StartPasses ==
  /\ phase = "ready" /\ phase' = "passes"
  /\ UNCHANGED <<line, scans, complete>>

StartOutput ==
  /\ phase \in {"ready", "loading"}
  /\ scans = "many" => complete
  /\ phase' = "output" /\ line' = 0
  /\ UNCHANGED <<scans, complete>>

Deliver ==
  /\ phase = "output" /\ line' \in line + 1..Height
  /\ UNCHANGED <<phase, scans, complete>>

Drain ==
  /\ \/ phase = "output" /\ line = Height
     \/ phase = "passes"
  /\ phase' = "draining" /\ UNCHANGED <<line, scans, complete>>

Finish ==
  /\ phase = "draining" /\ complete /\ phase' = "idle"
  /\ UNCHANGED <<line, scans, complete>>

Abort ==
  /\ phase' = "idle" /\ line' = 0 /\ scans' = "one" /\ complete' = FALSE

Next ==
  \/ Begin \/ Consume \/ HeaderRead \/ TablesOnly \/ Load \/ StartPasses
  \/ StartOutput \/ Deliver \/ Drain \/ Finish \/ Abort

Spec == Init /\ [][Next]_vars
=============================================================================
