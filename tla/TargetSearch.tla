---------------------------- MODULE TargetSearch ----------------------------
(***************************************************************************)
(* A run of btdecoder: main() reads blocks until either file ends, the     *)
(* LAP given on the command line is resolved, or enough of a list of LAPs  *)
(* are.  One LAP, Target, is tracked in detail (TargetTracker); any other  *)
(* may be resolved in any block.                                           *)
(***************************************************************************)
EXTENDS TargetTracker

CONSTANTS
  Target,       \* the LAP that TargetTracker follows
  OtherLaps,    \* the others on the air
  Preset,       \* my_lap, which main enters as resolved before it starts
  Arguments     \* what may be asked for: a LAP, or some of a list

Lap == OtherLaps \cup {Target}
NoLap == "none"

ASSUME LapAssumption ==
  /\ IsFiniteSet(OtherLaps) /\ Target \notin OtherLaps /\ Preset \in OtherLaps
  /\ NoLap \notin Lap

(***************************************************************************)
(* The fifth argument is a LAP, or L and a file; the LAPs of the file are  *)
(* at least as many as the number asked for, and that is at least 1.       *)
(***************************************************************************)
ASSUME ArgumentsAssumption == \A arg \in Arguments :
  \/ arg.lap \in Lap \cup {NoLap} /\ arg.list = {} /\ arg.number = 0
  \/ arg.lap = NoLap /\ arg.list \subseteq Lap /\ arg.number \in 1 .. Cardinality(arg.list)

VARIABLES
  argv,
  resolved,             \* the other LAPs whose entry is resolved
  lap_to_find,          \* 1 for a LAP of the list that is still to be found
  number_of_lap_to_find,
  running, sigint,
  ended                 \* "no", or how main ended

search == <<lap_to_find, number_of_lap_to_find, running>>
searchvars == <<argv, resolved, search, sigint, ended>>
allvars == <<vars, searchvars>>

SearchInit ==
  /\ Init
  /\ argv \in Arguments
  /\ resolved = {Preset}
  /\ lap_to_find = [l \in argv.list |-> 1] /\ number_of_lap_to_find = argv.number
  /\ running = TRUE /\ sigint = FALSE /\ ended = "no"

find_list == argv.list # {}

(***************************************************************************)
(* What DetectPreamble does for a LAP that it has just set to resolved.    *)
(***************************************************************************)
IsTarget(l) ==
  /\ l = argv.lap
  /\ running' = FALSE
  /\ UNCHANGED <<lap_to_find, number_of_lap_to_find, ended>>

\* Mutant: a LAP that is resolved after the last one asked for is not counted.
StrikeOffOnce(l) ==
  /\ find_list /\ l \in DOMAIN lap_to_find /\ lap_to_find[l] = 1
  /\ lap_to_find' = [lap_to_find EXCEPT ![l] = 0]
  /\ number_of_lap_to_find' =
       IF running THEN number_of_lap_to_find - 1 ELSE number_of_lap_to_find
  /\ running' = (running /\ number_of_lap_to_find' # 0)
  /\ UNCHANGED ended
\* Mutant: the search goes on for one LAP more.
StrikeOffLate(l) ==
  /\ find_list /\ l \in DOMAIN lap_to_find /\ lap_to_find[l] = 1
  /\ lap_to_find' = [lap_to_find EXCEPT ![l] = 0]
  /\ number_of_lap_to_find' = number_of_lap_to_find - 1
  /\ running' = (running /\ number_of_lap_to_find # 0)
  /\ UNCHANGED ended
StrikeOff(l) ==
  /\ find_list /\ l \in DOMAIN lap_to_find /\ lap_to_find[l] = 1
  /\ lap_to_find' = [lap_to_find EXCEPT ![l] = 0]
  /\ number_of_lap_to_find' = number_of_lap_to_find - 1
  /\ running' = (running /\ number_of_lap_to_find' # 0)
  /\ UNCHANGED ended

\* "it seems this lap was already found, aborting..."
AlreadyFound(l) ==
  /\ find_list /\ l \in DOMAIN lap_to_find /\ lap_to_find[l] # 1
  /\ ended' = "exit(1)"
  /\ UNCHANGED search

NotAskedFor(l) ==
  /\ l # argv.lap /\ ~(find_list /\ l \in DOMAIN lap_to_find)
  /\ UNCHANGED <<search, ended>>

Announce(l) == IsTarget(l) \/ StrikeOff(l) \/ AlreadyFound(l) \/ NotAskedFor(l)

-----------------------------------------------------------------------------
\* running is tested between blocks only.
Block ==
  /\ ended = "no" /\ running
  /\ ReadBlock
  /\ UNCHANGED searchvars

NextFile ==
  /\ ended = "no"
  /\ SearchHi
  /\ UNCHANGED searchvars

HearTarget ==
  /\ ended = "no"
  /\ DetectPreamble
  /\ IF lapstate # "RESOLVED" /\ lapstate' = "RESOLVED"
     THEN Announce(Target) ELSE UNCHANGED <<search, ended>>
  /\ UNCHANGED <<argv, resolved, sigint>>

\* Mutant: a LAP may be resolved again.
ResolveAgain(l) ==
  /\ ended = "no" /\ half # "none"
  /\ resolved' = resolved \cup {l}
  /\ Announce(l)
  /\ UNCHANGED <<vars, argv, sigint>>
\* A packet of another LAP, in the file being searched, resolves it.
ResolveOther(l) ==
  /\ ended = "no" /\ half # "none" /\ l \notin resolved
  /\ resolved' = resolved \cup {l}
  /\ Announce(l)
  /\ UNCHANGED <<vars, argv, sigint>>

Handler ==
  /\ ended = "no"
  /\ sigint' = TRUE /\ running' = FALSE
  /\ UNCHANGED <<vars, argv, resolved, lap_to_find, number_of_lap_to_find, ended>>

(***************************************************************************)
(* The loop ends: running is 0, or a read that is empty or shorter in one  *)
(* of the files.  The capture file that main closes is opened when the     *)
(* first block is flushed.                                                 *)
(***************************************************************************)
End ==
  /\ ended = "no" /\ half # "LO"
  /\ ended' = IF half = "none" THEN "crashed" ELSE "exit(0)"
  /\ UNCHANGED <<vars, argv, resolved, search, sigint>>

SearchNext ==
  \/ Block \/ NextFile \/ HearTarget \/ Handler \/ End
  \/ \E l \in OtherLaps : ResolveOther(l)

SearchSpec == SearchInit /\ [][SearchNext]_allvars

-----------------------------------------------------------------------------
Found == (resolved \ {Preset}) \cup (IF lapstate = "RESOLVED" THEN {Target} ELSE {})
ListFound == Found \cap DOMAIN lap_to_find

\* Every variable keeps its type.
SearchTypeOK ==
  /\ TypeOK
  /\ argv \in Arguments /\ resolved \subseteq OtherLaps
  /\ lap_to_find \in [argv.list -> {0, 1}]
  /\ number_of_lap_to_find \in Int
  /\ running \in BOOLEAN /\ sigint \in BOOLEAN
  /\ ended \in {"no", "exit(0)", "exit(1)", "crashed"}

(***************************************************************************)
(* "it seems this lap was already found" is never printed, and the count   *)
(* of LAPs to find is what was asked for less the LAPs of the list that    *)
(* are resolved, each once, from whichever file or channel: although two   *)
(* LAPs may be resolved in a block, when one was asked for.  The preset    *)
(* LAP counts for nothing: on the list it is never found.                  *)
(***************************************************************************)
TallyIsExact ==
  /\ ended # "exit(1)"
  /\ \A l \in DOMAIN lap_to_find : lap_to_find[l] = 0 <=> l \in Found
  /\ number_of_lap_to_find = argv.number - Cardinality(ListFound)

(***************************************************************************)
(* The decoder stops reading exactly when what it was asked for has been   *)
(* resolved, or at an interrupt: the target that is named, or as many LAPs *)
(* of the list as were asked for.                                          *)
(***************************************************************************)
Goal == \/ argv.lap \in Found
        \/ find_list /\ Cardinality(ListFound) >= argv.number
StopsWhenFound == running <=> ~Goal /\ ~sigint
=============================================================================
