------------------------------ MODULE MCFiles ------------------------------
(***************************************************************************)
(* What programs under test leave on the disk, how it comes to be complete *)
(* although nothing locks it, and what is read from it: the shared corpus  *)
(* and its features, extended by the processes of a batch                  *)
(* (CorpusEvolution), the guard files of one traced process, of whose      *)
(* threads either all end first, or some are stopped half way or come from *)
(* elsewhere (GuardFiles), and the analysis of a tree (TreeAnalysis).      *)
(* They share no state; a behaviour is one of the four, as focus says.     *)
(* Three features, corpora whose files overlap within one and between two; *)
(* three threads that create each other; two ids used twice by strays;     *)
(* every tree of five nodes, with two functions or all different.          *)
(***************************************************************************)
EXTENDS CorpusEvolution

CONSTANTS f1, f2, f3, m, a, b, c, d, none

MCFeatures == {f1, f2, f3}
MCInitial == {{f1}}
MCCorpora == {<<{f2}>>, <<{f1, f2}, {f2, f3}>>, <<{f3}, {f2, f3}>>}

VARIABLES
  focus,
  live, starts, creating, first, stream, log, proc, reader,
  parent, name, len, pass, queue, list, order, path, entries, climb

guardVars == <<live, starts, creating, first, stream, log, proc, reader>>
treeVars == <<parent, name, len, pass, queue, list, order, path, entries, climb>>

Named == {[i \in 1 .. 5 |-> IF i = 1 THEN none ELSE f[i]] : f \in [2 .. 5 -> {a, b}]}
         \cup {<<none, a, b, c, d>>}

T == INSTANCE GuardFiles
       WITH Tids <- {m, a, b}, Main <- m, NoTid <- none, Tidy <- TRUE, Foreign <- FALSE,
            MaxStarts <- 1, MaxTexts <- 2
S == INSTANCE GuardFiles
       WITH Tids <- {m, a}, Main <- m, NoTid <- none, Tidy <- FALSE, Foreign <- TRUE,
            MaxStarts <- 2, MaxTexts <- 2

A == INSTANCE TreeAnalysis
       WITH NumNodes <- 5, InitName <- none,
            Namings <- Named,
            Lengths <- {<<1, 2, 3, 2, 1>>, <<3, 1, 2, 3, 3>>, <<2, 2, 1, 1, 3>>}, LEN_LIMIT <- 3

ASSUME FilesAssumption == T!ThreadAssumption /\ S!ThreadAssumption /\ A!TreeAssumption

FilesInit ==
  /\ focus \in {"corpus", "threads", "strays", "analysis"}
  /\ Init
  /\ IF focus = "strays" THEN S!Init ELSE T!Init
  /\ A!Init
  /\ focus # "analysis" => parent = <<0, 1, 2, 3, 4>> /\ len[1] = 1 /\ {name[i] : i \in 2 .. 5} = {a}

FilesNext ==
  \/ focus = "corpus" /\ Next /\ UNCHANGED <<focus, guardVars, treeVars>>
  \/ focus = "threads" /\ T!Next /\ UNCHANGED <<focus, vars, treeVars>>
  \/ focus = "strays" /\ S!Next /\ UNCHANGED <<focus, vars, treeVars>>
  \/ focus = "analysis" /\ A!Next /\ UNCHANGED <<focus, vars, guardVars>>

\* The fairness of the readers of guard files.
FilesSpec ==
  /\ FilesInit /\ [][FilesNext]_<<focus, vars, guardVars, treeVars>>
  /\ WF_guardVars(focus = "threads" /\ T!Read)
  /\ WF_guardVars(focus = "strays" /\ S!Read)

-----------------------------------------------------------------------------
\* What threads have written is in the file of their id, as GuardFiles says.
WrittenIsOnDisk ==
  /\ focus = "threads" => T!WrittenIsOnDisk
  /\ focus = "strays" => S!WrittenIsOnDisk

\* One file is marked as that of the main thread, rightly so if all threads come
\* from instrumented code, and every tree that was read hangs below that one, as
\* GuardFiles says.
TreesAreLinked ==
  /\ focus = "threads" => T!OneMainFile /\ T!MainFileIsMains /\ T!TreesAreLinked
  /\ focus = "strays" => S!OneMainFile

\* What is reported of a tree is what the tree says, as TreeAnalysis says.
AnalysisIsRight == focus = "analysis" => A!AnalysisIsRight

\* The files of a run are read to the end or one of their lines is refused, however
\* many threads in turn wrote each of them and wherever these stopped within a line.
\* The one place where the reader may hang is the end of a file that ends with the
\* location of a call and no record behind it.
ReadingEnds ==
  focus \in {"threads", "strays"} /\ proc = "normal" ~>
    IF focus = "threads" THEN T!ReadingIsOver ELSE S!ReadingIsOver
=============================================================================
