------------------------------ MODULE GuardFiles ------------------------------
(***************************************************************************)
(* The guard files of one traced process: the streams that                 *)
(* func_stack_pass/src/runtime/func_stack.cc keeps per thread id, the ways *)
(* the process can end, and the reading of the files of a run that ended   *)
(* with code zero by ExecForest::from_guard_dir (exec_tree/mod.rs) and     *)
(* ThreadExecTree (exec_tree/thread_tree.rs).                              *)
(*                                                                         *)
(* A file is the sequence of the texts written to it.  All of them end a   *)
(* line but "invoc", the location of a call, which stands in front of the  *)
(* next record of the thread.  Which text a record has is left out, and    *)
(* with it which lines the reader refuses: any may be refused.             *)
(***************************************************************************)
EXTENDS Integers, SequencesExt

CONSTANTS
  Tids,        (* the ids of threads; an id is free again when its thread ends *)
  Main,        (* the id of the main thread                                    *)
  NoTid,       (* no thread                                                    *)
  Tidy,        (* main outlives the other threads                              *)
  Foreign,     (* may uninstrumented code start threads?                       *)
  MaxStarts,   (* bound: threads started under one id                          *)
  MaxTexts     (* bound: texts the threads of one id write                     *)

ThreadAssumption ==
  /\ Main \in Tids /\ NoTid \notin Tids
  /\ Tidy \in BOOLEAN /\ Foreign \in BOOLEAN

VARIABLES
  live,      (* the ids of the running threads                              *)
  starts,    (* how many threads an id had                                  *)
  creating,  (* the thread a thread has created and not yet recorded        *)
  first,     (* create_of's static flag                                     *)
  stream,    (* of_map: [state, main, text on disk, buf in memory]          *)
  log,       (* what was written until the process began to end             *)
  proc,      (* running, exiting, interrupted; normal, stopped, failed;     *)
             (* read: the forest is built or being built; refused: it failed *)
  reader     (* [unread ids, file, rest of it, content to be parsed, links] *)

tracing == <<live, starts, creating, first, stream, log>>
vars == <<tracing, proc, reader>>

Rec(kind, of) == [kind |-> kind, of |-> of]
Texts == [kind : {"invoc", "enter", "record"}, of : {NoTid}]
           \cup [kind : {"thread"}, of : Tids]

NoStream == [state |-> "none", main |-> FALSE, text |-> <<>>, buf |-> <<>>]
NotReading == [unread |-> {}, file |-> NoTid, rest |-> <<>>,
               busy |-> FALSE, content |-> <<>>, links |-> {}]

Init ==
  /\ live = {Main}
  /\ starts = [t \in Tids |-> IF t = Main THEN 1 ELSE 0]
  /\ creating = [t \in Tids |-> NoTid]
  /\ first = TRUE
  /\ stream = [t \in Tids |-> NoStream]
  /\ log = [t \in Tids |-> <<>>]
  /\ proc = "running"
  /\ reader = NotReading

-----------------------------------------------------------------------------
(* get_of, create_of and print_content_to_file.                             *)

Alive == proc \in {"running", "exiting", "interrupted"}
Ending == proc \in {"exiting", "interrupted"}

\* Mutant: the flag is never cleared.
CreateOfAlwaysFirst(t, rec) ==
  /\ stream' = [stream EXCEPT ![t] = [state |-> IF Ending THEN "late" ELSE "open",
                                      main |-> first, text |-> <<>>, buf |-> <<rec>>]]
  /\ UNCHANGED first

\* A stream inserted while the map is being closed is not closed any more.
CreateOf(t, rec) ==
  /\ stream' = [stream EXCEPT ![t] = [state |-> IF Ending THEN "late" ELSE "open",
                                      main |-> first, text |-> <<>>, buf |-> <<rec>>]]
  /\ first' = FALSE

\* The map is searched and extended under its mutex, the stream is written
\* outside it; no other thread has the same id.  A closed stream drops the text.
PrintContent(t, rec) ==
  IF stream[t].state = "none" THEN CreateOf(t, rec)
  ELSE IF stream[t].state = "closed" THEN UNCHANGED <<stream, first>>
  ELSE /\ stream' = [stream EXCEPT ![t].buf = Append(@, rec)]
       /\ UNCHANGED first

Write(t, rec) ==
  /\ Alive /\ t \in live
  /\ Len(stream[t].text) + Len(stream[t].buf) < MaxTexts
  /\ PrintContent(t, rec)
  /\ log' = IF proc = "running" THEN [log EXCEPT ![t] = Append(@, rec)] ELSE log
  /\ UNCHANGED <<proc, reader>>

\* A thread records what it does, or the location of a call it is about to do:
\* of an instrumented function, which records its entry, or of another one.
Trace(t) ==
  /\ creating[t] = NoTid
  /\ t = Main => proc # "exiting"
  /\ \E kind \in {"invoc", "enter", "record"} : Write(t, Rec(kind, NoTid))
  /\ UNCHANGED <<live, starts, creating>>

Started(u) ==
  /\ u \notin live /\ starts[u] < MaxStarts
  /\ live' = live \cup {u}
  /\ starts' = [starts EXCEPT ![u] = @ + 1]

\* pthread_create in instrumented code: the call's location is the last text.
\* The new thread runs before thread_rec has written of it.
CreateThread(t, u) ==
  /\ proc = "running" /\ t \in live /\ creating[t] = NoTid
  /\ log[t] # <<>> /\ Last(log[t]).kind = "invoc"
  /\ Started(u)
  /\ creating' = [creating EXCEPT ![t] = u]
  /\ UNCHANGED <<first, stream, log, proc, reader>>

ForeignThread(u) ==
  /\ Foreign /\ proc = "running"
  /\ Started(u)
  /\ UNCHANGED <<creating, first, stream, log, proc, reader>>

\* thread_rec, after the call: it writes whatever the guards say.
ThreadRec(t) ==
  /\ creating[t] # NoTid
  /\ Write(t, Rec("thread", creating[t]))
  /\ creating' = [creating EXCEPT ![t] = NoTid]
  /\ UNCHANGED <<live, starts>>

\* A start routine returns, or ends inside a call of pthread_exit, which leaves a
\* line open.
EndThread(t) ==
  /\ Alive /\ t \in live \ {Main} /\ creating[t] = NoTid
  /\ live' = live \ {t}
  /\ UNCHANGED <<starts, creating, first, stream, log, proc, reader>>

-----------------------------------------------------------------------------
(* The ways the process ends.                                               *)

\* A full buffer goes to the file.
Flush(t) ==
  /\ Alive /\ stream[t].buf # <<>>
  /\ stream' = [stream EXCEPT ![t].text = @ \o stream[t].buf, ![t].buf = <<>>]
  /\ UNCHANGED <<live, starts, creating, first, log, proc, reader>>

\* main returns, or calls exit, before which stands the location of the call;
\* whatever the other threads are doing.
Exit ==
  /\ proc = "running" /\ creating[Main] = NoTid
  /\ Tidy => live = {Main}
  /\ proc' = "exiting"
  /\ UNCHANGED <<tracing, reader>>

\* sig_handler, on whichever thread the signal is delivered to.
Interrupt ==
  /\ proc = "running"
  /\ proc' = "interrupted"
  /\ UNCHANGED <<tracing, reader>>

\* Mutant: closing drops what is buffered.
CloseStreamDropping(t) ==
  /\ Ending /\ stream[t].state = "open"
  /\ stream' = [stream EXCEPT ![t].state = "closed", ![t].buf = <<>>]
  /\ UNCHANGED <<live, starts, creating, first, log, proc, reader>>

\* The destructor of of_map, or the handler, closes stream after stream,
\* without the mutex.
CloseStream(t) ==
  /\ Ending /\ stream[t].state = "open"
  /\ stream' = [stream EXCEPT ![t].state = "closed",
                              ![t].text = @ \o stream[t].buf, ![t].buf = <<>>]
  /\ UNCHANGED <<live, starts, creating, first, log, proc, reader>>

AllClosed == \A t \in Tids : stream[t].state # "open"

Done ==
  /\ Ending /\ AllClosed
  /\ proc' = IF proc = "exiting" THEN "normal" ELSE "stopped"
  /\ UNCHANGED <<tracing, reader>>

\* A crash, or SIGKILL at a timeout: the buffers are lost.  A thread that writes
\* to a destroyed stream, or extends the map while it is closed, may crash too.
Crash ==
  /\ Alive
  /\ proc' = "failed"
  /\ UNCHANGED <<tracing, reader>>

-----------------------------------------------------------------------------
(* from_guard_dir, from_guard_file and parse_guard.                         *)

Files == {t \in Tids : stream[t].state # "none"}

\* Only a run that ended with code zero gets a coverage file, by which it is
\* found again (exec_rec/mod.rs).
StartReading ==
  /\ proc = "normal" /\ proc' = "read"
  /\ reader' = [NotReading EXCEPT !.unread = Files]
  /\ UNCHANGED tracing

OpenFile(t) ==
  /\ proc = "read" /\ ~reader.busy /\ reader.rest = <<>> /\ t \in reader.unread
  /\ reader' = [reader EXCEPT !.unread = @ \ {t}, !.file = t, !.rest = stream[t].text]
  /\ UNCHANGED <<tracing, proc>>

\* Where the first line of a text ends.
EndsLine(s, n) ==
  /\ \A i \in 1..(n - 1) : s[i].kind = "invoc"
  /\ n = Len(s) \/ s[n].kind # "invoc"

ReadLine ==
  /\ proc = "read" /\ ~reader.busy
  /\ \E n \in DOMAIN reader.rest :
       /\ EndsLine(reader.rest, n)
       /\ reader' = [reader EXCEPT !.busy = TRUE,
                                   !.content = SubSeq(reader.rest, 1, n),
                                   !.rest = SubSeq(@, n + 1, Len(@))]
  /\ UNCHANGED <<tracing, proc>>

\* parse_guard_impl: a call may have its location in front, no other record.
Parses(s) ==
  \/ Len(s) = 1 /\ s[1].kind # "invoc"
  \/ Len(s) = 2 /\ s[1].kind = "invoc" /\ s[2].kind = "enter"

\* A parsed line is added to the tree; a thread creation also to the mapping.
ParseGuard ==
  /\ proc = "read" /\ reader.busy /\ Parses(reader.content)
  /\ reader' = [reader EXCEPT !.busy = FALSE, !.content = <<>>,
                  !.links = @ \cup {r.of : r \in {x \in ToSet(reader.content) : x.kind = "thread"}}]
  /\ UNCHANGED <<tracing, proc>>

\* A line that parses may be refused nevertheless: a return at the root, because
\* the call was unwound or not recorded, a malformed record, a loop line glued to
\* the next.  The error leaves read_line, the file and the directory.
RefuseLine ==
  /\ proc = "read" /\ reader.busy /\ Parses(reader.content)
  /\ proc' = "refused"
  /\ UNCHANGED <<tracing, reader>>

\* Mutant: the length that was parsed is not reported.
SkipGuardNothing ==
  /\ proc = "read" /\ reader.busy /\ ~Parses(reader.content)
  /\ UNCHANGED vars

\* SkipError: the location that was parsed is skipped; with none of it left
\* the length to skip is zero, again and again.
SkipGuard ==
  /\ proc = "read" /\ reader.busy /\ ~Parses(reader.content)
  /\ reader' = [reader EXCEPT !.content = IF @ = <<>> THEN <<>> ELSE Tail(@)]
  /\ UNCHANGED <<tracing, proc>>

Read ==
  \/ StartReading
  \/ \E t \in Tids : OpenFile(t)
  \/ ReadLine
  \/ ParseGuard
  \/ RefuseLine
  \/ SkipGuard

Next ==
  \/ \E t \in Tids : Trace(t)
  \/ \E t, u \in Tids : CreateThread(t, u)
  \/ \E u \in Tids : ForeignThread(u)
  \/ \E t \in Tids : ThreadRec(t)
  \/ \E t \in Tids : EndThread(t)
  \/ \E t \in Tids : Flush(t)
  \/ Exit
  \/ Interrupt
  \/ \E t \in Tids : CloseStream(t)
  \/ Done
  \/ Crash
  \/ Read

Spec == Init /\ [][Next]_vars

\* The reader is a loop that runs once it has been started.
FairSpec == Spec /\ WF_vars(Read)

-----------------------------------------------------------------------------
(* Properties.                                                              *)

\* However the threads race for their first record, exactly one file of the run
\* carries the suffix by which from_guard_dir (mod.rs:54) finds the main tree.
OneMainFile ==
  Files # {} => \E t \in Files : \A u \in Files : stream[u].main <=> u = t

\* What any thread wrote until main returned, or until the interrupt, is in the
\* file of its id in its order, also when several threads in turn had that id
\* and when threads went on writing while the streams were closed.
WrittenIsOnDisk ==
  proc \in {"normal", "stopped", "read", "refused"} =>
    \A t \in Tids : IsPrefix(log[t], stream[t].text)

\* The suffix is that of the main thread: threads come from instrumented code,
\* which has written the location of pthread_create before.
MainFileIsMains == ~Foreign => \A t \in Files : stream[t].main <=> t = Main

AllRead == proc = "read" /\ reader.unread = {} /\ reader.rest = <<>> /\ ~reader.busy

\* Once all files are read, every tree but the main one is linked to the action
\* of another tree that created its thread, whatever the order of the files.
TreesAreLinked ==
  Tidy /\ ~Foreign /\ AllRead => Files \ {Main} \subseteq reader.links

\* The reader skips nothing, again and again: its file ends behind the location of a
\* call, which a run leaves there in which instrumented code calls exit(0).
Stuck ==
  /\ reader.busy /\ reader.content = <<>> /\ reader.rest = <<>>
  /\ Last(stream[reader.file].text).kind = "invoc"

\* The files of a run that ended with code zero are read to the end, or one of their
\* lines is refused, or the reader is stuck, which it is at the end of a file only.
ReadingIsOver == AllRead \/ proc = "refused" \/ Stuck
=============================================================================
