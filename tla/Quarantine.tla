----------------------------- MODULE Quarantine -----------------------------
(***************************************************************************)
(* The quarantine modules of Linux and of Windows: quarantine_callback is  *)
(* called with the report of a scan, moves the file to the quarantine      *)
(* directory and describes it in an info file beside it.  Several threads  *)
(* report, programs write and remove files, and the daemon may stop        *)
(* between any two system calls; the directory stays.                      *)
(*                                                                         *)
(* A file is [id, status]: which one it is, and what a scan says of it.    *)
(***************************************************************************)
EXTENDS Naturals, Sequences, FiniteSets

CONSTANTS
    Threads,     \* threads, each with one scan to report
    Paths,       \* paths of files outside the quarantine
    Base,        \* Base[p]: file name of path p
    Statuses,    \* what scans answer
    MaxFiles,    \* bound on the files that are ever written
    MaxNames,    \* bound on the names mkstemp gives
    MaxTime,     \* bound on the clock
    MaxStops,    \* bound on the times the daemon stops
    NULL

VARIABLES
    os, enable, dir,   \* the system, and the configuration: enabled, directory given
    exists,            \* the directories that exist: "quarantine"
    file,              \* file[p]: file at path p, or NULL
    written,           \* number of files written so far
    q,                 \* the quarantine directory: entries with file, info file and mode
    clock,             \* seconds
    thread,            \* threads with their report
    stops,             \* number of times the daemon stopped
    taken,             \* history: the files that were moved, in order
    spoiled,           \* history: names for which a step failed or the daemon stopped
    left,              \* history: scanned files that stayed at their path and count as gone
    broken             \* history: names whose file a copy had begun to replace when it failed or stopped

cVars == <<os, enable, dir>>
fVars == <<file, written>>
hVars == <<stops, taken, spoiled, left, broken>>
vars == <<cVars, exists, fVars, q, clock, thread, hVars>>

\* The names entries have: mkstemp's are numbered, those of Windows are a file name and a time.
Names == Nat \cup ({Base[p] : p \in Paths} \X Nat)

ASSUME NamesAssumption == NULL \notin Names

Idle == [pc |-> "idle", path |-> NULL, saw |-> NULL, name |-> NULL, ret |-> 0,
         action |-> FALSE, took |-> NULL]

\* quarantine_init and the configuration functions; callbacks come afterwards.
Init ==
    /\ os \in {"linux", "windows"} /\ enable \in BOOLEAN /\ dir \in BOOLEAN
    /\ exists \in SUBSET {"quarantine"}
    /\ file = [p \in Paths |-> NULL] /\ written = 0
    /\ q = {} /\ clock = 0
    /\ thread = [t \in Threads |-> Idle]
    /\ stops = 0 /\ taken = <<>> /\ spoiled = {} /\ left = {} /\ broken = {}

-----------------------------------------------------------------------------
(* Programs, the clock, scans, and the end of the daemon.                  *)

Write(p) ==
    /\ written < MaxFiles
    /\ written' = written + 1
    /\ \E s \in Statuses : file' = [file EXCEPT ![p] = [id |-> written + 1, status |-> s]]
    /\ UNCHANGED <<cVars, exists, q, clock, thread, hVars>>

Remove(p) ==
    /\ file[p] # NULL
    /\ file' = [file EXCEPT ![p] = NULL]
    /\ UNCHANGED <<cVars, exists, written, q, clock, thread, hVars>>

Tick ==
    /\ os = "windows" /\ clock < MaxTime
    /\ clock' = clock + 1
    /\ UNCHANGED <<cVars, exists, fVars, q, thread, hVars>>

Scan(t, p) ==
    /\ thread[t].pc = "idle" /\ file[p] # NULL
    /\ thread' = [thread EXCEPT ![t] = [Idle EXCEPT !.pc = "callback", !.path = p, !.saw = file[p]]]
    /\ UNCHANGED <<cVars, exists, fVars, q, clock, hVars>>

Busy == {thread[t].name : t \in Threads} \ {NULL}

\* The names that are open for a copy.
Copied == {thread[t].name : t \in {t \in Threads : thread[t].pc = "copying"}}

\* Every thread is gone, and the daemon starts again.
Stopped ==
    /\ thread' = [t \in Threads |-> Idle]
    /\ spoiled' = spoiled \cup Busy
    /\ broken' = broken \cup Copied
    /\ UNCHANGED <<cVars, exists, fVars, q, clock, taken, left>>

Stop ==
    /\ stops < MaxStops /\ stops' = stops + 1
    /\ Stopped

-----------------------------------------------------------------------------
Goes(t, next) == thread' = [thread EXCEPT ![t].pc = next]
Ends(t, ret) == thread' = [thread EXCEPT ![t].pc = "return", ![t].ret = ret]

NotMalware == {"UNDECIDED", "CLEAN", "UNKNOWN_TYPE", "EINVAL", "IERROR", "SUSPICIOUS", "WHITE_LISTED"}

ASSUME StatusesAssumption == Statuses \subseteq NotMalware \cup {"MALWARE"}

quarantine_callback(t) ==
    /\ thread[t].pc = "callback"
    /\ IF ~enable \/ thread[t].saw.status \in NotMalware THEN Goes(t, "done") ELSE Goes(t, "start")
    /\ UNCHANGED <<cVars, exists, fVars, q, clock, hVars>>

\* Linux sets the flag unless the file stayed for lack of a name or of a rename, Windows only
\* when everything worked.
action_flag(t) ==
    /\ thread[t].pc = "return"
    /\ thread' = [thread EXCEPT ![t].pc = "done", ![t].name = NULL,
                                ![t].action = IF os = "linux" THEN thread[t].ret # 1 ELSE thread[t].ret = 0]
    /\ UNCHANGED <<cVars, exists, fVars, q, clock, hVars>>

Entry(name) == CHOOSE e \in q : e.name = name
Has(name) == \E e \in q : e.name = name
New(name) == [name |-> name, file |-> NULL, from |-> NULL, info |-> NULL, mode |-> "open"]
Put(e) == q' = {x \in q : x.name # e.name} \cup {e}
Target(n) == IF Has(n) THEN Entry(n) ELSE New(n)

\* What is at the path of the report stays there.
Stays(t) == left' = left \cup ({file[thread[t].path]} \cap {thread[t].saw})

\* The file at the path of the report goes to the entry of that name, over what is there.
Move(t, next) ==
    LET p == thread[t].path
        n == thread[t].name
    IN  /\ file[p] # NULL
        /\ file' = [file EXCEPT ![p] = NULL]
        /\ Put([Target(n) EXCEPT !.file = file[p], !.from = p, !.mode = "open"])
        /\ thread' = [thread EXCEPT ![t].pc = next, ![t].took = file[p]]
        /\ taken' = Append(taken, [name |-> n, file |-> file[p], saw |-> thread[t].saw])

-----------------------------------------------------------------------------
(* quarantine_do for Linux.  ret 1 and 2 stand for -1 and -2.              *)

\* Mutant: a name that is free is only chosen, as by tempnam.
MutNameOnly(t) ==
    /\ os = "linux" /\ thread[t].pc = "start" /\ dir
    /\ \/ /\ "quarantine" \in exists /\ Cardinality(q) < MaxNames
          /\ thread' = [thread EXCEPT ![t].pc = "stat", ![t].name = Cardinality(q) + 1]
          /\ UNCHANGED q
       \/ Ends(t, 1) /\ UNCHANGED q
    /\ UNCHANGED <<cVars, exists, fVars, clock, hVars>>

\* mkstemp makes an empty file of a new name, or fails.
mkstemp(t) ==
    /\ os = "linux" /\ thread[t].pc = "start" /\ dir
    /\ \/ /\ "quarantine" \in exists /\ Cardinality(q) < MaxNames
          /\ thread' = [thread EXCEPT ![t].pc = "stat", ![t].name = Cardinality(q) + 1]
          /\ Put(New(Cardinality(q) + 1))
       \/ Ends(t, 1) /\ UNCHANGED q
    /\ UNCHANGED <<cVars, exists, fVars, clock, hVars>>

\* strlen of a directory that was not configured.
strlen_null(t) ==
    /\ os = "linux" /\ thread[t].pc = "start" /\ ~dir
    /\ Stopped /\ UNCHANGED stops

\* stat may fail for a file that is there (no search permission, an I/O error).
stat(t) ==
    /\ os = "linux" /\ thread[t].pc = "stat"
    /\ \/ Ends(t, 2) /\ Stays(t)
       \/ file[thread[t].path] # NULL /\ Goes(t, "move") /\ UNCHANGED left
    /\ UNCHANGED <<cVars, exists, fVars, q, clock, stops, taken, spoiled, broken>>

\* Mutant: the result of a rename that fails is that of stat.
MutRenameFails2(t) ==
    /\ os = "linux" /\ thread[t].pc = "move"
    /\ \/ Move(t, "chmod")
       \/ Ends(t, 2) /\ UNCHANGED <<file, q, taken>>
    /\ UNCHANGED <<cVars, exists, written, clock, stops, spoiled, left, broken>>

\* rename fails when the file is gone, or is on another file system.
rename(t) ==
    /\ os = "linux" /\ thread[t].pc = "move"
    /\ \/ Move(t, "chmod")
       \/ Ends(t, 1) /\ UNCHANGED <<file, q, taken>>
    /\ UNCHANGED <<cVars, exists, written, clock, stops, spoiled, left, broken>>

\* Mutant: a failure ends the function.
MutChmodEnds(t) ==
    /\ os = "linux" /\ thread[t].pc = "chmod"
    /\ \/ Goes(t, "info") /\ Put([Entry(thread[t].name) EXCEPT !.mode = "0"])
       \/ Ends(t, 2) /\ UNCHANGED q
    /\ UNCHANGED <<cVars, exists, fVars, clock, hVars>>

\* chmod; a failure does not end the function.
chmod(t) ==
    /\ os = "linux" /\ thread[t].pc = "chmod"
    /\ \/ /\ Goes(t, "info")
          /\ Put([Entry(thread[t].name) EXCEPT !.mode = "0"])
       \/ /\ thread' = [thread EXCEPT ![t].pc = "info", ![t].ret = 2]
          /\ UNCHANGED q
    /\ UNCHANGED <<cVars, exists, fVars, clock, hVars>>

\* fopen may fail, and so may the writes, which nobody looks at.
info_file(t) ==
    /\ os = "linux" /\ thread[t].pc = "info"
    /\ \/ /\ Goes(t, "return")
          /\ Put([Entry(thread[t].name) EXCEPT !.info = thread[t].path])
          /\ UNCHANGED spoiled
       \/ /\ \/ Ends(t, 2) /\ UNCHANGED q
             \/ Goes(t, "return") /\ Put([Entry(thread[t].name) EXCEPT !.info = "empty"])
          /\ spoiled' = spoiled \cup {thread[t].name}
    /\ UNCHANGED <<cVars, exists, fVars, clock, stops, taken, left, broken>>

-----------------------------------------------------------------------------
(* quarantine_do for Windows.  ret 2 to 5 stand for -2 to -5.              *)

\* BuildLocationFilePath: file name and time, in seconds.
Stamped(t) == <<Base[thread[t].path], clock>>

BuildLocationFilePath(t) ==
    /\ os = "windows" /\ thread[t].pc = "start"
    /\ \/ dir /\ thread' = [thread EXCEPT ![t].pc = "directory", ![t].name = Stamped(t)]
       \/ Ends(t, 2)
    /\ UNCHANGED <<cVars, exists, fVars, q, clock, hVars>>

CreateAvDirectory(t) ==
    /\ os = "windows" /\ thread[t].pc = "directory"
    /\ \/ exists' = exists \cup {"quarantine"} /\ Goes(t, "move")
       \/ "quarantine" \notin exists /\ Ends(t, 3) /\ UNCHANGED exists
    /\ UNCHANGED <<cVars, fVars, q, clock, hVars>>

\* The copy of the file at the path begins: what the entry held is gone.
BeginCopy(t) ==
    /\ file[thread[t].path] # NULL
    /\ Put([Target(thread[t].name) EXCEPT !.file = NULL, !.from = NULL, !.mode = "open"])
    /\ thread' = [thread EXCEPT ![t].pc = "copying", ![t].took = file[thread[t].path]]

\* MoveFileEx replaces a file of the same name, unless that one is open.  To another volume it
\* copies the file and deletes it afterwards (MOVEFILE_COPY_ALLOWED).
MoveFileEx(t) ==
    /\ os = "windows" /\ thread[t].pc = "move"
    /\ \/ thread[t].name \notin Copied /\ Move(t, "create")
       \/ thread[t].name \notin Copied /\ BeginCopy(t) /\ UNCHANGED <<file, taken>>
       \/ Ends(t, 4) /\ UNCHANGED <<file, q, taken>>
    /\ UNCHANGED <<cVars, exists, written, clock, stops, spoiled, left, broken>>

\* The end of the copy; a copy that fails leaves an entry without a file.
CopyEnds(t) ==
    LET n == thread[t].name
    IN  /\ os = "windows" /\ thread[t].pc = "copying"
        /\ \/ /\ Put([Entry(n) EXCEPT !.file = thread[t].took, !.from = thread[t].path])
              /\ Goes(t, "delete")
              /\ taken' = Append(taken, [name |-> n, file |-> thread[t].took, saw |-> thread[t].saw])
              /\ UNCHANGED broken
           \/ /\ thread' = [thread EXCEPT ![t].pc = "return", ![t].ret = 4, ![t].took = NULL]
              /\ broken' = broken \cup {n}
              /\ UNCHANGED <<q, taken>>
        /\ UNCHANGED <<cVars, exists, fVars, clock, stops, spoiled, left>>

\* The file at the path is deleted, whichever it is by now, or stays: MoveFileEx succeeds.
DeleteSource(t) ==
    /\ os = "windows" /\ thread[t].pc = "delete"
    /\ \/ file' = [file EXCEPT ![thread[t].path] = NULL] /\ UNCHANGED left
       \/ Stays(t) /\ UNCHANGED file
    /\ Goes(t, "create")
    /\ UNCHANGED <<cVars, exists, written, q, clock, stops, taken, spoiled, broken>>

\* Another thread has the info file open, and shares it with nobody.
Locked(t) == \E u \in Threads \ {t} : thread[u].pc = "write" /\ thread[u].name = thread[t].name

InfoFails(t) ==
    /\ Ends(t, 5)
    /\ spoiled' = spoiled \cup {thread[t].name}

\* WriteQuarantineInfoFile up to CreateFile, which empties an info file that exists.
CreateFile(t) ==
    /\ os = "windows" /\ thread[t].pc = "create"
    /\ \/ /\ ~Locked(t)
          /\ Goes(t, "write")
          /\ Put([Entry(thread[t].name) EXCEPT !.info = "empty"])
          /\ UNCHANGED spoiled
       \/ InfoFails(t) /\ UNCHANGED q
    /\ UNCHANGED <<cVars, exists, fVars, clock, stops, taken, left, broken>>

WriteFile(t) ==
    /\ os = "windows" /\ thread[t].pc = "write"
    /\ \/ /\ Goes(t, "copy")
          /\ Put([Entry(thread[t].name) EXCEPT !.info = thread[t].path])
          /\ UNCHANGED spoiled
       \/ InfoFails(t) /\ UNCHANGED q
    /\ UNCHANGED <<cVars, exists, fVars, clock, stops, taken, left, broken>>

\* CopyFile: the copy of the info file for the Alerts directory.  Its result is not used, and
\* nothing in the quarantine depends on the copy.
CopyFile(t) ==
    /\ os = "windows" /\ thread[t].pc = "copy"
    /\ Goes(t, "return")
    /\ UNCHANGED <<cVars, exists, fVars, q, clock, hVars>>

-----------------------------------------------------------------------------
Linux(t) == mkstemp(t) \/ strlen_null(t) \/ stat(t) \/ rename(t) \/ chmod(t) \/ info_file(t)

Windows(t) ==
    \/ BuildLocationFilePath(t) \/ CreateAvDirectory(t)
    \/ MoveFileEx(t) \/ CopyEnds(t) \/ DeleteSource(t)
    \/ CreateFile(t) \/ WriteFile(t) \/ CopyFile(t)

Next ==
    \/ \E p \in Paths : Write(p) \/ Remove(p)
    \/ Tick \/ Stop
    \/ \E t \in Threads :
          \/ \E p \in Paths : Scan(t, p)
          \/ quarantine_callback(t) \/ Linux(t) \/ Windows(t) \/ action_flag(t)

Spec == Init /\ [][Next]_vars

-----------------------------------------------------------------------------
(* Properties.                                                             *)

\* The variables keep their types, and each name has one entry.
TypeOK ==
    /\ \A e, x \in q : e.name = x.name => e = x
    /\ \A e \in q : e.mode \in {"open", "0"} /\ e.info \in Paths \cup {NULL, "empty"} /\ e.from \in Paths \cup {NULL}
    /\ \A t \in Threads :
          /\ thread[t].pc \in {"idle", "callback", "start", "stat", "directory", "move", "copying", "delete",
                               "chmod", "info", "create", "write", "copy", "return", "done"}
          /\ thread[t].ret \in 0..5
          /\ thread[t].pc \in {"copying", "delete", "chmod", "info", "create", "write", "copy"} => Has(thread[t].name)

\* More than one file was moved under the name: two files of the same name in one second.
Collision(name) == os = "windows" /\ Cardinality({i \in DOMAIN taken : taken[i].name = name}) > 1

\* A file that was moved stays in the quarantine, whatever else is moved there, fails, or ends
\* the daemon (rename over a name of mkstemp's own, MoveFileEx); but for a collision, and
\* then the last one stays, unless it is being copied from another volume or its copy failed.
Kept ==
    \A i \in DOMAIN taken :
        \/ \E e \in q : e.name = taken[i].name /\ e.file = taken[i].file
        \/ os = "windows" /\ taken[i].name \in Copied \cup broken
        \/ Collision(taken[i].name) /\ \E j \in i + 1..Len(taken) : taken[j].name = taken[i].name

\* A file in the quarantine is described by the path it was taken from, once its thread is
\* done, if neither the info file failed nor the daemon stopped; a collision may leave the
\* path of the other file.
WellDescribed ==
    \A e \in q :
        \/ e.file = NULL \/ e.info = e.from
        \/ e.name \in Busy \cup spoiled \/ Collision(e.name)

\* A file that is no malware is moved only if it took the path of one between the scan and
\* the move (the callback has the path of the report, and no descriptor).
OnlyMalware ==
    \A i \in DOMAIN taken : taken[i].file.status = "MALWARE" \/ taken[i].file.id > taken[i].saw.id

\* When the report says that the file was put in quarantine, the file that was scanned is not
\* at its path any more, but for two cases: a stat that failed although the file was there
\* (-2 sets the flag as success does), and a copy of MoveFileEx whose source could not be
\* deleted.  When it does not say so, nothing is in the quarantine for it, but for
\* the info file of Windows, whose failure hides the move.
ActionTells ==
    \A t \in Threads : thread[t].pc = "done" =>
        IF thread[t].action THEN file[thread[t].path] # thread[t].saw \/ thread[t].saw \in left
        ELSE thread[t].took = NULL \/ (os = "windows" /\ thread[t].ret = 5)

\* The quarantine holds what was moved to it and only what belongs there, but for the
\* collisions of Windows names and the files that change between scan and move.
QuarantineHolds == TypeOK /\ Kept /\ OnlyMalware
==============================================================================
