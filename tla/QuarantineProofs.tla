--------------------------- MODULE QuarantineProofs ---------------------------
(***************************************************************************)
(* Proofs about the quarantine, for any number of threads, paths, files,   *)
(* names, seconds and stops of the daemon, on both systems.                *)
(***************************************************************************)
EXTENDS Quarantine, FiniteSetTheorems, SequenceTheorems, TLAPS

Files == [id : Nat, status : Statuses]
EntryStates == [name : Names, file : Files \cup {NULL}, from : Paths \cup {NULL},
                info : Paths \cup {NULL, "empty"}, mode : {"open", "0"}]
Steps == {"idle", "callback", "start", "stat", "directory", "move", "copying", "delete", "chmod", "info",
          "create", "write", "copy", "return", "done"}
ThreadStates == [pc : Steps, path : Paths \cup {NULL}, saw : Files \cup {NULL}, name : Names \cup {NULL},
                 ret : 0..5, action : BOOLEAN, took : Files \cup {NULL}]
Moves == [name : Names, file : Files, saw : Files]

TypeInv ==
    /\ os \in {"linux", "windows"} /\ enable \in BOOLEAN /\ dir \in BOOLEAN
    /\ file \in [Paths -> Files \cup {NULL}] /\ written \in Nat /\ clock \in Nat
    /\ q \subseteq EntryStates /\ IsFiniteSet(q) /\ \A e, x \in q : e.name = x.name => e = x
    /\ thread \in [Threads -> ThreadStates]
    /\ taken \in Seq(Moves)

\* Every file is one of those that were written.
FileInv == \A p \in Paths : file[p] # NULL => file[p].id <= written

\* What a thread knows of the file it scanned: a file that is now at that path is this one or
\* was written later.
SawInv(t) ==
    thread[t].pc # "idle" =>
        LET p == thread[t].path
            s == thread[t].saw
        IN  /\ p \in Paths /\ s \in Files /\ s # NULL /\ s.id <= written
            /\ file[p] # NULL => file[p] = s \/ file[p].id > s.id
            /\ thread[t].pc \notin {"callback", "done"} => s.status = "MALWARE"

Naming == {"stat", "directory", "move", "copying", "delete", "chmod", "info", "create", "write", "copy"}
Describing == {"delete", "chmod", "info", "create", "write"}
Moved == Describing \cup {"copy"}

\* Where a thread may be, on which system.
PlaceInv(t) ==
    /\ thread[t].pc \in {"stat", "chmod", "info"} => os = "linux"
    /\ thread[t].pc \in {"directory", "copying", "delete", "create", "write", "copy"} => os = "windows"
    /\ thread[t].pc \in Naming => thread[t].name \in Names

\* A thread that has moved its file: the entry is there and, as long as the thread describes it,
\* comes from the path of the report, or another file was moved there as well, or a copy has
\* emptied it.
MovedInv(t) ==
    thread[t].pc \in Moved =>
        LET n == thread[t].name
        IN  /\ Has(n) /\ \E i \in DOMAIN taken : taken[i].name = n
            /\ thread[t].pc \in Describing =>
                  Collision(n) \/ \A e \in q : e.name = n => e.from = thread[t].path \/ e.file = NULL

\* A thread that copies has an entry, and a file that is at its path since the scan or later.
CopyingInv(t) ==
    thread[t].pc = "copying" =>
        /\ Has(thread[t].name) /\ thread[t].took \in Files
        /\ thread[t].took = thread[t].saw \/ thread[t].took.id > thread[t].saw.id

\* The scanned file is no longer at its path, or is known to have stayed.
Gone(t) == file[thread[t].path] # thread[t].saw \/ thread[t].saw \in left

\* The result and what happened to the file.
ResultInv(t) ==
    LET r == thread[t].ret
    IN  /\ thread[t].pc \in {"callback", "start", "stat", "directory", "move"} =>
              r = 0 /\ ~thread[t].action /\ thread[t].took = NULL
        /\ thread[t].pc = "copying" => r = 0 /\ ~thread[t].action
        /\ thread[t].pc \in Moved =>
              (thread[t].pc # "delete" => Gone(t)) /\ r \in (IF os = "linux" THEN {0, 2} ELSE {0})
        /\ thread[t].pc = "return" =>
              IF os = "linux" THEN (r # 1 => Gone(t)) /\ (r = 1 => thread[t].took = NULL)
              ELSE (r = 0 => Gone(t)) /\ (r \notin {0, 5} => thread[t].took = NULL)
        /\ thread[t].pc = "done" =>
              IF thread[t].action THEN Gone(t)
              ELSE thread[t].took = NULL \/ (os = "windows" /\ r = 5)

\* The names of mkstemp: they are numbered in order, no two threads have the same, and nothing
\* was moved under a name before its thread moves its file.
Numbered == {"stat", "move", "chmod", "info"}
NumberInv ==
    os = "linux" =>
        /\ \A n : Has(n) <=> n \in 1..Cardinality(q)
        /\ \A t \in Threads : thread[t].pc \in Numbered => Has(thread[t].name)
        /\ \A t, u \in Threads :
              thread[t].pc \in Numbered /\ thread[u].pc \in Numbered /\ t # u
                 => thread[t].name # thread[u].name
        /\ \A t \in Threads : thread[t].pc \in {"stat", "move"} =>
              \A i \in DOMAIN taken : taken[i].name # thread[t].name

\* A file whose description is missing or wrong is one that a thread is about to describe, or
\* one for which this failed, or one of a collision.
DescribedInv ==
    \A e \in q : e.file # NULL /\ e.info # e.from =>
        \/ e.name \in spoiled \/ Collision(e.name)
        \/ \E t \in Threads : thread[t].pc \in Describing /\ thread[t].name = e.name

ThreadInv(t) == SawInv(t) /\ PlaceInv(t) /\ MovedInv(t) /\ CopyingInv(t) /\ ResultInv(t)

IInv ==
    /\ TypeInv /\ FileInv /\ \A t \in Threads : ThreadInv(t)
    /\ NumberInv /\ Kept /\ OnlyMalware /\ DescribedInv

-------------------------------------------------------------------------------
(* The moves and the entries.                                              *)

LEMMA TakenProps ==
    ASSUME TypeInv
    PROVE  /\ Len(taken) \in Nat /\ DOMAIN taken = 1..Len(taken)
           /\ \A i \in 1..Len(taken) : taken[i] \in Moves
BY LenProperties DEF TypeInv

LEMMA AppendTaken ==
    ASSUME TypeInv, NEW m \in Moves, taken' = Append(taken, m)
    PROVE  /\ taken' \in Seq(Moves) /\ Len(taken') = Len(taken) + 1
           /\ DOMAIN taken' = 1..Len(taken) + 1 /\ taken'[Len(taken) + 1] = m
           /\ \A i \in 1..Len(taken) : taken'[i] = taken[i]
<1>1. taken \in Seq(Moves)
  BY DEF TypeInv
<1>2. /\ taken' \in Seq(Moves) /\ Len(taken') = Len(taken) + 1 /\ taken'[Len(taken) + 1] = m
      /\ \A i \in 1..Len(taken) : taken'[i] = taken[i]
  BY <1>1, AppendProperties
<1>3. DOMAIN taken' = 1..Len(taken')
  BY <1>2, LenProperties
<1> QED  BY <1>2, <1>3

\* Two moves under a name are a collision, and a collision remains one.
LEMMA SecondMove ==
    ASSUME TypeInv, NEW m \in Moves, taken' = Append(taken, m), os' = os, os = "windows",
           NEW n, m.name = n, NEW i \in 1..Len(taken), taken[i].name = n
    PROVE  Collision(n)'
<1> DEFINE S == {k \in DOMAIN taken' : taken'[k].name = n}
           j == Len(taken) + 1
<1>1. Len(taken) \in Nat
  BY TakenProps
<1>2. i \in S /\ j \in S /\ i # j /\ S \subseteq 1..j
  BY <1>1, AppendTaken
<1> HIDE DEF S, j
<1>3. IsFiniteSet(1..j)
  BY <1>1, FS_Interval DEF j
<1> DEFINE T == {i} \cup {j}
<1>4. IsFiniteSet({i}) /\ Cardinality({i}) = 1 /\ j \notin {i}
  BY <1>2, FS_Singleton
<1>5. Cardinality(T) = 2
  <2>1. Cardinality({i} \cup {j}) = Cardinality({i}) + 1
    BY <1>4, FS_AddElement
  <2> QED  BY <2>1, <1>4
<1>6. T \subseteq S
  BY <1>2
<1> HIDE DEF T
<1>7. IsFiniteSet(S)
  BY <1>2, <1>3, FS_Subset
<1>8. Cardinality(S) > 1
  <2>1. Cardinality(T) <= Cardinality(S) /\ Cardinality(S) \in Nat
    BY <1>6, <1>7, FS_Subset, FS_CardinalityType
  <2> QED  BY <2>1, <1>5
<1> QED  BY <1>8 DEF Collision, S

LEMMA CollisionRemains ==
    ASSUME TypeInv, NEW m \in Moves, taken' = Append(taken, m), os' = os, NEW n, Collision(n)
    PROVE  Collision(n)'
<1> DEFINE S == {k \in DOMAIN taken : taken[k].name = n}
           T == {k \in DOMAIN taken' : taken'[k].name = n}
<1>1. Len(taken) \in Nat
  BY TakenProps
<1>2. S \subseteq T /\ T \subseteq 1..Len(taken) + 1
  BY <1>1, TakenProps, AppendTaken
<1>3. Cardinality(S) > 1
  BY DEF Collision
<1> HIDE DEF S, T
<1>4. IsFiniteSet(1..Len(taken) + 1)
  BY <1>1, FS_Interval
<1>5. IsFiniteSet(T) /\ IsFiniteSet(S)
  BY <1>2, <1>4, FS_Subset
<1>6. Cardinality(S) <= Cardinality(T) /\ Cardinality(S) \in Nat /\ Cardinality(T) \in Nat
  BY <1>2, <1>5, FS_Subset, FS_CardinalityType
<1>7. Cardinality(T) > 1
  BY <1>3, <1>6
<1> QED  BY <1>7 DEF Collision, T

LEMMA SameCollision ==
    ASSUME UNCHANGED <<os, taken>>
    PROVE  \A n : Collision(n)' <=> Collision(n)
BY DEF Collision

LEMMA EntryProps ==
    ASSUME TypeInv, NEW n, Has(n)
    PROVE  /\ Entry(n) \in q /\ Entry(n).name = n /\ Entry(n) \in EntryStates
           /\ \A e \in q : e.name = n => e = Entry(n)
BY DEF TypeInv, Has, Entry

LEMMA TargetProps ==
    ASSUME TypeInv, NEW n \in Names
    PROVE  Target(n) \in EntryStates /\ Target(n).name = n
BY EntryProps DEF Target, New, EntryStates

\* Put replaces the entry of that name, or adds one.
LEMMA PutProps ==
    ASSUME TypeInv, NEW e \in EntryStates, Put(e)
    PROVE  /\ q' \subseteq EntryStates /\ IsFiniteSet(q') /\ \A x, y \in q' : x.name = y.name => x = y
           /\ e \in q' /\ \A x \in q' : x = e \/ (x \in q /\ x.name # e.name)
           /\ \A x \in q : x.name # e.name => x \in q'
           /\ \A n : Has(n)' <=> Has(n) \/ n = e.name
           /\ Cardinality(q) \in Nat
           /\ Cardinality(q') = IF Has(e.name) THEN Cardinality(q) ELSE Cardinality(q) + 1
<1> DEFINE r == {x \in q : x.name # e.name}
<1>1. q' = r \cup {e} /\ e \notin r /\ r \subseteq q
  BY DEF Put
<1>2. IsFiniteSet(q) /\ IsFiniteSet(r) /\ Cardinality(q) \in Nat
  BY <1>1, FS_Subset, FS_CardinalityType DEF TypeInv
<1>3. /\ q' \subseteq EntryStates /\ \A x, y \in q' : x.name = y.name => x = y
      /\ e \in q' /\ \A x \in q' : x = e \/ (x \in q /\ x.name # e.name)
      /\ \A x \in q : x.name # e.name => x \in q'
  BY <1>1 DEF TypeInv
<1>4. \A n : Has(n)' <=> Has(n) \/ n = e.name
  BY <1>3 DEF Has
<1>5. CASE Has(e.name)
  <2>1. Entry(e.name) \in q /\ r = q \ {Entry(e.name)}
    BY <1>5, EntryProps
  <2> HIDE DEF r
  <2>2. Cardinality(r) = Cardinality(q) - 1
    BY <2>1, <1>2, FS_RemoveElement
  <2>3. IsFiniteSet(q') /\ Cardinality(q') = Cardinality(r) + 1
    BY <1>1, <1>2, FS_AddElement
  <2> QED  BY <2>2, <2>3, <1>2, <1>3, <1>4, <1>5
<1>6. CASE ~Has(e.name)
  <2>1. r = q
    BY <1>6 DEF Has
  <2> HIDE DEF r
  <2>2. IsFiniteSet(q') /\ Cardinality(q') = Cardinality(q) + 1
    BY <2>1, <1>1, <1>2, FS_AddElement
  <2> QED  BY <2>2, <1>2, <1>3, <1>4, <1>6
<1> QED  BY <1>5, <1>6

\* The quarantine has the same files from the same paths, whatever their modes and info files.
Same(e, x) == e.name = x.name /\ e.file = x.file /\ e.from = x.from
SameEntries ==
    /\ q' \subseteq EntryStates /\ IsFiniteSet(q') /\ \A e, x \in q' : e.name = x.name => e = x
    /\ Cardinality(q') = Cardinality(q)
    /\ \A e \in q' : \E x \in q : Same(e, x)
    /\ \A x \in q : \E e \in q' : Same(e, x)

LEMMA UnchangedEntries ==
    ASSUME TypeInv, q' = q
    PROVE  SameEntries
BY DEF TypeInv, SameEntries, Same

LEMMA ChangedEntry ==
    ASSUME TypeInv, NEW n, Has(n), NEW e \in EntryStates, Same(e, Entry(n)), Put(e)
    PROVE  SameEntries
<1>1. Entry(n) \in q /\ Entry(n).name = n /\ e.name = n /\ \A x \in q : x.name = n => x = Entry(n)
  BY EntryProps DEF Same
<1>2. /\ q' \subseteq EntryStates /\ IsFiniteSet(q') /\ \A x, y \in q' : x.name = y.name => x = y
      /\ Cardinality(q') = Cardinality(q)
  BY <1>1, PutProps
<1>3. e \in q' /\ (\A x \in q' : x = e \/ x \in q) /\ \A x \in q : x.name # n => x \in q'
  BY <1>1, PutProps
<1>4. \A x : Same(x, x)
  BY DEF Same
<1>5. \A x \in q' : \E y \in q : Same(x, y)
  BY <1>1, <1>3, <1>4
<1>6. \A y \in q : \E x \in q' : Same(x, y)
  BY <1>1, <1>3, <1>4
<1> QED  BY <1>2, <1>5, <1>6 DEF SameEntries

LEMMA SameHas ==
    ASSUME SameEntries
    PROVE  /\ \A n : Has(n)' <=> Has(n)
           /\ \A n, p : (\A e \in q : e.name = n => e.from = p \/ e.file = NULL) => \A e \in q' : e.name = n => e.from = p \/ e.file = NULL
BY DEF SameEntries, Same, Has

-------------------------------------------------------------------------------
(* Steps of one thread that move nothing.                                  *)

\* What such a step keeps: everything but what it says of its own thread, and of descriptions.
LEMMA OwnStepFiles ==
    ASSUME IInv, NEW t \in Threads,
           UNCHANGED <<os, enable, dir, written, clock, taken>>,
           file' \in [Paths -> Files \cup {NULL}], \A p \in Paths : file'[p] = file[p] \/ file'[p] = NULL,
           left \subseteq left', broken \subseteq broken',
           thread[t].pc = "copying" => thread[t].name \in broken',
           SameEntries,
           thread' \in [Threads -> ThreadStates], \A u \in Threads : u # t => thread'[u] = thread[u],
           thread'[t].pc \in Numbered /\ os = "linux" =>
              /\ thread[t].pc \in Numbered /\ thread'[t].name = thread[t].name
              /\ thread'[t].pc \in {"stat", "move"} => thread[t].pc \in {"stat", "move"},
           ThreadInv(t)', DescribedInv'
    PROVE  IInv'
<1>1. TypeInv'
  BY DEF IInv, TypeInv, SameEntries
<1>2. FileInv'
  BY DEF IInv, FileInv
<1>3. \A n : Collision(n)' <=> Collision(n)
  BY SameCollision
<1>4. /\ \A n : Has(n)' <=> Has(n)
      /\ \A n, p : (\A e \in q : e.name = n => e.from = p \/ e.file = NULL) => \A e \in q' : e.name = n => e.from = p \/ e.file = NULL
  BY SameHas
<1>5. ASSUME NEW u \in Threads PROVE ThreadInv(u)'
  <2>1. CASE u = t
    BY <2>1
  <2>2. CASE u # t
    <3>1. thread'[u] = thread[u] /\ ThreadInv(u)
      BY <2>2 DEF IInv
    <3>2. SawInv(u)'
      BY <3>1 DEF ThreadInv, SawInv
    <3>3. PlaceInv(u)'
      BY <3>1 DEF ThreadInv, PlaceInv
    <3>4. MovedInv(u)'
      <4> SUFFICES ASSUME thread[u].pc \in Moved PROVE MovedInv(u)'
        BY <3>1 DEF MovedInv
      <4> DEFINE n == thread[u].name
      <4>1. Has(n)' /\ \E i \in DOMAIN taken' : taken'[i].name = n
        BY <3>1, <1>4 DEF ThreadInv, MovedInv
      <4>2. thread[u].pc \in Describing =>
               Collision(n)' \/ \A e \in q' : e.name = n => e.from = thread[u].path \/ e.file = NULL
        <5> SUFFICES ASSUME thread[u].pc \in Describing
                     PROVE  Collision(n)' \/ \A e \in q' : e.name = n => e.from = thread[u].path \/ e.file = NULL
          OBVIOUS
        <5>1. Collision(n) \/ \A e \in q : e.name = n => e.from = thread[u].path \/ e.file = NULL
          BY <3>1 DEF ThreadInv, MovedInv
        <5>2. Collision(n) => Collision(n)'
          BY <3>1, <1>3
        <5>3. (\A e \in q : e.name = n => e.from = thread[u].path \/ e.file = NULL)
                 => \A e \in q' : e.name = n => e.from = thread[u].path \/ e.file = NULL
          BY <1>4
        <5> QED  BY <5>1, <5>2, <5>3
      <4> QED  BY <3>1, <4>1, <4>2 DEF MovedInv
    <3>5. CopyingInv(u)'
      BY <3>1, <1>4 DEF ThreadInv, CopyingInv
    <3>6. thread[u].pc # "idle" /\ Gone(u) => Gone(u)'
      BY <3>1 DEF ThreadInv, SawInv, Gone
    <3>7. ResultInv(u)'
      BY <3>1, <3>6 DEF ThreadInv, ResultInv, Moved, Describing
    <3> QED  BY <3>2, <3>3, <3>4, <3>5, <3>7 DEF ThreadInv
  <2> QED  BY <2>1, <2>2
<1>6. NumberInv'
  <2> SUFFICES ASSUME os = "linux" PROVE NumberInv'
    BY DEF NumberInv
  <2>1. \A n : Has(n)' <=> n \in 1..Cardinality(q')
    BY <1>4 DEF IInv, NumberInv, SameEntries
  <2>2. \A u \in Threads : thread'[u].pc \in Numbered =>
           /\ thread[u].pc \in Numbered /\ thread'[u].name = thread[u].name
           /\ thread'[u].pc \in {"stat", "move"} => thread[u].pc \in {"stat", "move"}
    OBVIOUS
  <2>3. \A u \in Threads : thread'[u].pc \in Numbered => Has(thread[u].name)'
    BY <2>2, <1>4 DEF IInv, NumberInv
  <2>4. \A u, v \in Threads :
           thread'[u].pc \in Numbered /\ thread'[v].pc \in Numbered /\ u # v
              => thread'[u].name # thread'[v].name
    BY <2>2 DEF IInv, NumberInv
  <2>5. \A u \in Threads : thread'[u].pc \in {"stat", "move"} =>
           \A i \in DOMAIN taken' : taken'[i].name # thread'[u].name
    BY <2>2 DEF IInv, NumberInv, Numbered
  <2> QED  BY <2>1, <2>3, <2>4, <2>5 DEF NumberInv
<1>7. Kept'
  <2> SUFFICES ASSUME NEW i \in DOMAIN taken
               PROVE  \/ \E e \in q' : e.name = taken[i].name /\ e.file = taken[i].file
                      \/ os = "windows" /\ taken[i].name \in Copied' \cup broken'
                      \/ /\ Collision(taken[i].name)'
                         /\ \E j \in i + 1..Len(taken) : taken[j].name = taken[i].name
    BY DEF Kept
  <2>1. Copied \cup broken \subseteq Copied' \cup broken'
    BY DEF Copied
  <2> QED  BY <1>3, <2>1 DEF IInv, Kept, SameEntries, Same
<1>8. OnlyMalware'
  BY DEF IInv, OnlyMalware
<1> QED  BY <1>1, <1>2, <1>5, <1>6, <1>7, <1>8 DEF IInv

LEMMA OwnStep ==
    ASSUME IInv, NEW t \in Threads,
           UNCHANGED <<os, enable, dir, file, written, clock, taken>>,
           left \subseteq left', broken \subseteq broken',
           thread[t].pc = "copying" => thread[t].name \in broken',
           SameEntries,
           thread' \in [Threads -> ThreadStates], \A u \in Threads : u # t => thread'[u] = thread[u],
           thread'[t].pc \in Numbered /\ os = "linux" =>
              /\ thread[t].pc \in Numbered /\ thread'[t].name = thread[t].name
              /\ thread'[t].pc \in {"stat", "move"} => thread[t].pc \in {"stat", "move"},
           ThreadInv(t)', DescribedInv'
    PROVE  IInv'
<1>1. file' \in [Paths -> Files \cup {NULL}] /\ \A p \in Paths : file'[p] = file[p]
  BY DEF IInv, TypeInv
<1> QED  BY <1>1, OwnStepFiles

\* The descriptions after a step that changes no entry: if the thread was about to describe
\* one, it still is, or the name is spoiled.
LEMMA NothingDescribed ==
    ASSUME IInv, NEW t \in Threads, UNCHANGED <<os, taken, q>>, spoiled \subseteq spoiled',
           \A u \in Threads : u # t => thread'[u] = thread[u],
           thread[t].pc \in Describing =>
              \/ thread'[t].pc \in Describing /\ thread'[t].name = thread[t].name
              \/ thread[t].name \in spoiled'
    PROVE  DescribedInv'
<1> SUFFICES ASSUME NEW e \in q, e.file # NULL, e.info # e.from
             PROVE  \/ e.name \in spoiled' \/ Collision(e.name)'
                    \/ \E u \in Threads : thread'[u].pc \in Describing /\ thread'[u].name = e.name
  BY DEF DescribedInv
<1>1. \/ e.name \in spoiled \/ Collision(e.name)
      \/ \E u \in Threads : thread[u].pc \in Describing /\ thread[u].name = e.name
  BY DEF IInv, DescribedInv
<1>2. Collision(e.name)' <=> Collision(e.name)
  BY SameCollision
<1>3. CASE \E u \in Threads : thread[u].pc \in Describing /\ thread[u].name = e.name
  BY <1>3
<1> QED  BY <1>1, <1>2, <1>3

LEMMA ThreadMoves ==
    ASSUME IInv, NEW t \in Threads, NEW s \in ThreadStates, thread' = [thread EXCEPT ![t] = s]
    PROVE  /\ thread' \in [Threads -> ThreadStates] /\ \A u \in Threads : u # t => thread'[u] = thread[u]
           /\ thread'[t] = s
BY DEF IInv, TypeInv

\* What Goes and Ends do.
LEMMA GoesProps ==
    ASSUME IInv, NEW t \in Threads,
           NEW c \in Steps, Goes(t, c)
    PROVE  /\ thread' \in [Threads -> ThreadStates] /\ \A u \in Threads : u # t => thread'[u] = thread[u]
           /\ thread'[t].pc = c
           /\ thread'[t].path = thread[t].path /\ thread'[t].saw = thread[t].saw
           /\ thread'[t].name = thread[t].name /\ thread'[t].ret = thread[t].ret
           /\ thread'[t].action = thread[t].action /\ thread'[t].took = thread[t].took
<1> DEFINE s == [thread[t] EXCEPT !.pc = c]
<1>1. thread[t] \in ThreadStates /\ thread' = [thread EXCEPT ![t] = s]
  BY DEF IInv, TypeInv, Goes
<1>2. /\ s \in ThreadStates /\ s.pc = c /\ s.path = thread[t].path /\ s.saw = thread[t].saw
      /\ s.name = thread[t].name /\ s.ret = thread[t].ret /\ s.action = thread[t].action
      /\ s.took = thread[t].took
  BY <1>1 DEF ThreadStates, Steps
<1> HIDE DEF s
<1> QED  BY <1>1, <1>2, ThreadMoves

LEMMA EndsProps ==
    ASSUME IInv, NEW t \in Threads, NEW r \in 0..5, Ends(t, r)
    PROVE  /\ thread' \in [Threads -> ThreadStates] /\ \A u \in Threads : u # t => thread'[u] = thread[u]
           /\ thread'[t].pc = "return" /\ thread'[t].ret = r
           /\ thread'[t].path = thread[t].path /\ thread'[t].saw = thread[t].saw
           /\ thread'[t].name = thread[t].name
           /\ thread'[t].action = thread[t].action /\ thread'[t].took = thread[t].took
<1> DEFINE s == [thread[t] EXCEPT !.pc = "return", !.ret = r]
<1>1. thread[t] \in ThreadStates /\ thread' = [thread EXCEPT ![t] = s]
  BY DEF IInv, TypeInv, Ends
<1>2. /\ s \in ThreadStates /\ s.pc = "return" /\ s.ret = r /\ s.path = thread[t].path
      /\ s.saw = thread[t].saw /\ s.name = thread[t].name /\ s.action = thread[t].action
      /\ s.took = thread[t].took
  BY <1>1 DEF ThreadStates, Steps
<1> HIDE DEF s
<1> QED  BY <1>1, <1>2, ThreadMoves

\* The function ends with a result other than 0.
LEMMA EndStep ==
    ASSUME IInv, NEW t \in Threads, NEW r \in 1..5, Ends(t, r),
           UNCHANGED <<os, enable, dir, file, written, clock, taken, q, broken>>, spoiled \subseteq spoiled',
           left \subseteq left', thread[t].pc \notin {"idle", "callback", "copying", "done"},
           os = "linux" => (r # 1 => Gone(t) \/ thread[t].saw \in left') /\ (r = 1 => thread[t].took = NULL),
           os # "linux" => (r # 5 => thread[t].took = NULL),
           thread[t].pc \in Describing => thread[t].name \in spoiled'
    PROVE  IInv'
<1>1. /\ thread' \in [Threads -> ThreadStates] /\ \A u \in Threads : u # t => thread'[u] = thread[u]
      /\ thread'[t].pc = "return" /\ thread'[t].ret = r
      /\ thread'[t].path = thread[t].path /\ thread'[t].saw = thread[t].saw
      /\ thread'[t].name = thread[t].name
      /\ thread'[t].action = thread[t].action /\ thread'[t].took = thread[t].took
  BY EndsProps
<1>2. SameEntries
  BY UnchangedEntries DEF IInv
<1>3. DescribedInv'
  BY <1>1, NothingDescribed
<1>4. ThreadInv(t)'
  <2>1. SawInv(t)'
    BY <1>1 DEF IInv, ThreadInv, SawInv
  <2>2. PlaceInv(t)' /\ MovedInv(t)' /\ CopyingInv(t)'
    BY <1>1 DEF PlaceInv, MovedInv, CopyingInv, Naming, Moved, Describing
  <2>3. ResultInv(t)'
    BY <1>1 DEF ResultInv, Moved, Describing, Gone
  <2> QED  BY <2>1, <2>2, <2>3 DEF ThreadInv
<1>5. thread'[t].pc \notin Numbered
  BY <1>1 DEF Numbered
<1> QED  BY <1>1, <1>2, <1>3, <1>4, <1>5, OwnStep

LEMMA ScanKeeps ==
    ASSUME IInv, NEW t \in Threads, NEW p \in Paths, Scan(t, p)
    PROVE  IInv'
<1> USE DEF Scan, cVars, fVars, hVars
<1> DEFINE s == [Idle EXCEPT !.pc = "callback", !.path = p, !.saw = file[p]]
<1>1. file[p] \in Files /\ file[p] # NULL /\ file[p].id <= written
  BY DEF IInv, TypeInv, FileInv
<1>2. /\ s \in ThreadStates /\ s.pc = "callback" /\ s.path = p /\ s.saw = file[p] /\ s.ret = 0
      /\ ~s.action /\ s.took = NULL
  <2>1. Idle \in ThreadStates /\ Idle.ret = 0 /\ Idle.action = FALSE /\ Idle.took = NULL
    BY DEF ThreadStates, Steps, Idle
  <2>2. /\ s \in ThreadStates /\ s.pc = "callback" /\ s.path = p /\ s.saw = file[p]
        /\ s.ret = Idle.ret /\ s.action = Idle.action /\ s.took = Idle.took
    <3> HIDE DEF Scan
    <3> DEFINE s1 == [Idle EXCEPT !.pc = "callback"]
    <3> DEFINE s2 == [s1 EXCEPT !.path = p]
    <3>1. /\ s1 \in ThreadStates /\ s1.pc = "callback"
          /\ s1.ret = Idle.ret /\ s1.action = Idle.action /\ s1.took = Idle.took
      BY <2>1 DEF ThreadStates, Steps
    <3> HIDE DEF s1
    <3>2. /\ s2 \in ThreadStates /\ s2.pc = "callback" /\ s2.path = p
          /\ s2.ret = Idle.ret /\ s2.action = Idle.action /\ s2.took = Idle.took
      BY <3>1 DEF ThreadStates, Steps
    <3> DEFINE s3 == [s2 EXCEPT !.saw = file[p]]
    <3> HIDE DEF s2
    <3>3. /\ s3 \in ThreadStates /\ s3.pc = "callback" /\ s3.path = p /\ s3.saw = file[p]
          /\ s3.ret = Idle.ret /\ s3.action = Idle.action /\ s3.took = Idle.took
      BY <3>2, <1>1 DEF ThreadStates, Steps
    <3>4. s = s3
      BY DEF s1, s2
    <3> QED  BY <3>3, <3>4
  <2> QED  BY <2>1, <2>2
<1>3. thread' = [thread EXCEPT ![t] = s]
  OBVIOUS
<1> HIDE DEF s
<1>4. /\ thread' \in [Threads -> ThreadStates] /\ \A u \in Threads : u # t => thread'[u] = thread[u]
      /\ thread'[t] = s
  BY <1>2, <1>3, ThreadMoves
<1>5. SameEntries
  BY UnchangedEntries DEF IInv
<1>6. DescribedInv'
  BY <1>4, NothingDescribed DEF Describing
<1>7. ThreadInv(t)'
  <2>1. SawInv(t)'
    BY <1>1, <1>2, <1>4 DEF SawInv
  <2>2. PlaceInv(t)' /\ MovedInv(t)' /\ CopyingInv(t)' /\ ResultInv(t)'
    BY <1>2, <1>4 DEF PlaceInv, MovedInv, CopyingInv, ResultInv, Naming, Moved, Describing
  <2> QED  BY <2>1, <2>2 DEF ThreadInv
<1>8. thread'[t].pc \notin Numbered
  BY <1>2, <1>4 DEF Numbered
<1> QED  BY <1>4, <1>5, <1>6, <1>7, <1>8, OwnStep

LEMMA CallbackKeeps ==
    ASSUME IInv, NEW t \in Threads, quarantine_callback(t)
    PROVE  IInv'
<1> USE DEF quarantine_callback, cVars, fVars, hVars
<1>1. PICK c \in {"done", "start"} :
         Goes(t, c) /\ (c = "start" => thread[t].saw.status \notin NotMalware)
  OBVIOUS
<1>2. /\ thread' \in [Threads -> ThreadStates] /\ \A u \in Threads : u # t => thread'[u] = thread[u]
      /\ thread'[t].pc = c
      /\ thread'[t].path = thread[t].path /\ thread'[t].saw = thread[t].saw
      /\ thread'[t].name = thread[t].name /\ thread'[t].ret = thread[t].ret
      /\ thread'[t].action = thread[t].action /\ thread'[t].took = thread[t].took
  BY <1>1, GoesProps DEF Steps
<1>3. SameEntries
  BY UnchangedEntries DEF IInv
<1>4. DescribedInv'
  BY <1>2, NothingDescribed DEF Describing
<1>5. ThreadInv(t)'
  <2>1. SawInv(t)'
    <3>1. SawInv(t) /\ thread[t].saw \in Files
      BY DEF IInv, ThreadInv, SawInv
    <3>2. c = "start" => thread[t].saw.status = "MALWARE"
      BY <1>1, <3>1, StatusesAssumption DEF Files
    <3> QED  BY <3>1, <3>2, <1>2 DEF SawInv
  <2>2. PlaceInv(t)' /\ MovedInv(t)' /\ CopyingInv(t)'
    BY <1>2 DEF PlaceInv, MovedInv, CopyingInv, Naming, Moved, Describing
  <2>3. ResultInv(t)'
    BY <1>2 DEF IInv, ThreadInv, ResultInv, Moved, Describing
  <2> QED  BY <2>1, <2>2, <2>3 DEF ThreadInv
<1>6. thread'[t].pc \notin Numbered
  BY <1>2 DEF Numbered
<1> QED  BY <1>2, <1>3, <1>4, <1>5, <1>6, OwnStep

LEMMA ActionFlagKeeps ==
    ASSUME IInv, NEW t \in Threads, action_flag(t)
    PROVE  IInv'
<1> USE DEF action_flag, cVars, fVars, hVars
<1> DEFINE a == IF os = "linux" THEN thread[t].ret # 1 ELSE thread[t].ret = 0
           s == [thread[t] EXCEPT !.pc = "done", !.name = NULL, !.action = a]
<1>1. thread[t] \in ThreadStates /\ a \in BOOLEAN /\ thread' = [thread EXCEPT ![t] = s]
  BY DEF IInv, TypeInv
<1>2. /\ s \in ThreadStates /\ s.pc = "done" /\ s.path = thread[t].path /\ s.saw = thread[t].saw
      /\ s.ret = thread[t].ret /\ s.took = thread[t].took /\ s.action = a
  <2> HIDE DEF a
  <2> QED  BY <1>1 DEF ThreadStates, Steps
<1> HIDE DEF s
<1>3. /\ thread' \in [Threads -> ThreadStates] /\ \A u \in Threads : u # t => thread'[u] = thread[u]
      /\ thread'[t] = s
  BY <1>1, <1>2, ThreadMoves
<1>4. SameEntries
  BY UnchangedEntries DEF IInv
<1>5. DescribedInv'
  BY <1>3, NothingDescribed DEF Describing
<1>6. ThreadInv(t)'
  <2>1. SawInv(t)'
    BY <1>2, <1>3 DEF IInv, ThreadInv, SawInv
  <2>2. PlaceInv(t)' /\ MovedInv(t)' /\ CopyingInv(t)'
    BY <1>2, <1>3 DEF PlaceInv, MovedInv, CopyingInv, Naming, Moved, Describing
  <2>3. Gone(t)' <=> Gone(t)
    BY <1>2, <1>3 DEF Gone
  <2>4. os \in {"linux", "windows"} /\ ResultInv(t)
    BY DEF IInv, TypeInv, ThreadInv
  <2>5. ResultInv(t)'
    BY <1>2, <1>3, <2>3, <2>4 DEF ResultInv, Moved, Describing
  <2> QED  BY <2>1, <2>2, <2>5 DEF ThreadInv
<1>7. thread'[t].pc \notin Numbered
  BY <1>2, <1>3 DEF Numbered
<1> QED  BY <1>3, <1>4, <1>5, <1>6, <1>7, OwnStep

LEMMA StatKeeps ==
    ASSUME IInv, NEW t \in Threads, stat(t)
    PROVE  IInv'
<1> USE DEF stat, cVars, fVars, hVars
<1>1. thread[t].pc = "stat" /\ os = "linux" /\ ThreadInv(t)
  BY DEF IInv
<1>2. CASE Ends(t, 2) /\ Stays(t)
  <2>1. (Gone(t) \/ thread[t].saw \in left') /\ left \subseteq left'
    BY <1>2 DEF Gone, Stays
  <2> QED  BY <1>1, <1>2, <2>1, EndStep DEF Describing
<1>3. CASE Goes(t, "move") /\ UNCHANGED left
  <2>1. /\ thread' \in [Threads -> ThreadStates] /\ \A u \in Threads : u # t => thread'[u] = thread[u]
        /\ thread'[t].pc = "move"
        /\ thread'[t].path = thread[t].path /\ thread'[t].saw = thread[t].saw
        /\ thread'[t].name = thread[t].name /\ thread'[t].ret = thread[t].ret
        /\ thread'[t].action = thread[t].action /\ thread'[t].took = thread[t].took
    BY <1>3, GoesProps DEF Steps
  <2>2. SameEntries
    BY UnchangedEntries DEF IInv
  <2>3. DescribedInv'
    BY <1>1, <2>1, NothingDescribed DEF Describing
  <2>4. ThreadInv(t)'
    <3>1. SawInv(t)'
      BY <1>1, <2>1 DEF ThreadInv, SawInv
    <3>2. PlaceInv(t)' /\ MovedInv(t)' /\ CopyingInv(t)' /\ ResultInv(t)'
      BY <1>1, <2>1 DEF ThreadInv, PlaceInv, MovedInv, CopyingInv, ResultInv, Naming, Moved, Describing
    <3> QED  BY <3>1, <3>2 DEF ThreadInv
  <2> QED  BY <1>1, <1>3, <2>1, <2>2, <2>3, <2>4, OwnStep DEF Numbered
<1> QED  BY <1>2, <1>3

LEMMA BuildKeeps ==
    ASSUME IInv, NEW t \in Threads, BuildLocationFilePath(t)
    PROVE  IInv'
<1> USE DEF BuildLocationFilePath, cVars, fVars, hVars
<1>1. thread[t].pc = "start" /\ os = "windows" /\ ThreadInv(t)
  BY DEF IInv
<1>2. CASE Ends(t, 2)
  BY <1>1, <1>2, EndStep DEF Describing, ThreadInv, ResultInv
<1>3. CASE thread' = [thread EXCEPT ![t].pc = "directory", ![t].name = Stamped(t)]
  <2> DEFINE n == Stamped(t)
             s == [thread[t] EXCEPT !.pc = "directory", !.name = n]
  <2>1. thread[t] \in ThreadStates /\ n \in Names /\ thread' = [thread EXCEPT ![t] = s]
    <3>1. n \in Names
      BY <1>1 DEF IInv, TypeInv, ThreadInv, SawInv, Stamped, Names
    <3> QED  BY <1>3, <3>1 DEF IInv, TypeInv
  <2> HIDE DEF n
  <2>2. /\ s \in ThreadStates /\ s.pc = "directory" /\ s.path = thread[t].path /\ s.saw = thread[t].saw
        /\ s.ret = thread[t].ret /\ s.took = thread[t].took /\ s.action = thread[t].action
        /\ s.name = n
    BY <2>1 DEF ThreadStates, Steps
  <2> HIDE DEF s
  <2>3. /\ thread' \in [Threads -> ThreadStates] /\ \A u \in Threads : u # t => thread'[u] = thread[u]
        /\ thread'[t] = s
    BY <2>1, <2>2, ThreadMoves
  <2>4. SameEntries
    BY UnchangedEntries DEF IInv
  <2>5. DescribedInv'
    BY <1>1, <2>3, NothingDescribed DEF Describing
  <2>6. ThreadInv(t)'
    <3>1. SawInv(t)'
      BY <1>1, <2>2, <2>3 DEF ThreadInv, SawInv
    <3>2. PlaceInv(t)' /\ MovedInv(t)' /\ CopyingInv(t)' /\ ResultInv(t)'
      BY <1>1, <2>1, <2>2, <2>3 DEF ThreadInv, PlaceInv, MovedInv, CopyingInv, ResultInv, Moved, Describing
    <3> QED  BY <3>1, <3>2 DEF ThreadInv
  <2> QED  BY <1>1, <2>3, <2>4, <2>5, <2>6, OwnStep
<1> QED  BY <1>2, <1>3

LEMMA CreateAvDirectoryKeeps ==
    ASSUME IInv, NEW t \in Threads, CreateAvDirectory(t)
    PROVE  IInv'
<1> USE DEF CreateAvDirectory, cVars, fVars, hVars
<1>1. thread[t].pc = "directory" /\ os = "windows" /\ ThreadInv(t)
  BY DEF IInv
<1>2. CASE Ends(t, 3)
  BY <1>1, <1>2, EndStep DEF Describing, ThreadInv, ResultInv
<1>3. CASE Goes(t, "move")
  <2>1. /\ thread' \in [Threads -> ThreadStates] /\ \A u \in Threads : u # t => thread'[u] = thread[u]
        /\ thread'[t].pc = "move"
        /\ thread'[t].path = thread[t].path /\ thread'[t].saw = thread[t].saw
        /\ thread'[t].name = thread[t].name /\ thread'[t].ret = thread[t].ret
        /\ thread'[t].action = thread[t].action /\ thread'[t].took = thread[t].took
    BY <1>3, GoesProps DEF Steps
  <2>2. SameEntries
    BY UnchangedEntries DEF IInv
  <2>3. DescribedInv'
    BY <1>1, <2>1, NothingDescribed DEF Describing
  <2>4. ThreadInv(t)'
    <3>1. SawInv(t)'
      BY <1>1, <2>1 DEF ThreadInv, SawInv
    <3>2. PlaceInv(t)' /\ MovedInv(t)' /\ CopyingInv(t)' /\ ResultInv(t)'
      BY <1>1, <2>1 DEF ThreadInv, PlaceInv, MovedInv, CopyingInv, ResultInv, Naming, Moved, Describing
    <3> QED  BY <3>1, <3>2 DEF ThreadInv
  <2> QED  BY <1>1, <2>1, <2>2, <2>3, <2>4, OwnStep
<1> QED  BY <1>2, <1>3

LEMMA CopyFileKeeps ==
    ASSUME IInv, NEW t \in Threads, CopyFile(t)
    PROVE  IInv'
<1> USE DEF CopyFile, cVars, fVars, hVars
<1>1. thread[t].pc = "copy" /\ os = "windows" /\ ThreadInv(t)
  BY DEF IInv
<1>2. /\ thread' \in [Threads -> ThreadStates] /\ \A u \in Threads : u # t => thread'[u] = thread[u]
      /\ thread'[t].pc = "return"
      /\ thread'[t].path = thread[t].path /\ thread'[t].saw = thread[t].saw
      /\ thread'[t].name = thread[t].name /\ thread'[t].ret = thread[t].ret
      /\ thread'[t].action = thread[t].action /\ thread'[t].took = thread[t].took
  BY GoesProps DEF Steps
<1>3. SameEntries
  BY UnchangedEntries DEF IInv
<1>4. DescribedInv'
  BY <1>1, <1>2, NothingDescribed DEF Describing
<1>5. ThreadInv(t)'
  <2>1. SawInv(t)'
    BY <1>1, <1>2 DEF ThreadInv, SawInv
  <2>2. PlaceInv(t)' /\ MovedInv(t)' /\ CopyingInv(t)'
    BY <1>1, <1>2 DEF PlaceInv, MovedInv, CopyingInv, Naming, Moved, Describing
  <2>3. Gone(t) /\ thread[t].ret = 0
    BY <1>1 DEF ThreadInv, ResultInv, Moved
  <2>4. Gone(t)'
    BY <1>2, <2>3 DEF Gone
  <2>5. ResultInv(t)'
    BY <1>1, <1>2, <2>3, <2>4 DEF ResultInv, Moved, Describing
  <2> QED  BY <2>1, <2>2, <2>5 DEF ThreadInv
<1> QED  BY <1>1, <1>2, <1>3, <1>4, <1>5, OwnStep

\* rename and MoveFileEx may fail, and mkstemp.
LEMMA FailKeeps ==
    ASSUME IInv, NEW t \in Threads, thread[t].pc \in {"start", "move"},
           UNCHANGED <<os, enable, dir, file, written, clock, taken, q, spoiled, left, broken>>,
           (os = "linux" /\ Ends(t, 1)) \/ (os = "windows" /\ Ends(t, 4))
    PROVE  IInv'
<1>1. ThreadInv(t) /\ thread[t].took = NULL
  BY DEF IInv, ThreadInv, ResultInv
<1> QED  BY <1>1, EndStep DEF Describing

-------------------------------------------------------------------------------
(* Steps that change an entry without moving a file.                       *)

\* The descriptions after the entry of a thread's name was changed to e.
LEMMA EntryDescribed ==
    ASSUME IInv, NEW t \in Threads, UNCHANGED <<os, taken>>, spoiled \subseteq spoiled',
           \A u \in Threads : u # t => thread'[u] = thread[u],
           NEW e \in EntryStates, Put(e), e.name = thread[t].name,
           \/ thread'[t].pc \in Describing /\ thread'[t].name = thread[t].name
           \/ e.info = e.from \/ e.file = NULL \/ Collision(e.name) \/ e.name \in spoiled'
    PROVE  DescribedInv'
<1> SUFFICES ASSUME NEW x \in q', x.file # NULL, x.info # x.from
             PROVE  \/ x.name \in spoiled' \/ Collision(x.name)'
                    \/ \E u \in Threads : thread'[u].pc \in Describing /\ thread'[u].name = x.name
  BY DEF DescribedInv
<1>1. Collision(x.name)' <=> Collision(x.name)
  BY SameCollision
<1>2. CASE x = e
  BY <1>1, <1>2
<1>3. CASE x # e
  <2>1. x \in q /\ x.name # thread[t].name
    BY <1>3, PutProps DEF IInv
  <2>2. \/ x.name \in spoiled \/ Collision(x.name)
        \/ \E u \in Threads : thread[u].pc \in Describing /\ thread[u].name = x.name
    BY <2>1 DEF IInv, DescribedInv
  <2> QED  BY <1>1, <2>1, <2>2
<1> QED  BY <1>2, <1>3

\* A thread that describes its entry goes on, or is through with it.
LEMMA DescribeStep ==
    ASSUME IInv, NEW t \in Threads, UNCHANGED <<os, enable, dir, file, written, clock, taken>>,
           left \subseteq left', broken \subseteq broken',
           SameEntries, DescribedInv', thread[t].pc \in Describing, thread[t].pc # "delete",
           thread' \in [Threads -> ThreadStates], \A u \in Threads : u # t => thread'[u] = thread[u],
           thread'[t].path = thread[t].path, thread'[t].saw = thread[t].saw,
           thread'[t].name = thread[t].name, thread'[t].took = thread[t].took,
           thread'[t].action = thread[t].action,
           \/ os = "linux" /\ thread'[t].pc \in {"info", "return"}
           \/ os = "windows" /\ thread'[t].pc \in {"write", "copy"},
           \/ thread'[t].ret = thread[t].ret
           \/ os = "linux" /\ thread'[t].ret = 2
    PROVE  IInv'
<1>1. ThreadInv(t) /\ thread[t].pc \in Moved
  BY DEF IInv, Moved
<1>2. /\ \A n : Has(n)' <=> Has(n)
      /\ \A n, p : (\A e \in q : e.name = n => e.from = p \/ e.file = NULL) => \A e \in q' : e.name = n => e.from = p \/ e.file = NULL
  BY SameHas
<1>3. SawInv(t)'
  BY <1>1 DEF ThreadInv, SawInv, Describing
<1>4. PlaceInv(t)'
  BY <1>1 DEF ThreadInv, PlaceInv, Naming, Describing
<1>5. MovedInv(t)'
  <2> SUFFICES ASSUME thread'[t].pc \in Moved PROVE MovedInv(t)'
    BY DEF MovedInv
  <2> DEFINE n == thread[t].name
  <2>1. Has(n)' /\ \E i \in DOMAIN taken' : taken'[i].name = n
    BY <1>1, <1>2 DEF ThreadInv, MovedInv
  <2>2. Collision(n)' \/ \A e \in q' : e.name = n => e.from = thread[t].path \/ e.file = NULL
    <3>1. Collision(n) \/ \A e \in q : e.name = n => e.from = thread[t].path \/ e.file = NULL
      BY <1>1 DEF ThreadInv, MovedInv
    <3>2. Collision(n) => Collision(n)'
      BY SameCollision
    <3>3. (\A e \in q : e.name = n => e.from = thread[t].path \/ e.file = NULL)
             => \A e \in q' : e.name = n => e.from = thread[t].path \/ e.file = NULL
      BY <1>2
    <3> QED  BY <3>1, <3>2, <3>3
  <2> QED  BY <2>1, <2>2 DEF MovedInv
<1>6. ResultInv(t)'
  <2>1. Gone(t) /\ thread[t].ret \in (IF os = "linux" THEN {0, 2} ELSE {0})
    BY <1>1 DEF ThreadInv, ResultInv
  <2>2. Gone(t)'
    BY <2>1 DEF Gone
  <2> QED  BY <2>1, <2>2 DEF ResultInv
<1>7. ThreadInv(t)'
  BY <1>3, <1>4, <1>5, <1>6 DEF ThreadInv, CopyingInv
<1>8. thread'[t].pc \in Numbered /\ os = "linux" =>
         /\ thread[t].pc \in Numbered /\ thread'[t].name = thread[t].name
         /\ thread'[t].pc \notin {"stat", "move"}
  BY <1>1 DEF Numbered, Describing, ThreadInv, PlaceInv
<1> QED  BY <1>7, <1>8, OwnStep DEF Describing

\* The entry of a thread that has moved its file.
LEMMA OwnEntry ==
    ASSUME IInv, NEW t \in Threads, thread[t].pc \in Describing
    PROVE  LET e == Entry(thread[t].name)
           IN  /\ Has(thread[t].name) /\ e \in q /\ e \in EntryStates /\ e.name = thread[t].name
               /\ Collision(e.name) \/ e.from = thread[t].path \/ e.file = NULL
               /\ thread[t].path \in Paths
<1>1. ThreadInv(t) /\ TypeInv
  BY DEF IInv
<1>2. /\ Has(thread[t].name)
      /\ \/ Collision(thread[t].name)
         \/ \A e \in q : e.name = thread[t].name => e.from = thread[t].path \/ e.file = NULL
  BY <1>1 DEF ThreadInv, MovedInv, Moved
<1>3. thread[t].path \in Paths
  BY <1>1 DEF ThreadInv, SawInv, Describing
<1>4. LET e == Entry(thread[t].name) IN e \in q /\ e.name = thread[t].name /\ e \in EntryStates
  BY <1>1, <1>2, EntryProps
<1> QED  BY <1>2, <1>3, <1>4

LEMMA ChmodKeeps ==
    ASSUME IInv, NEW t \in Threads, chmod(t)
    PROVE  IInv'
<1> USE DEF chmod, cVars, fVars, hVars
<1> DEFINE x == Entry(thread[t].name)
           e == [x EXCEPT !.mode = "0"]
<1>1. thread[t].pc = "chmod" /\ thread[t].pc \in Describing /\ os = "linux"
  BY DEF Describing
<1>2. CASE Goes(t, "info") /\ Put(e)
  <2>1. Has(thread[t].name) /\ x \in EntryStates /\ x.name = thread[t].name
    BY <1>1, OwnEntry
  <2> HIDE DEF x
  <2>2. e \in EntryStates /\ e.name = thread[t].name /\ Same(e, x)
    BY <2>1 DEF EntryStates, Same
  <2> HIDE DEF e
  <2>3. SameEntries
    BY <1>2, <2>1, <2>2, ChangedEntry DEF IInv, x
  <2>4. /\ thread' \in [Threads -> ThreadStates] /\ \A u \in Threads : u # t => thread'[u] = thread[u]
        /\ thread'[t].pc = "info"
        /\ thread'[t].path = thread[t].path /\ thread'[t].saw = thread[t].saw
        /\ thread'[t].name = thread[t].name /\ thread'[t].ret = thread[t].ret
        /\ thread'[t].action = thread[t].action /\ thread'[t].took = thread[t].took
    BY <1>2, GoesProps DEF Steps
  <2>5. DescribedInv'
    BY <1>2, <2>2, <2>4, EntryDescribed DEF Describing
  <2> QED  BY <1>1, <2>3, <2>4, <2>5, DescribeStep
<1>3. CASE thread' = [thread EXCEPT ![t].pc = "info", ![t].ret = 2] /\ UNCHANGED q
  <2> DEFINE s == [thread[t] EXCEPT !.pc = "info", !.ret = 2]
  <2>1. thread[t] \in ThreadStates /\ thread' = [thread EXCEPT ![t] = s]
    BY <1>3 DEF IInv, TypeInv
  <2>2. /\ s \in ThreadStates /\ s.pc = "info" /\ s.ret = 2 /\ s.path = thread[t].path
        /\ s.saw = thread[t].saw /\ s.name = thread[t].name /\ s.action = thread[t].action
        /\ s.took = thread[t].took
    <3> HIDE DEF chmod, e
    <3>1. thread[t] \in ThreadStates /\ 2 \in 0..5
      BY <2>1
    <3> QED  BY <3>1 DEF ThreadStates, Steps
  <2> HIDE DEF s
  <2>3. /\ thread' \in [Threads -> ThreadStates] /\ \A u \in Threads : u # t => thread'[u] = thread[u]
        /\ thread'[t] = s
    BY <2>1, <2>2, ThreadMoves
  <2>4. SameEntries
    BY <1>3, UnchangedEntries DEF IInv
  <2>5. DescribedInv'
    BY <1>3, <2>2, <2>3, NothingDescribed DEF Describing
  <2> QED  BY <1>1, <2>2, <2>3, <2>4, <2>5, DescribeStep
<1> QED  BY <1>2, <1>3

LEMMA InfoFileKeeps ==
    ASSUME IInv, NEW t \in Threads, info_file(t)
    PROVE  IInv'
<1> USE DEF info_file, cVars, fVars
<1> DEFINE x == Entry(thread[t].name)
           e == [x EXCEPT !.info = thread[t].path]
<1>1. thread[t].pc = "info" /\ thread[t].pc \in Describing /\ os = "linux"
  BY DEF Describing
<1>2. CASE Goes(t, "return") /\ Put(e) /\ UNCHANGED spoiled
  <2>1. /\ Has(thread[t].name) /\ x \in EntryStates /\ x.name = thread[t].name
        /\ Collision(x.name) \/ x.from = thread[t].path \/ x.file = NULL
        /\ thread[t].path \in Paths
    BY <1>1, OwnEntry
  <2> HIDE DEF x
  <2>2. /\ e \in EntryStates /\ e.name = thread[t].name /\ Same(e, x)
        /\ e.name = x.name /\ e.info = thread[t].path /\ e.from = x.from /\ e.file = x.file
    BY <2>1 DEF EntryStates, Same
  <2>3. e.info = e.from \/ e.file = NULL \/ Collision(e.name)
    BY <2>1, <2>2
  <2> HIDE DEF e
  <2>4. SameEntries
    BY <1>2, <2>1, <2>2, ChangedEntry DEF IInv, x
  <2>5. /\ thread' \in [Threads -> ThreadStates] /\ \A u \in Threads : u # t => thread'[u] = thread[u]
        /\ thread'[t].pc = "return"
        /\ thread'[t].path = thread[t].path /\ thread'[t].saw = thread[t].saw
        /\ thread'[t].name = thread[t].name /\ thread'[t].ret = thread[t].ret
        /\ thread'[t].action = thread[t].action /\ thread'[t].took = thread[t].took
    BY <1>2, GoesProps DEF Steps
  <2>6. DescribedInv'
    BY <1>2, <2>2, <2>3, <2>5, EntryDescribed
  <2> QED  BY <1>1, <2>4, <2>5, <2>6, DescribeStep
<1>3. CASE Ends(t, 2) /\ UNCHANGED q /\ spoiled' = spoiled \cup {thread[t].name}
  <2>1. Gone(t)
    BY <1>1 DEF IInv, ThreadInv, ResultInv, Moved
  <2> QED  BY <1>1, <1>3, <2>1, EndStep
<1> DEFINE y == [x EXCEPT !.info = "empty"]
<1>4. CASE Goes(t, "return") /\ Put(y) /\ spoiled' = spoiled \cup {thread[t].name}
  <2>1. Has(thread[t].name) /\ x \in EntryStates /\ x.name = thread[t].name
    BY <1>1, OwnEntry
  <2> HIDE DEF x
  <2>2. y \in EntryStates /\ y.name = thread[t].name /\ Same(y, x)
    BY <2>1 DEF EntryStates, Same
  <2> HIDE DEF y
  <2>3. SameEntries
    BY <1>4, <2>1, <2>2, ChangedEntry DEF IInv, x
  <2>4. /\ thread' \in [Threads -> ThreadStates] /\ \A u \in Threads : u # t => thread'[u] = thread[u]
        /\ thread'[t].pc = "return"
        /\ thread'[t].path = thread[t].path /\ thread'[t].saw = thread[t].saw
        /\ thread'[t].name = thread[t].name /\ thread'[t].ret = thread[t].ret
        /\ thread'[t].action = thread[t].action /\ thread'[t].took = thread[t].took
    BY <1>4, GoesProps DEF Steps
  <2>5. DescribedInv'
    BY <1>4, <2>2, <2>4, EntryDescribed
  <2> QED  BY <1>1, <2>3, <2>4, <2>5, DescribeStep
<1> QED  BY <1>2, <1>3, <1>4

LEMMA InfoFailsKeeps ==
    ASSUME IInv, NEW t \in Threads, InfoFails(t), os = "windows", thread[t].pc \in Describing,
           thread[t].pc # "delete",
           UNCHANGED <<os, enable, dir, file, written, clock, taken, q, left, broken>>
    PROVE  IInv'
BY EndStep DEF InfoFails, Describing

LEMMA CreateFileKeeps ==
    ASSUME IInv, NEW t \in Threads, CreateFile(t)
    PROVE  IInv'
<1> USE DEF CreateFile, cVars, fVars
<1> DEFINE x == Entry(thread[t].name)
           e == [x EXCEPT !.info = "empty"]
<1>1. thread[t].pc = "create" /\ thread[t].pc \in Describing /\ os = "windows"
  BY DEF Describing
<1>2. CASE Goes(t, "write") /\ Put(e) /\ UNCHANGED spoiled
  <2>1. /\ Has(thread[t].name) /\ x \in EntryStates /\ x.name = thread[t].name
        /\ thread[t].path \in Paths
    BY <1>1, OwnEntry
  <2> HIDE DEF x
  <2>2. e \in EntryStates /\ e.name = thread[t].name /\ Same(e, x)
    BY <2>1 DEF EntryStates, Same
  <2> HIDE DEF e
  <2>3. SameEntries
    BY <1>2, <2>1, <2>2, ChangedEntry DEF IInv, x
  <2>4. /\ thread' \in [Threads -> ThreadStates] /\ \A u \in Threads : u # t => thread'[u] = thread[u]
        /\ thread'[t].pc = "write"
        /\ thread'[t].path = thread[t].path /\ thread'[t].saw = thread[t].saw
        /\ thread'[t].name = thread[t].name /\ thread'[t].ret = thread[t].ret
        /\ thread'[t].action = thread[t].action /\ thread'[t].took = thread[t].took
    BY <1>2, GoesProps DEF Steps
  <2>5. DescribedInv'
    BY <1>2, <2>2, <2>4, EntryDescribed DEF Describing
  <2> QED  BY <1>1, <2>3, <2>4, <2>5, DescribeStep
<1>3. CASE InfoFails(t) /\ UNCHANGED q
  BY <1>1, <1>3, InfoFailsKeeps
<1> QED  BY <1>2, <1>3

LEMMA WriteFileKeeps ==
    ASSUME IInv, NEW t \in Threads, WriteFile(t)
    PROVE  IInv'
<1> USE DEF WriteFile, cVars, fVars
<1> DEFINE x == Entry(thread[t].name)
           e == [x EXCEPT !.info = thread[t].path]
<1>1. thread[t].pc = "write" /\ thread[t].pc \in Describing /\ os = "windows"
  BY DEF Describing
<1>2. CASE Goes(t, "copy") /\ Put(e) /\ UNCHANGED spoiled
  <2>1. /\ Has(thread[t].name) /\ x \in EntryStates /\ x.name = thread[t].name
        /\ Collision(x.name) \/ x.from = thread[t].path \/ x.file = NULL
        /\ thread[t].path \in Paths
    BY <1>1, OwnEntry
  <2> HIDE DEF x
  <2>2. /\ e \in EntryStates /\ e.name = thread[t].name /\ Same(e, x)
        /\ e.name = x.name /\ e.info = thread[t].path /\ e.from = x.from /\ e.file = x.file
    BY <2>1 DEF EntryStates, Same
  <2>3. e.info = e.from \/ e.file = NULL \/ Collision(e.name)
    BY <2>1, <2>2
  <2> HIDE DEF e
  <2>4. SameEntries
    BY <1>2, <2>1, <2>2, ChangedEntry DEF IInv, x
  <2>5. /\ thread' \in [Threads -> ThreadStates] /\ \A u \in Threads : u # t => thread'[u] = thread[u]
        /\ thread'[t].pc = "copy"
        /\ thread'[t].path = thread[t].path /\ thread'[t].saw = thread[t].saw
        /\ thread'[t].name = thread[t].name /\ thread'[t].ret = thread[t].ret
        /\ thread'[t].action = thread[t].action /\ thread'[t].took = thread[t].took
    BY <1>2, GoesProps DEF Steps
  <2>6. DescribedInv'
    BY <1>2, <2>2, <2>3, <2>5, EntryDescribed
  <2> QED  BY <1>1, <2>4, <2>5, <2>6, DescribeStep
<1>3. CASE InfoFails(t) /\ UNCHANGED q
  BY <1>1, <1>3, InfoFailsKeeps
<1> QED  BY <1>2, <1>3

-------------------------------------------------------------------------------
(* The move, and the empty file of mkstemp.                                *)

\* A file arrives in its entry, by a move or at the end of a copy.
LEMMA ArriveKeeps ==
    ASSUME IInv, NEW t \in Threads, NEW next, NEW b \in Files, NEW e \in EntryStates, NEW s \in ThreadStates,
           UNCHANGED <<os, enable, dir, written, clock, spoiled, left, broken>>,
           thread[t].pc = "move" \/ (os = "windows" /\ thread[t].pc = "copying"),
           \/ os = "linux" /\ next = "chmod" /\ file'[thread[t].path] = NULL
           \/ os = "windows" /\ next = "create" /\ file'[thread[t].path] = NULL
           \/ os = "windows" /\ next = "delete",
           b = thread[t].saw \/ b.id > thread[t].saw.id,
           Put(e), e.name = thread[t].name, e.file = b, e.from = thread[t].path,
           file' \in [Paths -> Files \cup {NULL}], \A x \in Paths : file'[x] = file[x] \/ file'[x] = NULL,
           thread' = [thread EXCEPT ![t] = s],
           s.pc = next, s.took = b, s.path = thread[t].path, s.name = thread[t].name, s.saw = thread[t].saw,
           s.ret = 0, ~s.action,
           taken' = Append(taken, [name |-> thread[t].name, file |-> b, saw |-> thread[t].saw])
    PROVE  IInv'
<1> DEFINE p == thread[t].path
           n == thread[t].name
           m == [name |-> n, file |-> b, saw |-> thread[t].saw]
<1>1. TypeInv /\ ThreadInv(t)
  BY DEF IInv
<1>2. taken' = Append(taken, m)
  OBVIOUS
<1>3. /\ p \in Paths /\ n \in Names /\ thread[t].saw \in Files /\ thread[t].saw # NULL
      /\ thread[t].saw.status = "MALWARE" /\ thread[t].saw.id <= written
  BY <1>1 DEF TypeInv, ThreadInv, SawInv, PlaceInv, Naming
<1>5. e \in EntryStates /\ e.name = n /\ e.file = b /\ e.from = p
  OBVIOUS
<1>6. m \in Moves /\ m.name = n /\ m.file = b /\ m.saw = thread[t].saw
  BY <1>3 DEF Moves
<1>7. /\ s \in ThreadStates /\ s.pc = next /\ s.took = b /\ s.path = p /\ s.name = n
      /\ s.saw = thread[t].saw /\ s.ret = 0 /\ ~s.action
  OBVIOUS
<1> HIDE DEF m
<1>8. PICK nn : nn = n
  OBVIOUS
<1>9. /\ q' \subseteq EntryStates /\ IsFiniteSet(q') /\ \A x, y \in q' : x.name = y.name => x = y
      /\ e \in q' /\ \A x \in q' : x = e \/ (x \in q /\ x.name # n)
      /\ \A x \in q : x.name # n => x \in q'
      /\ \A k : Has(k)' <=> Has(k) \/ k = n
      /\ Has(n) => Cardinality(q') = Cardinality(q)
  BY <1>1, <1>2, <1>5, PutProps
<1>10. /\ Len(taken) \in Nat /\ DOMAIN taken = 1..Len(taken)
      /\ taken' \in Seq(Moves) /\ Len(taken') = Len(taken) + 1
      /\ DOMAIN taken' = 1..Len(taken) + 1 /\ taken'[Len(taken) + 1] = m
      /\ \A i \in 1..Len(taken) : taken'[i] = taken[i]
  BY <1>1, <1>2, <1>6, TakenProps, AppendTaken
<1>11. \A x : Collision(x) => Collision(x)'
  BY <1>1, <1>2, <1>6, CollisionRemains
<1>12. ASSUME NEW i \in 1..Len(taken), taken[i].name = n PROVE os = "windows" /\ Collision(nn)'
  <2>1. os # "linux"
    BY <1>10, <1>12 DEF IInv, NumberInv
  <2> QED  BY <2>1, <1>1, <1>2, <1>6, <1>12, <1>8, SecondMove DEF TypeInv
<1>13. /\ thread' \in [Threads -> ThreadStates] /\ \A u \in Threads : u # t => thread'[u] = thread[u]
       /\ thread'[t] = s
  BY <1>2, <1>7, ThreadMoves
<1>14. /\ file' \in [Paths -> Files \cup {NULL}] /\ (next # "delete" => file'[p] = NULL)
       /\ \A x \in Paths : file'[x] = file[x] \/ file'[x] = NULL
  OBVIOUS
<1>15. TypeInv' /\ FileInv'
  <2>1. TypeInv'
    BY <1>1, <1>9, <1>10, <1>13, <1>14 DEF TypeInv
  <2>2. FileInv'
    BY <1>14 DEF IInv, FileInv
  <2> QED  BY <2>1, <2>2
<1>16. ThreadInv(t)'
  <2>1. SawInv(t)'
    BY <1>1, <1>3, <1>7, <1>13, <1>14 DEF ThreadInv, SawInv
  <2>2. PlaceInv(t)'
    BY <1>3, <1>7, <1>13 DEF PlaceInv
  <2>3. MovedInv(t)'
    <3>1. \A x \in q' : x.name = n => x.from = p
      BY <1>5, <1>9
    <3>2. Len(taken) + 1 \in DOMAIN taken' /\ taken'[Len(taken) + 1].name = n
      BY <1>6, <1>10
    <3>3. \E x \in q' : x.name = n
      BY <1>5, <1>9
    <3> QED  BY <3>1, <3>2, <3>3, <1>7, <1>13 DEF MovedInv, Has
  <2>4. ResultInv(t)'
    <3>1. next # "delete" => Gone(t)'
      BY <1>3, <1>7, <1>13, <1>14 DEF Gone
    <3> QED  BY <3>1, <1>7, <1>13 DEF ResultInv, Moved, Describing
  <2>5. CopyingInv(t)'
    BY <1>7, <1>13 DEF CopyingInv
  <2> QED  BY <2>1, <2>2, <2>3, <2>4, <2>5 DEF ThreadInv
<1>17. ASSUME NEW u \in Threads, u # t PROVE ThreadInv(u)'
  <2>1. thread'[u] = thread[u] /\ ThreadInv(u)
    BY <1>13, <1>17 DEF IInv
  <2>2. SawInv(u)'
    BY <2>1, <1>14 DEF ThreadInv, SawInv
  <2>3. PlaceInv(u)'
    BY <2>1 DEF ThreadInv, PlaceInv
  <2>4. MovedInv(u)'
    <3> SUFFICES ASSUME thread[u].pc \in Moved PROVE MovedInv(u)'
      BY <2>1 DEF MovedInv
    <3> DEFINE k == thread[u].name
               r == thread[u].path
    <3>1. PICK i \in 1..Len(taken) : taken[i].name = k
      BY <2>1, <1>10 DEF ThreadInv, MovedInv
    <3>2. i \in DOMAIN taken' /\ taken'[i].name = k
      BY <3>1, <1>10
    <3>3. \E x \in q' : x.name = k
      <4>1. Has(k)
        BY <2>1 DEF ThreadInv, MovedInv
      <4> QED  BY <4>1, <1>5, <1>9 DEF Has
    <3>4. thread[u].pc \in Describing => Collision(k)' \/ \A x \in q' : x.name = k => x.from = r \/ x.file = NULL
      <4> SUFFICES ASSUME thread[u].pc \in Describing
                   PROVE  Collision(k)' \/ \A x \in q' : x.name = k => x.from = r \/ x.file = NULL
        OBVIOUS
      <4>1. Collision(k) \/ \A x \in q : x.name = k => x.from = r \/ x.file = NULL
        BY <2>1 DEF ThreadInv, MovedInv
      <4>2. CASE k = n
        <5>1. Collision(nn)'
          BY <3>1, <4>2, <1>12
        <5>2. nn = thread'[u].name
          BY <4>2, <2>1, <1>8
        <5> QED  BY <5>1, <5>2
      <4>3. CASE k # n
        <5>1. Collision(k) => Collision(k)'
          BY <2>1, <1>11
        <5> QED  BY <5>1, <4>1, <4>3, <1>5, <1>9
      <4> QED  BY <4>2, <4>3
    <3> QED  BY <3>2, <3>3, <3>4, <2>1 DEF MovedInv, Has
  <2>5. thread[u].pc # "idle" /\ Gone(u) => Gone(u)'
    BY <2>1, <1>14 DEF ThreadInv, SawInv, Gone
  <2>6. ResultInv(u)'
    BY <2>1, <2>5 DEF ThreadInv, ResultInv, Moved, Describing
  <2>7. CopyingInv(u)'
    BY <2>1, <1>9 DEF ThreadInv, CopyingInv
  <2> QED  BY <2>2, <2>3, <2>4, <2>6, <2>7 DEF ThreadInv
<1>18. NumberInv'
  <2> SUFFICES ASSUME os = "linux" PROVE NumberInv'
    BY DEF NumberInv
  <2>1. Has(n)
    BY DEF IInv, NumberInv, Numbered
  <2>2. \A k : Has(k)' <=> k \in 1..Cardinality(q')
    BY <2>1, <1>9 DEF IInv, NumberInv
  <2>3. \A u \in Threads : thread'[u].pc \in Numbered =>
           thread[u].pc \in Numbered /\ thread'[u].name = thread[u].name
    BY <1>7, <1>13 DEF Numbered
  <2>4. \A u \in Threads : thread'[u].pc \in Numbered => Has(thread[u].name)'
    BY <2>3, <1>9 DEF IInv, NumberInv
  <2>5. \A u, v \in Threads :
           thread'[u].pc \in Numbered /\ thread'[v].pc \in Numbered /\ u # v
              => thread'[u].name # thread'[v].name
    BY <2>3 DEF IInv, NumberInv
  <2>6. ASSUME NEW u \in Threads, thread'[u].pc \in {"stat", "move"}, NEW i \in DOMAIN taken'
        PROVE  taken'[i].name # thread'[u].name
    <3>1. u # t /\ thread'[u] = thread[u]
      BY <2>6, <1>7, <1>13
    <3>2. thread[u].name # n
      BY <2>6, <3>1 DEF IInv, NumberInv, Numbered
    <3>3. CASE i = Len(taken) + 1
      BY <3>1, <3>2, <3>3, <1>6, <1>10
    <3>4. CASE i # Len(taken) + 1
      <4>1. i \in 1..Len(taken)
        BY <3>4, <1>10
      <4> QED  BY <4>1, <3>1, <2>6, <1>10 DEF IInv, NumberInv
    <3> QED  BY <3>3, <3>4
  <2> QED  BY <2>2, <2>4, <2>5, <2>6 DEF NumberInv
<1>19. Kept'
  <2> SUFFICES ASSUME NEW i \in DOMAIN taken'
               PROVE  \/ \E x \in q' : x.name = taken'[i].name /\ x.file = taken'[i].file
                      \/ os = "windows" /\ taken'[i].name \in Copied' \cup broken
                      \/ /\ Collision(taken[i].name)'
                         /\ \E j \in i + 1..Len(taken') : taken'[j].name = taken'[i].name
    BY DEF Kept
  <2>1. CASE i = Len(taken) + 1
    BY <2>1, <1>5, <1>6, <1>9, <1>10
  <2>2. CASE i # Len(taken) + 1
    <3>1. i \in 1..Len(taken) /\ taken'[i] = taken[i]
      BY <2>2, <1>10
    <3>2. CASE taken[i].name = n
      <4>1. Collision(nn)' /\ nn = taken'[i].name
        BY <3>1, <3>2, <1>12, <1>8
      <4>2. Len(taken) + 1 \in i + 1..Len(taken') /\ taken'[Len(taken) + 1].name = taken'[i].name
        BY <3>1, <3>2, <1>6, <1>10
      <4> QED  BY <4>1, <4>2
    <3>3. CASE taken[i].name # n
      <4>1. \/ \E x \in q : x.name = taken[i].name /\ x.file = taken[i].file
            \/ os = "windows" /\ taken[i].name \in Copied \cup broken
            \/ Collision(taken[i].name) /\ \E j \in i + 1..Len(taken) : taken[j].name = taken[i].name
        BY <3>1, <1>10 DEF IInv, Kept
      <4>2. CASE \E x \in q : x.name = taken[i].name /\ x.file = taken[i].file
        BY <4>2, <3>1, <3>3, <1>9
      <4>3. CASE Collision(taken[i].name) /\ \E j \in i + 1..Len(taken) : taken[j].name = taken[i].name
        <5>1. PICK j \in i + 1..Len(taken) : taken[j].name = taken[i].name
          BY <4>3
        <5>2. j \in i + 1..Len(taken') /\ j \in 1..Len(taken) /\ taken'[j].name = taken'[i].name
          BY <5>1, <3>1, <1>10
        <5>3. Collision(taken[i].name)'
          BY <4>3, <3>1, <1>11
        <5> QED  BY <5>2, <5>3
      <4>4. CASE os = "windows" /\ taken[i].name \in Copied \cup broken
        <5>1. \A k \in Copied : k # n => k \in Copied'
          BY <1>13 DEF Copied
        <5> QED  BY <4>4, <5>1, <3>1, <3>3
      <4> QED  BY <4>1, <4>2, <4>3, <4>4
    <3> QED  BY <3>2, <3>3
  <2> QED  BY <2>1, <2>2
<1>20. OnlyMalware'
  <2> SUFFICES ASSUME NEW i \in DOMAIN taken'
               PROVE  taken'[i].file.status = "MALWARE" \/ taken'[i].file.id > taken'[i].saw.id
    BY DEF OnlyMalware
  <2>1. CASE i = Len(taken) + 1
    BY <2>1, <1>3, <1>6, <1>10
  <2>2. CASE i # Len(taken) + 1
    BY <2>2, <1>10 DEF IInv, OnlyMalware
  <2> QED  BY <2>1, <2>2
<1>21. DescribedInv'
  <2> SUFFICES ASSUME NEW x \in q', x.file # NULL, x.info # x.from
               PROVE  \/ x.name \in spoiled \/ Collision(x.name)'
                      \/ \E u \in Threads : thread'[u].pc \in Describing /\ thread'[u].name = x.name
    BY DEF DescribedInv
  <2>1. CASE x = e
    BY <2>1, <1>5, <1>7, <1>13 DEF Describing
  <2>2. CASE x # e
    <3>1. x \in q
      BY <2>2, <1>9
    <3>2. \/ x.name \in spoiled \/ Collision(x.name)
          \/ \E u \in Threads : thread[u].pc \in Describing /\ thread[u].name = x.name
      BY <3>1 DEF IInv, DescribedInv
    <3>3. Collision(x.name) => Collision(x.name)'
      BY <1>11
    <3>4. \A u \in Threads : thread[u].pc \in Describing => thread'[u] = thread[u]
      BY <1>13 DEF Describing
    <3> QED  BY <3>2, <3>3, <3>4
  <2> QED  BY <2>1, <2>2
<1> QED  BY <1>15, <1>16, <1>17, <1>18, <1>19, <1>20, <1>21 DEF IInv

LEMMA MoveKeeps ==
    ASSUME IInv, NEW t \in Threads, NEW next, Move(t, next), thread[t].pc = "move",
           UNCHANGED <<os, enable, dir, written, clock, spoiled, left, broken>>,
           \/ os = "linux" /\ next = "chmod"
           \/ os = "windows" /\ next = "create"
    PROVE  IInv'
<1> DEFINE p == thread[t].path
           n == thread[t].name
           b == file[p]
           e0 == Target(n)
           e == [e0 EXCEPT !.file = b, !.from = p, !.mode = "open"]
           s == [thread[t] EXCEPT !.pc = next, !.took = b]
<1>1. TypeInv /\ ThreadInv(t)
  BY DEF IInv
<1>2. /\ b # NULL /\ file' = [file EXCEPT ![p] = NULL] /\ Put(e)
      /\ thread' = [thread EXCEPT ![t] = s]
      /\ taken' = Append(taken, [name |-> n, file |-> b, saw |-> thread[t].saw])
  BY <1>1 DEF Move, TypeInv
<1>3. /\ p \in Paths /\ n \in Names /\ b \in Files /\ (b = thread[t].saw \/ b.id > thread[t].saw.id)
      /\ thread[t].ret = 0 /\ ~thread[t].action
  BY <1>1, <1>2 DEF TypeInv, ThreadInv, SawInv, PlaceInv, ResultInv, Naming
<1>4. e0 \in EntryStates /\ e0.name = n
  BY <1>1, <1>3, TargetProps
<1>5. e \in EntryStates /\ e.name = n /\ e.file = b /\ e.from = p
  <2> HIDE DEF e0, b, p, n
  <2> QED  BY <1>3, <1>4 DEF EntryStates
<1>6. /\ s \in ThreadStates /\ s.pc = next /\ s.took = b /\ s.path = p /\ s.name = n
      /\ s.saw = thread[t].saw /\ s.ret = 0 /\ ~s.action
  <2>1. thread[t] \in ThreadStates
    BY <1>1 DEF TypeInv
  <2> HIDE DEF b
  <2> QED  BY <2>1, <1>3 DEF ThreadStates, Steps
<1>7. /\ file' \in [Paths -> Files \cup {NULL}] /\ file'[p] = NULL
      /\ \A x \in Paths : file'[x] = file[x] \/ file'[x] = NULL
  BY <1>1, <1>2, <1>3 DEF TypeInv
<1> HIDE DEF e0, e, s, b
<1> QED  BY <1>2, <1>3, <1>5, <1>6, <1>7, ArriveKeeps

LEMMA CopyEndsKeeps ==
    ASSUME IInv, NEW t \in Threads, CopyEnds(t)
    PROVE  IInv'
<1> USE DEF CopyEnds, cVars, fVars
<1> DEFINE p == thread[t].path
           n == thread[t].name
           b == thread[t].took
           e0 == Entry(n)
           e == [e0 EXCEPT !.file = b, !.from = p]
<1>1. TypeInv /\ ThreadInv(t) /\ thread[t].pc = "copying" /\ os = "windows"
  BY DEF IInv
<1>2. /\ p \in Paths /\ b \in Files /\ (b = thread[t].saw \/ b.id > thread[t].saw.id) /\ Has(n)
      /\ thread[t].ret = 0 /\ ~thread[t].action
  BY <1>1 DEF ThreadInv, SawInv, CopyingInv, ResultInv
<1>3. CASE /\ Put(e) /\ Goes(t, "delete") /\ UNCHANGED broken
           /\ taken' = Append(taken, [name |-> n, file |-> b, saw |-> thread[t].saw])
  <2>1. e0 \in EntryStates /\ e0.name = n
    BY <1>1, <1>2, EntryProps
  <2>2. e \in EntryStates /\ e.name = n /\ e.file = b /\ e.from = p
    <3> HIDE DEF e0, b, p, n
    <3> QED  BY <1>2, <2>1 DEF EntryStates
  <2> DEFINE s == [thread[t] EXCEPT !.pc = "delete"]
  <2>3. thread' = [thread EXCEPT ![t] = s] /\ thread[t] \in ThreadStates
    BY <1>1, <1>3 DEF Goes, TypeInv
  <2>4. /\ s \in ThreadStates /\ s.pc = "delete" /\ s.took = b /\ s.path = p /\ s.name = n
        /\ s.saw = thread[t].saw /\ s.ret = 0 /\ ~s.action
    <3> HIDE DEF CopyEnds, e
    <3> QED  BY <2>3, <1>2 DEF ThreadStates, Steps
  <2>5. file' \in [Paths -> Files \cup {NULL}] /\ \A x \in Paths : file'[x] = file[x] \/ file'[x] = NULL
    BY <1>1 DEF TypeInv
  <2>6. UNCHANGED <<os, enable, dir, written, clock, spoiled, left, broken>>
    BY <1>3
  <2> HIDE DEF e0, e, s, CopyEnds
  <2> QED  BY <1>1, <1>2, <1>3, <2>2, <2>3, <2>4, <2>5, <2>6, ArriveKeeps
<1>4. CASE /\ thread' = [thread EXCEPT ![t].pc = "return", ![t].ret = 4, ![t].took = NULL]
           /\ broken' = broken \cup {n} /\ UNCHANGED <<q, taken>>
  <2> DEFINE s == [thread[t] EXCEPT !.pc = "return", !.ret = 4, !.took = NULL]
  <2>1. thread' = [thread EXCEPT ![t] = s] /\ thread[t] \in ThreadStates
    BY <1>1, <1>4 DEF TypeInv
  <2>2. /\ s \in ThreadStates /\ s.pc = "return" /\ s.took = NULL /\ s.path = p /\ s.name = n
        /\ s.saw = thread[t].saw /\ s.ret = 4 /\ ~s.action
    <3> HIDE DEF CopyEnds, e, b
    <3>1. thread[t] \in ThreadStates /\ 4 \in 0..5 /\ NULL \in Files \cup {NULL}
      BY <2>1
    <3> QED  BY <3>1, <1>2 DEF ThreadStates, Steps
  <2> HIDE DEF s
  <2>3. /\ thread' \in [Threads -> ThreadStates] /\ \A u \in Threads : u # t => thread'[u] = thread[u]
        /\ thread'[t] = s
    BY <2>1, <2>2, ThreadMoves
  <2>4. SameEntries
    BY <1>4, UnchangedEntries DEF IInv
  <2>5. DescribedInv'
    BY <1>1, <1>4, <2>3, NothingDescribed DEF Describing
  <2>6. ThreadInv(t)'
    <3>1. SawInv(t)'
      BY <1>1, <2>2, <2>3 DEF ThreadInv, SawInv
    <3>2. PlaceInv(t)' /\ MovedInv(t)' /\ CopyingInv(t)' /\ ResultInv(t)'
      BY <1>1, <2>2, <2>3 DEF PlaceInv, MovedInv, CopyingInv, ResultInv, Naming, Moved, Describing
    <3> QED  BY <3>1, <3>2 DEF ThreadInv
  <2> QED  BY <1>1, <1>4, <2>3, <2>4, <2>5, <2>6, OwnStep
<1> QED  BY <1>3, <1>4

\* A copy begins: the entry is there, without a file.
LEMMA BeginCopyKeeps ==
    ASSUME IInv, NEW t \in Threads, BeginCopy(t), thread[t].pc = "move", os = "windows",
           UNCHANGED <<os, enable, dir, file, written, clock, taken, spoiled, left, broken>>
    PROVE  IInv'
<1> DEFINE p == thread[t].path
           n == thread[t].name
           b == file[p]
           e0 == Target(n)
           e == [e0 EXCEPT !.file = NULL, !.from = NULL, !.mode = "open"]
           s == [thread[t] EXCEPT !.pc = "copying", !.took = b]
<1>1. TypeInv /\ ThreadInv(t)
  BY DEF IInv
<1>2. b # NULL /\ Put(e) /\ thread' = [thread EXCEPT ![t] = s]
  BY <1>1 DEF BeginCopy, TypeInv
<1>3. /\ p \in Paths /\ n \in Names /\ b \in Files /\ (b = thread[t].saw \/ b.id > thread[t].saw.id)
      /\ thread[t].ret = 0 /\ ~thread[t].action
  BY <1>1, <1>2 DEF TypeInv, ThreadInv, SawInv, PlaceInv, ResultInv, Naming
<1>4. e0 \in EntryStates /\ e0.name = n
  BY <1>1, <1>3, TargetProps
<1>5. e \in EntryStates /\ e.name = n /\ e.file = NULL
  <2> HIDE DEF e0, b, p, n
  <2> QED  BY <1>4 DEF EntryStates
<1>6. /\ s \in ThreadStates /\ s.pc = "copying" /\ s.took = b /\ s.path = p /\ s.name = n
      /\ s.saw = thread[t].saw /\ s.ret = 0 /\ ~s.action
  <2>1. thread[t] \in ThreadStates
    BY <1>1 DEF TypeInv
  <2> HIDE DEF b
  <2> QED  BY <2>1, <1>3 DEF ThreadStates, Steps
<1> HIDE DEF e0, e, s, b
<1>7. /\ thread' \in [Threads -> ThreadStates] /\ \A u \in Threads : u # t => thread'[u] = thread[u]
      /\ thread'[t] = s
  BY <1>2, <1>6, ThreadMoves
<1>8. /\ q' \subseteq EntryStates /\ IsFiniteSet(q') /\ \A x, y \in q' : x.name = y.name => x = y
      /\ \A x \in q' : x = e \/ (x \in q /\ x.name # n)
      /\ \A x \in q : x.name # n => x \in q'
      /\ \A k : Has(k)' <=> Has(k) \/ k = n
  BY <1>1, <1>2, <1>5, PutProps
<1>9. \A k : Collision(k)' <=> Collision(k)
  BY SameCollision
<1>10. TypeInv' /\ FileInv' /\ NumberInv' /\ OnlyMalware'
  <2>1. TypeInv'
    BY <1>1, <1>7, <1>8 DEF TypeInv
  <2>2. FileInv' /\ OnlyMalware'
    BY DEF IInv, FileInv, OnlyMalware
  <2>3. NumberInv'
    BY DEF NumberInv
  <2> QED  BY <2>1, <2>2, <2>3
<1>11. ThreadInv(t)'
  <2>1. SawInv(t)'
    BY <1>1, <1>6, <1>7 DEF ThreadInv, SawInv
  <2>2. PlaceInv(t)' /\ MovedInv(t)' /\ ResultInv(t)'
    BY <1>3, <1>6, <1>7 DEF PlaceInv, MovedInv, ResultInv, Moved, Describing
  <2>3. CopyingInv(t)'
    BY <1>3, <1>6, <1>7, <1>8 DEF CopyingInv
  <2> QED  BY <2>1, <2>2, <2>3 DEF ThreadInv
<1>12. ASSUME NEW u \in Threads, u # t PROVE ThreadInv(u)'
  <2>1. thread'[u] = thread[u] /\ ThreadInv(u)
    BY <1>7, <1>12 DEF IInv
  <2>2. SawInv(u)' /\ PlaceInv(u)' /\ ResultInv(u)'
    BY <2>1 DEF ThreadInv, SawInv, PlaceInv, ResultInv, Gone
  <2>3. CopyingInv(u)'
    BY <2>1, <1>8 DEF ThreadInv, CopyingInv
  <2>4. MovedInv(u)'
    <3> SUFFICES ASSUME thread[u].pc \in Moved PROVE MovedInv(u)'
      BY <2>1 DEF MovedInv
    <3> DEFINE k == thread[u].name
               r == thread[u].path
    <3>1. Has(k)' /\ \E i \in DOMAIN taken' : taken'[i].name = k
      BY <2>1, <1>8 DEF ThreadInv, MovedInv
    <3>2. ASSUME thread[u].pc \in Describing
          PROVE  Collision(k)' \/ \A x \in q' : x.name = k => x.from = r \/ x.file = NULL
      <4>1. Collision(k) \/ \A x \in q : x.name = k => x.from = r \/ x.file = NULL
        BY <2>1, <3>2 DEF ThreadInv, MovedInv
      <4>2. Collision(k) => Collision(k)'
        BY <2>1, <1>9
      <4> QED  BY <4>1, <4>2, <1>5, <1>8
    <3> QED  BY <2>1, <3>1, <3>2 DEF MovedInv
  <2> QED  BY <2>2, <2>3, <2>4 DEF ThreadInv
<1>13. Kept'
  <2> SUFFICES ASSUME NEW i \in DOMAIN taken
               PROVE  \/ \E x \in q' : x.name = taken[i].name /\ x.file = taken[i].file
                      \/ taken[i].name \in Copied' \cup broken
                      \/ /\ Collision(taken[i].name)'
                         /\ \E j \in i + 1..Len(taken) : taken[j].name = taken[i].name
    BY DEF Kept
  <2>1. n \in Copied' /\ \A k \in Copied : k \in Copied'
    BY <1>6, <1>7 DEF Copied
  <2> QED  BY <2>1, <1>8, <1>9 DEF IInv, Kept
<1>14. DescribedInv'
  <2> SUFFICES ASSUME NEW x \in q', x.file # NULL, x.info # x.from
               PROVE  \/ x.name \in spoiled \/ Collision(x.name)'
                      \/ \E u \in Threads : thread'[u].pc \in Describing /\ thread'[u].name = x.name
    BY DEF DescribedInv
  <2>1. x \in q
    BY <1>5, <1>8
  <2>2. \/ x.name \in spoiled \/ Collision(x.name)
        \/ \E u \in Threads : thread[u].pc \in Describing /\ thread[u].name = x.name
    BY <2>1 DEF IInv, DescribedInv
  <2>3. Collision(x.name)' <=> Collision(x.name)
    BY <1>9
  <2>4. \A u \in Threads : thread[u].pc \in Describing => thread'[u] = thread[u]
    BY <1>7 DEF Describing
  <2> QED  BY <2>2, <2>3, <2>4
<1> QED  BY <1>10, <1>11, <1>12, <1>13, <1>14 DEF IInv

LEMMA DeleteSourceKeeps ==
    ASSUME IInv, NEW t \in Threads, DeleteSource(t)
    PROVE  IInv'
<1> USE DEF DeleteSource, cVars
<1>1. TypeInv /\ ThreadInv(t) /\ thread[t].pc = "delete" /\ os = "windows"
  BY DEF IInv
<1>2. /\ thread' \in [Threads -> ThreadStates] /\ \A u \in Threads : u # t => thread'[u] = thread[u]
      /\ thread'[t].pc = "create"
      /\ thread'[t].path = thread[t].path /\ thread'[t].saw = thread[t].saw
      /\ thread'[t].name = thread[t].name /\ thread'[t].ret = thread[t].ret
      /\ thread'[t].action = thread[t].action /\ thread'[t].took = thread[t].took
  BY GoesProps DEF Steps
<1>3. SameEntries
  BY UnchangedEntries DEF IInv
<1>4. DescribedInv'
  BY <1>1, <1>2, NothingDescribed DEF Describing
<1>5. /\ file' \in [Paths -> Files \cup {NULL}] /\ left \subseteq left'
      /\ \A x \in Paths : file'[x] = file[x] \/ file'[x] = NULL
  BY <1>1 DEF TypeInv, Stays
<1>6. thread[t].path \in Paths /\ thread[t].saw # NULL
  BY <1>1 DEF ThreadInv, SawInv
<1>7. Gone(t)'
  <2>1. CASE file' = [file EXCEPT ![thread[t].path] = NULL]
    BY <2>1, <1>1, <1>2, <1>6 DEF Gone, TypeInv
  <2>2. CASE Stays(t) /\ UNCHANGED file
    BY <2>2, <1>2 DEF Gone, Stays
  <2> QED  BY <2>1, <2>2
<1>8. ThreadInv(t)'
  <2>1. SawInv(t)'
    BY <1>1, <1>2, <1>5, <1>6 DEF ThreadInv, SawInv
  <2>2. PlaceInv(t)' /\ CopyingInv(t)'
    BY <1>1, <1>2 DEF ThreadInv, PlaceInv, CopyingInv, Naming
  <2>3. MovedInv(t)'
    BY <1>1, <1>2 DEF ThreadInv, MovedInv, Moved, Describing, Has, Collision
  <2>4. ResultInv(t)'
    BY <1>1, <1>2, <1>7 DEF ThreadInv, ResultInv, Moved, Describing
  <2> QED  BY <2>1, <2>2, <2>3, <2>4 DEF ThreadInv
<1> QED  BY <1>1, <1>2, <1>3, <1>4, <1>5, <1>8, OwnStepFiles

LEMMA MkstempKeeps ==
    ASSUME IInv, NEW t \in Threads, mkstemp(t)
    PROVE  IInv'
<1> USE DEF mkstemp, cVars, fVars, hVars
<1> DEFINE n == Cardinality(q) + 1
           e == New(n)
           s == [thread[t] EXCEPT !.pc = "stat", !.name = n]
<1>1. TypeInv /\ ThreadInv(t) /\ thread[t].pc = "start" /\ os = "linux"
  BY DEF IInv
<1>2. CASE Ends(t, 1) /\ UNCHANGED q
  BY <1>1, <1>2, FailKeeps
<1>3. CASE thread' = [thread EXCEPT ![t].pc = "stat", ![t].name = n] /\ Put(e)
  <2>1. Cardinality(q) \in Nat /\ n \in Nat /\ n \in Names
    BY <1>1, FS_CardinalityType DEF TypeInv, Names
  <2>2. e \in EntryStates /\ e.name = n /\ e.file = NULL
    BY <2>1 DEF New, EntryStates
  <2>3. thread[t] \in ThreadStates /\ thread' = [thread EXCEPT ![t] = s]
    BY <1>1, <1>3 DEF TypeInv
  <2>4. PICK nn : nn = n
    OBVIOUS
  <2>5. ~Has(nn)
    BY <1>1, <2>1, <2>4 DEF IInv, NumberInv
  <2> HIDE DEF e, n
  <2>6. /\ s \in ThreadStates /\ s.pc = "stat" /\ s.name = n /\ s.path = thread[t].path
        /\ s.saw = thread[t].saw /\ s.ret = thread[t].ret /\ s.action = thread[t].action
        /\ s.took = thread[t].took
    <3> HIDE DEF mkstemp
    <3> QED  BY <2>1, <2>3 DEF ThreadStates, Steps
  <2> HIDE DEF s
  <2>7. /\ thread' \in [Threads -> ThreadStates] /\ \A u \in Threads : u # t => thread'[u] = thread[u]
        /\ thread'[t] = s
    BY <2>3, <2>6, ThreadMoves
  <2>8. /\ q' \subseteq EntryStates /\ IsFiniteSet(q') /\ \A x, y \in q' : x.name = y.name => x = y
        /\ e \in q' /\ \A x \in q' : x = e \/ (x \in q /\ x.name # nn)
        /\ \A x \in q : x.name # nn => x \in q'
        /\ \A k : Has(k)' <=> Has(k) \/ k = nn
        /\ Cardinality(q') = Cardinality(q) + 1
    BY <1>1, <1>3, <2>2, <2>4, <2>5, PutProps
  <2>9. \A x \in q : x.name # nn
    BY <2>5 DEF Has
  <2>10. \A k : Collision(k)' <=> Collision(k)
    BY SameCollision
  <2>11. TypeInv' /\ FileInv'
    <3>1. TypeInv'
      BY <1>1, <2>7, <2>8 DEF TypeInv
    <3>2. FileInv'
      BY DEF IInv, FileInv
    <3> QED  BY <3>1, <3>2
  <2>12. ThreadInv(t)'
    <3>1. SawInv(t)'
      BY <1>1, <2>6, <2>7 DEF ThreadInv, SawInv
    <3>2. PlaceInv(t)'
      BY <1>1, <2>1, <2>6, <2>7 DEF PlaceInv
    <3>3. MovedInv(t)' /\ CopyingInv(t)' /\ ResultInv(t)'
      BY <1>1, <2>6, <2>7 DEF ThreadInv, MovedInv, CopyingInv, ResultInv, Moved, Describing
    <3> QED  BY <3>1, <3>2, <3>3 DEF ThreadInv
  <2>13. ASSUME NEW u \in Threads, u # t PROVE ThreadInv(u)'
    <3>1. thread'[u] = thread[u] /\ ThreadInv(u)
      BY <2>7, <2>13 DEF IInv
    <3>2. SawInv(u)'
      BY <3>1 DEF ThreadInv, SawInv
    <3>3. PlaceInv(u)'
      BY <3>1 DEF ThreadInv, PlaceInv
    <3>4. MovedInv(u)'
      <4> SUFFICES ASSUME thread[u].pc \in Moved PROVE MovedInv(u)'
        BY <3>1 DEF MovedInv
      <4> DEFINE k == thread[u].name
                 r == thread[u].path
      <4>1. Has(k)' /\ k # nn /\ \E i \in DOMAIN taken' : taken'[i].name = k
        BY <3>1, <2>5, <2>8 DEF ThreadInv, MovedInv
      <4>2. thread[u].pc \in Describing => Collision(k)' \/ \A x \in q' : x.name = k => x.from = r \/ x.file = NULL
        <5> SUFFICES ASSUME thread[u].pc \in Describing
                     PROVE  Collision(k)' \/ \A x \in q' : x.name = k => x.from = r \/ x.file = NULL
          OBVIOUS
        <5>1. Collision(k) \/ \A x \in q : x.name = k => x.from = r \/ x.file = NULL
          BY <3>1 DEF ThreadInv, MovedInv
        <5>2. Collision(k) => Collision(k)'
          BY <3>1, <2>10
        <5>3. \A x \in q' : x.name = k => x \in q
          BY <4>1, <2>2, <2>4, <2>8
        <5> QED  BY <5>1, <5>2, <5>3
      <4> QED  BY <3>1, <4>1, <4>2 DEF MovedInv
    <3>5. ResultInv(u)' /\ CopyingInv(u)'
      BY <1>1, <3>1 DEF ThreadInv, ResultInv, CopyingInv, PlaceInv, Gone
    <3> QED  BY <3>2, <3>3, <3>4, <3>5 DEF ThreadInv
  <2>14. \A i \in DOMAIN taken : Has(taken[i].name)
    BY <1>1 DEF IInv, Kept, Collision, Has
  <2>15. NumberInv'
    <3>1. \A k : Has(k)' <=> k \in 1..Cardinality(q')
      <4>1. \A k : k \in 1..Cardinality(q) + 1 <=> k \in 1..Cardinality(q) \/ k = Cardinality(q) + 1
        BY <2>1
      <4> QED  BY <4>1, <1>1, <2>4, <2>8 DEF IInv, NumberInv, n
    <3>2. \A u \in Threads : thread'[u].pc \in Numbered /\ u # t =>
             /\ Has(thread'[u].name) /\ thread'[u] = thread[u]
      BY <1>1, <2>7 DEF IInv, NumberInv
    <3>3. \A u \in Threads : thread'[u].pc \in Numbered => Has(thread[u].name)'
      BY <3>2, <2>4, <2>6, <2>7, <2>8
    <3>4. \A u, v \in Threads :
             thread'[u].pc \in Numbered /\ thread'[v].pc \in Numbered /\ u # v
                => thread'[u].name # thread'[v].name
      BY <1>1, <3>2, <2>4, <2>5, <2>6, <2>7 DEF IInv, NumberInv
    <3>5. \A u \in Threads : thread'[u].pc \in {"stat", "move"} =>
             \A i \in DOMAIN taken' : taken'[i].name # thread'[u].name
      BY <1>1, <2>4, <2>5, <2>6, <2>7, <2>14 DEF IInv, NumberInv
    <3> QED  BY <3>1, <3>3, <3>4, <3>5 DEF NumberInv
  <2>16. Kept' /\ OnlyMalware'
    <3>1. Kept'
      <4> SUFFICES ASSUME NEW i \in DOMAIN taken
                   PROVE  \E x \in q' : x.name = taken[i].name /\ x.file = taken[i].file
        BY DEF Kept
      <4>1. \E x \in q : x.name = taken[i].name /\ x.file = taken[i].file
        BY <1>1 DEF IInv, Kept, Collision
      <4> QED  BY <4>1, <2>8, <2>9
    <3>2. OnlyMalware'
      BY DEF IInv, OnlyMalware
    <3> QED  BY <3>1, <3>2
  <2>17. DescribedInv'
    <3> SUFFICES ASSUME NEW x \in q', x.file # NULL, x.info # x.from
                 PROVE  \/ x.name \in spoiled \/ Collision(x.name)'
                        \/ \E u \in Threads : thread'[u].pc \in Describing /\ thread'[u].name = x.name
      BY DEF DescribedInv
    <3>1. x \in q
      BY <2>2, <2>8
    <3>2. \/ x.name \in spoiled \/ Collision(x.name)
          \/ \E u \in Threads : thread[u].pc \in Describing /\ thread[u].name = x.name
      BY <3>1 DEF IInv, DescribedInv
    <3>3. Collision(x.name)' <=> Collision(x.name)
      BY <2>10
    <3>4. \A u \in Threads : thread[u].pc \in Describing => thread'[u] = thread[u]
      BY <1>1, <2>7 DEF Describing
    <3> QED  BY <3>2, <3>3, <3>4
  <2> QED  BY <2>11, <2>12, <2>13, <2>15, <2>16, <2>17 DEF IInv
<1> QED  BY <1>2, <1>3

-------------------------------------------------------------------------------
(* Programs, the clock, and the end of the daemon.                         *)

\* Programs write new files and remove files.
LEMMA FilesChange ==
    ASSUME IInv, UNCHANGED <<os, enable, dir, q, clock, thread, taken, spoiled, left, broken>>,
           file' \in [Paths -> Files \cup {NULL}], written' \in Nat, written <= written',
           \A p \in Paths : \/ file'[p] = file[p] \/ file'[p] = NULL
                            \/ file'[p].id > written /\ file'[p].id <= written'
    PROVE  IInv'
<1>1. TypeInv /\ written \in Nat
  BY DEF IInv, TypeInv
<1>2. TypeInv'
  BY <1>1 DEF TypeInv
<1>3. FileInv'
  <2> SUFFICES ASSUME NEW p \in Paths, file'[p] # NULL PROVE file'[p].id <= written'
    BY DEF FileInv
  <2>1. CASE file'[p] = file[p]
    <3>1. file[p].id \in Nat /\ file[p].id <= written
      BY <2>1, <1>1 DEF IInv, TypeInv, FileInv, Files
    <3> QED  BY <2>1, <3>1, <1>1
  <2> QED  BY <2>1
<1>4. ASSUME NEW t \in Threads PROVE ThreadInv(t)'
  <2>1. ThreadInv(t)
    BY DEF IInv
  <2>2. SawInv(t)'
    <3> SUFFICES ASSUME thread[t].pc # "idle" PROVE SawInv(t)'
      BY DEF SawInv
    <3>1. /\ thread[t].path \in Paths /\ thread[t].saw \in Files /\ thread[t].saw.id \in Nat
          /\ thread[t].saw.id <= written
      BY <2>1 DEF ThreadInv, SawInv, Files
    <3>2. thread[t].saw.id <= written'
      BY <3>1, <1>1
    <3>3. file'[thread[t].path] # NULL => file'[thread[t].path].id \in Nat
      BY <3>1 DEF Files
    <3> QED  BY <2>1, <3>1, <3>2, <3>3, <1>1 DEF ThreadInv, SawInv
  <2>3. PlaceInv(t)' /\ MovedInv(t)' /\ CopyingInv(t)'
    BY <2>1 DEF ThreadInv, PlaceInv, MovedInv, CopyingInv, Has, Collision
  <2>4. thread[t].pc # "idle" /\ Gone(t) => Gone(t)'
    <3> SUFFICES ASSUME thread[t].pc # "idle", Gone(t) PROVE Gone(t)'
      OBVIOUS
    <3>1. /\ thread[t].path \in Paths /\ thread[t].saw.id \in Nat /\ thread[t].saw # NULL
          /\ thread[t].saw.id <= written
      BY <2>1 DEF ThreadInv, SawInv, Files
    <3> QED  BY <3>1, <1>1 DEF Gone
  <2>5. ResultInv(t)'
    BY <2>1, <2>4 DEF ThreadInv, ResultInv, Moved, Describing
  <2> QED  BY <2>2, <2>3, <2>5 DEF ThreadInv
<1>5. NumberInv'
  BY DEF IInv, NumberInv, Has
<1>6. Kept' /\ OnlyMalware' /\ DescribedInv'
  <2>1. Copied' = Copied
    BY DEF Copied
  <2>2. Kept'
    BY <2>1 DEF IInv, Kept, Collision
  <2>3. OnlyMalware' /\ DescribedInv'
    BY DEF IInv, OnlyMalware, DescribedInv, Collision
  <2> QED  BY <2>2, <2>3
<1> QED  BY <1>2, <1>3, <1>4, <1>5, <1>6 DEF IInv

LEMMA WriteKeeps ==
    ASSUME IInv, NEW p \in Paths, Write(p)
    PROVE  IInv'
<1> USE DEF Write, cVars, hVars
<1>1. written \in Nat /\ file \in [Paths -> Files \cup {NULL}] /\ written' = written + 1
  BY DEF IInv, TypeInv
<1>2. PICK st \in Statuses : file' = [file EXCEPT ![p] = [id |-> written + 1, status |-> st]]
  OBVIOUS
<1> DEFINE f == [id |-> written + 1, status |-> st]
<1>3. f \in Files /\ f.id = written + 1
  BY <1>1 DEF Files
<1> HIDE DEF f
<1>4. /\ file' \in [Paths -> Files \cup {NULL}]
      /\ \A x \in Paths : file'[x] = file[x] \/ file'[x].id = written + 1
  BY <1>1, <1>2, <1>3 DEF f
<1>5. \A x \in Paths : \/ file'[x] = file[x] \/ file'[x] = NULL
                       \/ file'[x].id > written /\ file'[x].id <= written'
  BY <1>1, <1>4
<1> QED  BY <1>1, <1>4, <1>5, FilesChange

LEMMA RemoveKeeps ==
    ASSUME IInv, NEW p \in Paths, Remove(p)
    PROVE  IInv'
<1> USE DEF Remove, cVars, hVars
<1>1. written \in Nat /\ file \in [Paths -> Files \cup {NULL}]
  BY DEF IInv, TypeInv
<1>2. /\ file' \in [Paths -> Files \cup {NULL}]
      /\ \A x \in Paths : file'[x] = file[x] \/ file'[x] = NULL
  BY <1>1
<1> QED  BY <1>1, <1>2, FilesChange

\* A step that changes none of this.
LEMMA NothingChanges ==
    ASSUME IInv, UNCHANGED <<os, enable, dir, file, written, q, thread, taken, spoiled, left, broken>>, clock' \in Nat
    PROVE  IInv'
<1>1. TypeInv' /\ FileInv'
  BY DEF IInv, TypeInv, FileInv
<1>2. \A t \in Threads : ThreadInv(t)'
  BY DEF IInv, ThreadInv, SawInv, PlaceInv, MovedInv, CopyingInv, ResultInv, Gone, Has, Collision
<1>3. NumberInv'
  BY DEF IInv, NumberInv, Has
<1>4. Kept' /\ OnlyMalware' /\ DescribedInv'
  <2>1. Copied' = Copied
    BY DEF Copied
  <2>2. Kept'
    BY <2>1 DEF IInv, Kept, Collision
  <2>3. OnlyMalware' /\ DescribedInv'
    BY DEF IInv, OnlyMalware, DescribedInv, Collision
  <2> QED  BY <2>2, <2>3
<1> QED  BY <1>1, <1>2, <1>3, <1>4 DEF IInv

\* The daemon ends: what was not described is spoiled.
LEMMA StoppedKeeps ==
    ASSUME IInv, Stopped
    PROVE  IInv'
<1> USE DEF Stopped, cVars, fVars
<1>1. Idle \in ThreadStates /\ Idle.pc = "idle"
  BY DEF Idle, ThreadStates, Steps
<1>2. thread' \in [Threads -> ThreadStates] /\ \A t \in Threads : thread'[t].pc = "idle"
  BY <1>1
<1>3. TypeInv' /\ FileInv'
  BY <1>2 DEF IInv, TypeInv, FileInv
<1>4. \A t \in Threads : ThreadInv(t)'
  BY <1>2 DEF ThreadInv, SawInv, PlaceInv, MovedInv, CopyingInv, ResultInv, Naming, Moved, Describing
<1>5. NumberInv'
  BY <1>2 DEF IInv, NumberInv, Numbered, Has
<1>6. Kept' /\ OnlyMalware'
  BY DEF IInv, Kept, OnlyMalware, Collision
<1>7. DescribedInv'
  <2>1. \A t \in Threads : thread[t].pc \in Describing => thread[t].name \in Busy
    BY NamesAssumption DEF IInv, ThreadInv, PlaceInv, Naming, Describing, Busy
  <2>2. \A n : Collision(n)' <=> Collision(n)
    BY SameCollision
  <2> QED  BY <2>1, <2>2 DEF IInv, DescribedInv
<1> QED  BY <1>3, <1>4, <1>5, <1>6, <1>7 DEF IInv

-------------------------------------------------------------------------------
(* The theorems.                                                           *)

LEMMA InitIInv == Init => IInv
<1> SUFFICES ASSUME Init PROVE IInv
  OBVIOUS
<1> USE DEF Init
<1>1. Idle \in ThreadStates /\ Idle.pc = "idle"
  BY DEF Idle, ThreadStates, Steps
<1>2. thread \in [Threads -> ThreadStates] /\ \A t \in Threads : thread[t].pc = "idle"
  BY <1>1
<1>3. TypeInv
  <2>1. taken \in Seq(Moves)
    BY EmptySeq
  <2>2. IsFiniteSet(q)
    BY FS_EmptySet
  <2> QED  BY <2>1, <2>2, <1>2 DEF TypeInv
<1>4. FileInv /\ \A t \in Threads : ThreadInv(t)
  BY <1>2 DEF FileInv, ThreadInv, SawInv, PlaceInv, MovedInv, CopyingInv, ResultInv, Naming, Moved, Describing
<1>5. NumberInv
  <2>1. Cardinality(q) = 0 /\ \A n : ~Has(n)
    BY FS_EmptySet DEF Has
  <2> QED  BY <2>1, <1>2 DEF NumberInv, Numbered
<1>6. Kept /\ OnlyMalware /\ DescribedInv
  <2>1. DOMAIN taken = {}
    BY EmptySeq, LenProperties
  <2> QED  BY <2>1 DEF Kept, OnlyMalware, DescribedInv
<1> QED  BY <1>3, <1>4, <1>5, <1>6 DEF IInv

LEMMA NextIInv == ASSUME IInv, [Next]_vars PROVE IInv'
<1>1. ASSUME NEW p \in Paths, Write(p) \/ Remove(p) PROVE IInv'
  BY <1>1, WriteKeeps, RemoveKeeps
<1>2. CASE Tick
  <2>1. clock' \in Nat
    BY <1>2 DEF Tick, IInv, TypeInv
  <2> QED  BY <1>2, <2>1, NothingChanges DEF Tick, cVars, fVars, hVars
<1>3. CASE Stop
  BY <1>3, StoppedKeeps DEF Stop
<1>4. ASSUME NEW t \in Threads, NEW p \in Paths, Scan(t, p) PROVE IInv'
  BY <1>4, ScanKeeps
<1>5. ASSUME NEW t \in Threads, quarantine_callback(t) \/ action_flag(t) PROVE IInv'
  BY <1>5, CallbackKeeps, ActionFlagKeeps
<1>6. ASSUME NEW t \in Threads, rename(t) PROVE IInv'
  <2> USE <1>6 DEF rename, cVars
  <2>1. CASE Move(t, "chmod")
    BY <2>1, MoveKeeps
  <2>2. CASE Ends(t, 1) /\ UNCHANGED <<file, q, taken>>
    BY <2>2, FailKeeps
  <2> QED  BY <2>1, <2>2
<1>7. ASSUME NEW t \in Threads, MoveFileEx(t) PROVE IInv'
  <2> USE <1>7 DEF MoveFileEx, cVars
  <2>1. CASE Move(t, "create")
    BY <2>1, MoveKeeps
  <2>2. CASE BeginCopy(t) /\ UNCHANGED <<file, taken>>
    BY <2>2, BeginCopyKeeps
  <2>3. CASE Ends(t, 4) /\ UNCHANGED <<file, q, taken>>
    BY <2>3, FailKeeps
  <2> QED  BY <2>1, <2>2, <2>3
<1>8. ASSUME NEW t \in Threads, Linux(t) PROVE IInv'
  BY <1>6, <1>8, MkstempKeeps, StoppedKeeps, StatKeeps, ChmodKeeps, InfoFileKeeps
     DEF Linux, strlen_null
<1>9. ASSUME NEW t \in Threads, Windows(t) PROVE IInv'
  BY <1>7, <1>9, BuildKeeps, CreateAvDirectoryKeeps, CopyEndsKeeps, DeleteSourceKeeps, CreateFileKeeps, WriteFileKeeps, CopyFileKeeps
     DEF Windows
<1>10. CASE UNCHANGED vars
  <2>1. clock' \in Nat
    BY <1>10 DEF vars, IInv, TypeInv
  <2> QED  BY <1>10, <2>1, NothingChanges DEF vars, cVars, fVars, hVars
<1> QED  BY <1>1, <1>2, <1>3, <1>4, <1>5, <1>8, <1>9, <1>10 DEF Next

\* The inductive invariant of the quarantine holds in every state, whatever fails or stops.
THEOREM Invariance == Spec => []IInv
BY InitIInv, NextIInv, PTL DEF Spec

(* What quarantine_do moved stays in the quarantine, on both systems, and  *)
(* what is there was malware or took the place of malware: for any number  *)
(* of threads, whatever fails, and wherever the daemon stops.  The only    *)
(* file that is lost is one whose name, of a resolution of a second on     *)
(* Windows, was given again, or over which a copy from another volume      *)
(* failed.                                                                 *)
THEOREM NothingIsLost == Spec => []QuarantineHolds
<1>1. IInv => QuarantineHolds
  <2> SUFFICES ASSUME IInv PROVE QuarantineHolds
    OBVIOUS
  <2>1. /\ \A e, x \in q : e.name = x.name => e = x
        /\ \A e \in q : e.mode \in {"open", "0"} /\ e.info \in Paths \cup {NULL, "empty"} /\ e.from \in Paths \cup {NULL}
    BY DEF IInv, TypeInv, EntryStates
  <2>2. \A t \in Threads :
           /\ thread[t].pc \in Steps
           /\ thread[t].ret \in 0..5
    BY DEF IInv, TypeInv, ThreadStates
  <2>3. \A t \in Threads :
           thread[t].pc \in {"copying", "delete", "chmod", "info", "create", "write", "copy"} => Has(thread[t].name)
    BY DEF IInv, ThreadInv, MovedInv, CopyingInv, Moved, Describing
  <2> QED  BY <2>1, <2>2, <2>3 DEF QuarantineHolds, TypeOK, IInv, Steps
<1> QED  BY <1>1, Invariance, PTL

(* A file in the quarantine can be restored: its info file has the path it *)
(* was taken from, unless its thread is still at work, a step failed, the  *)
(* daemon stopped, or two files have the name.                             *)
THEOREM FilesAreDescribed == Spec => []WellDescribed
<1>1. IInv => WellDescribed
  <2> SUFFICES ASSUME IInv, NEW e \in q, e.file # NULL, e.info # e.from
               PROVE  e.name \in Busy \cup spoiled \/ Collision(e.name)
    BY DEF WellDescribed
  <2>1. \A t \in Threads : thread[t].pc \in Describing => thread[t].name \in Busy
    BY NamesAssumption DEF IInv, ThreadInv, PlaceInv, Naming, Describing, Busy
  <2> QED  BY <2>1 DEF IInv, DescribedInv
<1> QED  BY <1>1, Invariance, PTL

(* The action the report tells of: if it says that the file is in the      *)
(* quarantine, the file that was scanned is not at its path, unless stat   *)
(* failed on it or a copy to another volume could not delete it; if it     *)
(* does not, nothing was moved, but for the info file of Windows.          *)
THEOREM ReportTellsAction == Spec => []ActionTells
<1>1. IInv => ActionTells
  BY DEF IInv, ThreadInv, ResultInv, Gone, ActionTells
<1> QED  BY <1>1, Invariance, PTL
===============================================================================
