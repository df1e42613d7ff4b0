---------------------------- MODULE OnDemandProofs ----------------------------
(***************************************************************************)
(* Proofs about the on-demand scan, for any tree, any verdicts, any flags  *)
(* and any number of threads.                                              *)
(***************************************************************************)
EXTENDS OnDemand, FiniteSetTheorems, SequenceTheorems, TLAPS

PlaceSeqs == Seq(Nat \ {0})

(***************************************************************************)
(* The walks.  Entries are visited in the order of their places: f comes   *)
(* before p if it is smaller where they first differ.  What a walk that is *)
(* at p has behind it are the files it can find that come before p; when   *)
(* it is at <<>>, it has ended and all of them are.                        *)
(***************************************************************************)
ComesBefore(f, p) ==
    \E k \in 1..Len(p) : k <= Len(f) /\ f[k] < p[k] /\ \A i \in 1..k - 1 : f[i] = p[i]

Behind(f, p) == p = <<>> \/ ComesBefore(f, p)

\* f is p or lies below it.
Under(f, p) == Len(p) <= Len(f) /\ \A i \in 1..Len(p) : f[i] = p[i]

ScanStops == {"ioerror"} \cup (IF flags.recurse THEN {"unreadable"} ELSE {})
CountStops == {"ioerror"}

\* The input is a tree.
TreeInv == IsTree(kind) /\ kind[<<>>] \notin {"ioerror", "nopath"}

\* A walk is at a place it could find.
PosInv ==
    /\ pc = "new" => /\ counter = "none" /\ count = 0 /\ to_scan_count = 0
                      /\ pos["scan"] = <<>> /\ pos["count"] = <<>>
    /\ pc \in {"completed", "returned"} => pos["scan"] = <<>>
    /\ pos["scan"] # <<>> => Found(pos["scan"], ScanStops)
    /\ pos["count"] # <<>> => Found(pos["count"], CountStops)

\* The files that were handed over are those behind the scanning walk, and those that were
\* counted are behind the counting one.
HandedInv ==
    \A f \in Places :
        task[f].pc # "none" <=> pc # "new" /\ f \in ToScan /\ Behind(f, pos["scan"])

CountInv ==
    /\ counter = "walk" => count = Cardinality({f \in ToCount : Behind(f, pos["count"])})
    /\ counter = "done" => to_scan_count = Cardinality(ToCount)
    /\ to_scan_count # 0 => to_scan_count = Cardinality(ToCount)

(***************************************************************************)
(* The tasks.  Each shared counter is the number of the files that are     *)
(* past the increment; what a progress event read is no more than the      *)
(* counters are now; and a progress of 100 is computed only when all       *)
(* files are counted.                                                      *)
(***************************************************************************)
PastScan == {f \in Places : task[f].pc \notin {"none", "queued", "scan"}}
Counted == {f \in PastScan : task[f].pc # "scanned"}
Classified == {f \in Counted : task[f].pc # "classify"}
Classed(v) == {f \in Classified : kind[f] = v}

CountersInv ==
    /\ detections = {f \in PastScan : kind[f] \in Detected}
    /\ scanned_count = Cardinality(Counted)
    /\ malware_count = Cardinality(Classed("MALWARE"))
    /\ suspicious_count = Cardinality(Classed("SUSPICIOUS"))

ReadInv ==
    \A f \in Places :
        /\ task[f].pc = "suspicious" => task[f].malware <= malware_count
        /\ task[f].pc = "fire" =>
              task[f].malware <= malware_count /\ task[f].suspicious <= suspicious_count

AllCounted == ToCount \subseteq Counted

HundredInv ==
    /\ \A f \in Places : task[f].progress = 100 => AllCounted
    /\ shown.progress = 100 => AllCounted

\* The end.
EndInv ==
    pc \in {"completed", "returned"} =>
        /\ \A f \in Places : ~Live(f)
        /\ completed.scanned = scanned_count /\ completed.malware = malware_count
        /\ completed.suspicious = suspicious_count
        /\ pc = "returned" => counter # "walk"

IInv ==
    /\ TypeOK /\ TreeInv /\ PosInv /\ HandedInv /\ CountInv
    /\ CountersInv /\ ReadInv /\ ShownConsistent /\ HundredInv /\ EndInv

----------------------------------------------------------------------------
(* Places.                                                                 *)

Prefix(p, k) == SubSeq(p, 1, k)
Sibling(p, k, i) == [Prefix(p, k) EXCEPT ![k] = i]

LEMMA PlaceProps ==
    ASSUME NEW p \in PlaceSeqs
    PROVE  /\ Len(p) \in Nat /\ DOMAIN p = 1..Len(p)
           /\ \A i \in 1..Len(p) : p[i] \in Nat /\ p[i] > 0
           /\ p = <<>> <=> Len(p) = 0
<1>1. Len(p) \in Nat /\ p \in [1..Len(p) -> Nat \ {0}]
  BY LenProperties DEF PlaceSeqs
<1>2. p = <<>> <=> Len(p) = 0
  BY EmptySeq DEF PlaceSeqs
<1> QED  BY <1>1, <1>2

LEMMA PlaceEqual ==
    ASSUME NEW p \in PlaceSeqs, NEW r \in PlaceSeqs, Len(p) = Len(r), \A i \in 1..Len(p) : p[i] = r[i]
    PROVE  p = r
BY SeqEqual DEF PlaceSeqs

LEMMA PrefixProps ==
    ASSUME NEW p \in PlaceSeqs, NEW k \in 0..Len(p)
    PROVE  /\ Prefix(p, k) \in PlaceSeqs /\ Len(Prefix(p, k)) = k
           /\ \A i \in 1..k : Prefix(p, k)[i] = p[i]
<1>1. Len(p) \in Nat /\ \A i \in 1..k : p[i] \in Nat \ {0}
  BY PlaceProps
<1>2. /\ SubSeq(p, 1, k) \in Seq(Nat \ {0})
      /\ Len(SubSeq(p, 1, k)) = IF 1 <= k THEN k - 1 + 1 ELSE 0
      /\ \A i \in 1..k - 1 + 1 : SubSeq(p, 1, k)[i] = p[1 + i - 1]
  BY <1>1, SubSeqProperties
<1> QED  BY <1>1, <1>2 DEF Prefix, PlaceSeqs

LEMMA SiblingProps ==
    ASSUME NEW p \in PlaceSeqs, NEW k \in 1..Len(p), NEW i \in Nat \ {0}
    PROVE  /\ Sibling(p, k, i) \in PlaceSeqs /\ Len(Sibling(p, k, i)) = k
           /\ Sibling(p, k, i)[k] = i
           /\ \A j \in 1..k - 1 : Sibling(p, k, i)[j] = p[j]
<1> DEFINE r == Prefix(p, k)
<1>1. Len(p) \in Nat /\ k \in 1..k /\ k \in 0..Len(p)
  BY PlaceProps
<1>2. r \in PlaceSeqs /\ Len(r) = k /\ \A j \in 1..k : r[j] = p[j]
  BY <1>1, PrefixProps
<1> HIDE DEF r
<1>3. /\ [r EXCEPT ![k] = i] \in Seq(Nat \ {0})
      /\ Len([r EXCEPT ![k] = i]) = Len(r)
      /\ \A j \in 1..Len(r) : [r EXCEPT ![k] = i][j] = IF j = k THEN i ELSE r[j]
  BY <1>1, <1>2, ExceptSeq DEF PlaceSeqs
<1>4. Sibling(p, k, i) = [r EXCEPT ![k] = i]
  BY DEF Sibling, r
<1> QED  BY <1>1, <1>2, <1>3, <1>4 DEF PlaceSeqs

\* Prefixes and siblings of places that agree so far.
LEMMA SamePrefix ==
    ASSUME NEW p \in PlaceSeqs, NEW r \in PlaceSeqs, NEW k \in Nat, k <= Len(p), k <= Len(r),
           \A i \in 1..k : p[i] = r[i]
    PROVE  Prefix(p, k) = Prefix(r, k)
<1>1. Len(p) \in Nat /\ Len(r) \in Nat /\ k \in 0..Len(p) /\ k \in 0..Len(r)
  BY PlaceProps
<1> QED  BY <1>1, PrefixProps, PlaceEqual

LEMMA SameSibling ==
    ASSUME NEW p \in PlaceSeqs, NEW r \in PlaceSeqs, NEW k \in Nat \ {0}, k <= Len(p), k <= Len(r),
           \A i \in 1..k - 1 : p[i] = r[i], NEW n \in Nat \ {0}
    PROVE  Sibling(p, k, n) = Sibling(r, k, n)
<1>1. Len(p) \in Nat /\ Len(r) \in Nat /\ k \in 1..Len(p) /\ k \in 1..Len(r)
  BY PlaceProps
<1>2. \A j \in 1..k : j = k \/ j \in 1..k - 1
  OBVIOUS
<1>3. /\ Sibling(p, k, n) \in PlaceSeqs /\ Len(Sibling(p, k, n)) = k
      /\ Sibling(r, k, n) \in PlaceSeqs /\ Len(Sibling(r, k, n)) = k
      /\ \A j \in 1..k : Sibling(p, k, n)[j] = Sibling(r, k, n)[j]
  BY <1>1, <1>2, SiblingProps
<1> QED  BY <1>3, PlaceEqual

\* A place of length k is its own prefix, and its own sibling.
LEMMA OwnPrefix ==
    ASSUME NEW p \in PlaceSeqs
    PROVE  /\ Prefix(p, Len(p)) = p
           /\ \A r \in PlaceSeqs : Len(p) <= Len(r) /\ (\A i \in 1..Len(p) : p[i] = r[i])
                                      => Prefix(r, Len(p)) = p
<1>1. Len(p) \in Nat /\ Len(p) \in 0..Len(p)
  BY PlaceProps
<1>2. Prefix(p, Len(p)) = p
  BY <1>1, PrefixProps, PlaceEqual
<1> QED  BY <1>1, <1>2, SamePrefix

LEMMA OwnSibling ==
    ASSUME NEW p \in PlaceSeqs, p # <<>>, NEW r \in PlaceSeqs, Len(p) <= Len(r),
           \A i \in 1..Len(p) - 1 : p[i] = r[i]
    PROVE  Sibling(r, Len(p), p[Len(p)]) = p
<1>1. /\ Len(p) \in Nat /\ Len(r) \in Nat /\ Len(p) # 0 /\ Len(p) \in 1..Len(r)
      /\ p[Len(p)] \in Nat \ {0}
  BY PlaceProps
<1>2. \A j \in 1..Len(p) : j = Len(p) \/ j \in 1..Len(p) - 1
  BY <1>1
<1> DEFINE b == Sibling(r, Len(p), p[Len(p)])
<1>3. /\ b \in PlaceSeqs /\ Len(b) = Len(p) /\ b[Len(p)] = p[Len(p)]
      /\ \A j \in 1..Len(p) - 1 : b[j] = r[j]
  BY <1>1, SiblingProps
<1> HIDE DEF b
<1>4. \A j \in 1..Len(p) : b[j] = p[j]
  BY <1>2, <1>3
<1>5. b = p
  BY <1>3, <1>4, PlaceEqual
<1> QED  BY <1>5 DEF b

----------------------------------------------------------------------------
(* What a walk can find.                                                   *)

\* Found, place by place.
LEMMA FoundIs ==
    ASSUME NEW f \in PlaceSeqs, NEW stops
    PROVE  Found(f, stops) <=>
              /\ f # <<>> => kind[<<>>] = "dir"
              /\ Len(f) > 1 => flags.recurse
              /\ \A k \in 1..Len(f) - 1 : kind[Prefix(f, k)] = "dir"
              /\ \A k \in 1..Len(f) : \A i \in 1..f[k] - 1 : kind[Sibling(f, k, i)] \notin stops
<1>1. Len(f) \in Nat /\ \A k \in 1..Len(f) : k \in 0..Len(f) /\ f[k] \in Nat
  BY PlaceProps
<1>2. Path(f) = {Prefix(f, k) : k \in 1..Len(f)}
  BY DEF Path, Prefix
<1>3. \A k \in 1..Len(f) : Len(Prefix(f, k)) = k /\ Prefix(f, k)[k] = f[k]
  BY <1>1, PrefixProps
<1>4. \A k \in 1..Len(f) : Before(Prefix(f, k)) = {Sibling(f, k, i) : i \in 1..f[k] - 1}
  BY <1>3 DEF Before, Sibling
<1>5. \A k \in 1..Len(f) : Prefix(f, k) # f <=> k \in 1..Len(f) - 1
  <2> TAKE k \in 1..Len(f)
  <2>1. CASE k = Len(f)
    BY <2>1, <1>1, OwnPrefix
  <2>2. CASE k # Len(f)
    BY <2>2, <1>1, <1>3
  <2> QED  BY <2>1, <2>2
<1>6. \A k \in 1..Len(f) - 1 : k \in 1..Len(f)
  BY <1>1
<1>7. (\A p \in Path(f) : /\ p # f => kind[p] = "dir"
                          /\ \A b \in Before(p) : kind[b] \notin stops)
      <=> /\ \A k \in 1..Len(f) - 1 : kind[Prefix(f, k)] = "dir"
          /\ \A k \in 1..Len(f) : \A i \in 1..f[k] - 1 : kind[Sibling(f, k, i)] \notin stops
  <2>1. ASSUME \A p \in Path(f) : /\ p # f => kind[p] = "dir"
                                  /\ \A b \in Before(p) : kind[b] \notin stops
        PROVE  /\ \A k \in 1..Len(f) - 1 : kind[Prefix(f, k)] = "dir"
               /\ \A k \in 1..Len(f) : \A i \in 1..f[k] - 1 : kind[Sibling(f, k, i)] \notin stops
    BY <2>1, <1>2, <1>4, <1>5, <1>6
  <2>2. ASSUME \A k \in 1..Len(f) - 1 : kind[Prefix(f, k)] = "dir",
               \A k \in 1..Len(f) : \A i \in 1..f[k] - 1 : kind[Sibling(f, k, i)] \notin stops
        PROVE  \A p \in Path(f) : /\ p # f => kind[p] = "dir"
                                  /\ \A b \in Before(p) : kind[b] \notin stops
    BY <2>2, <1>2, <1>4, <1>5
  <2> QED  BY <2>1, <2>2
<1> QED  BY <1>7 DEF Found

\* In a tree, with an entry its prefixes are entries, and the entries before those.
LEMMA TreeIs ==
    ASSUME TypeOK, TreeInv, NEW f \in Nodes, NEW k \in 1..Len(f)
    PROVE  /\ f \in PlaceSeqs /\ Prefix(f, k) \in Nodes
           /\ \A i \in 1..f[k] : Sibling(f, k, i) \in Nodes
<1>1. f \in PlaceSeqs /\ Len(f) \in Nat /\ f # <<>>
  BY PlacesAssumption, PlaceProps DEF Nodes, Entries, PlaceSeqs
<1>2. \A j \in 0..Len(f) - 1 : Prefix(f, j) \in Nodes
  BY <1>1 DEF TreeInv, IsTree, Nodes, Prefix
<1>3. Prefix(f, k) \in Nodes
  <2>1. CASE k = Len(f)
    BY <2>1, <1>1, OwnPrefix
  <2>2. CASE k # Len(f)
    BY <2>2, <1>1, <1>2
  <2> QED  BY <2>1, <2>2
<1>4. Prefix(f, k) \in PlaceSeqs /\ Len(Prefix(f, k)) = k /\ Prefix(f, k)[k] = f[k]
  BY <1>1, PrefixProps
<1>5. Prefix(f, k) # <<>>
  BY <1>4, PlaceProps
<1>6. \A i \in 1..f[k] : [Prefix(f, k) EXCEPT ![k] = i] \in Nodes
  BY <1>3, <1>4, <1>5 DEF TreeInv, IsTree, Nodes
<1> QED  BY <1>1, <1>3, <1>6 DEF Sibling

\* Where the loop over a directory ends early or is at its end, nothing is left in it.
LEMMA NothingBeyond ==
    ASSUME TypeOK, TreeInv, NEW stops, "dir" \notin stops, stops \cap PlainKinds = {},
           NEW p \in PlaceSeqs, p # <<>>, Found(p, stops), p \notin Nodes \/ kind[p] \in stops,
           NEW f \in Plain, Found(f, stops),
           Len(p) - 1 <= Len(f), \A i \in 1..Len(p) - 1 : f[i] = p[i]
    PROVE  Len(p) <= Len(f) /\ f[Len(p)] < p[Len(p)]
<1> DEFINE n == Len(p)
<1>1. n \in Nat /\ n > 0 /\ p[n] \in Nat /\ p[n] > 0
  BY PlaceProps
<1>2. f \in PlaceSeqs /\ Len(f) \in Nat /\ f \in Nodes /\ kind[f] \in PlainKinds
  BY PlacesAssumption, PlaceProps DEF Plain, IsPlain, Nodes, Entries, PlaceSeqs
<1>3. /\ kind[<<>>] = "dir" /\ \A k \in 1..n - 1 : kind[Prefix(p, k)] = "dir"
  BY FoundIs
<1>4. /\ \A k \in 1..Len(f) - 1 : kind[Prefix(f, k)] = "dir"
      /\ \A k \in 1..Len(f) : \A i \in 1..f[k] - 1 : kind[Sibling(f, k, i)] \notin stops
  BY <1>2, FoundIs
<1>5. "dir" \notin PlainKinds
  BY VerdictsAssumption DEF PlainKinds, FileStatuses, RankedStatus, UnrankedStatus
<1>6. n <= Len(f)
  <2> SUFFICES ASSUME Len(f) = n - 1 PROVE FALSE
    BY <1>1, <1>2
  <2>1. CASE n = 1
    BY <2>1, <1>2, <1>3, <1>5, PlaceProps
  <2>2. CASE n # 1
    <3>1. Prefix(p, Len(f)) = f
      BY <1>1, <1>2, OwnPrefix
    <3> QED  BY <2>2, <3>1, <1>1, <1>2, <1>3, <1>5
  <2> QED  BY <2>1, <2>2
<1>7. n \in 1..Len(f) /\ f[n] \in Nat /\ f[n] > 0
  BY <1>1, <1>2, <1>6, PlaceProps
<1>8. Prefix(f, n) \in Nodes /\ \A i \in 1..f[n] : Sibling(f, n, i) \in Nodes
  BY <1>2, <1>7, TreeIs
<1>9. Sibling(f, n, p[n]) = p
  BY <1>2, <1>6, OwnSibling
<1>10. ASSUME f[n] = p[n] PROVE FALSE
  <2>1. p \in Nodes
    BY <1>8, <1>9, <1>10, <1>7
  <2>2. Prefix(f, n) = p
    <3>1. \A i \in 1..n : p[i] = f[i]
      BY <1>10, <1>1
    <3> QED  BY <3>1, <1>2, <1>6, OwnPrefix
  <2>3. CASE n = Len(f)
    BY <2>1, <2>2, <2>3, <1>2, OwnPrefix
  <2>4. CASE n # Len(f)
    BY <2>1, <2>2, <2>4, <1>4, <1>7, <1>2
  <2> QED  BY <2>3, <2>4
<1>11. ASSUME f[n] > p[n] PROVE FALSE
  <2>1. p[n] \in 1..f[n] - 1 /\ p[n] \in 1..f[n]
    BY <1>1, <1>7, <1>11
  <2>2. p \in Nodes /\ kind[p] \notin stops
    BY <2>1, <1>4, <1>7, <1>8, <1>9
  <2> QED  BY <2>2
<1> QED  BY <1>1, <1>6, <1>7, <1>10, <1>11

\* Below an entry that is not entered there is nothing either.
LEMMA NothingUnder ==
    ASSUME NEW stops, NEW p \in PlaceSeqs, p # <<>>, ~(kind[p] = "dir" /\ flags.recurse),
           NEW f \in PlaceSeqs, Found(f, stops), Under(f, p)
    PROVE  f = p
<1>1. Len(p) \in Nat /\ Len(f) \in Nat /\ Len(p) > 0 /\ Len(p) <= Len(f)
  BY PlaceProps DEF Under
<1>2. Prefix(f, Len(p)) = p
  BY OwnPrefix DEF Under
<1>3. CASE Len(p) = Len(f)
  BY <1>2, <1>3, OwnPrefix
<1>4. CASE Len(p) < Len(f)
  <2>1. Len(f) > 1 /\ Len(p) \in 1..Len(f) - 1
    BY <1>1, <1>4
  <2> QED  BY <2>1, <1>2, FoundIs
<1> QED  BY <1>1, <1>3, <1>4

----------------------------------------------------------------------------
(* The order of the walk.                                                  *)

LEMMA AfterProps ==
    ASSUME NEW p \in PlaceSeqs, p # <<>>
    PROVE  /\ After(p) \in PlaceSeqs /\ Len(After(p)) = Len(p) /\ After(p) # <<>>
           /\ After(p)[Len(p)] = p[Len(p)] + 1
           /\ \A j \in 1..Len(p) - 1 : After(p)[j] = p[j]
<1>1. Len(p) \in Nat /\ Len(p) # 0 /\ Len(p) \in 1..Len(p) /\ p[Len(p)] + 1 \in Nat \ {0}
  BY PlaceProps
<1>2. After(p) = [p EXCEPT ![Len(p)] = p[Len(p)] + 1]
  BY DEF After
<1>3. /\ After(p) \in Seq(Nat \ {0}) /\ Len(After(p)) = Len(p)
      /\ \A j \in 1..Len(p) : After(p)[j] = IF j = Len(p) THEN p[Len(p)] + 1 ELSE p[j]
  BY <1>1, <1>2, ExceptSeq DEF PlaceSeqs
<1>4. After(p) # <<>>
  BY <1>1, <1>3, PlaceProps DEF PlaceSeqs
<1> QED  BY <1>1, <1>3, <1>4 DEF PlaceSeqs

LEMMA InProps ==
    ASSUME NEW p \in PlaceSeqs
    PROVE  /\ Append(p, 1) \in PlaceSeqs /\ Len(Append(p, 1)) = Len(p) + 1
           /\ Append(p, 1) # <<>> /\ Append(p, 1)[Len(p) + 1] = 1
           /\ \A j \in 1..Len(p) : Append(p, 1)[j] = p[j]
<1>1. Len(p) \in Nat
  BY PlaceProps
<1>2. /\ Append(p, 1) \in Seq(Nat \ {0}) /\ Len(Append(p, 1)) = Len(p) + 1
      /\ \A j \in 1..Len(p) : Append(p, 1)[j] = p[j]
      /\ Append(p, 1)[Len(p) + 1] = 1
  BY AppendProperties DEF PlaceSeqs
<1>3. Append(p, 1) # <<>>
  BY <1>1, <1>2, PlaceProps DEF PlaceSeqs
<1> QED  BY <1>2, <1>3 DEF PlaceSeqs

\* Behind the next entry is what was behind p, p itself and what lies below it.
LEMMA BehindAfter ==
    ASSUME NEW p \in PlaceSeqs, p # <<>>, NEW f \in PlaceSeqs
    PROVE  ComesBefore(f, After(p)) <=> ComesBefore(f, p) \/ Under(f, p)
<1> DEFINE n == Len(p)
<1>1. /\ n \in Nat /\ n > 0 /\ Len(f) \in Nat /\ \A k \in 1..n : p[k] \in Nat
      /\ \A k \in 1..Len(f) : f[k] \in Nat
  BY PlaceProps
<1>2. /\ Len(After(p)) = n /\ After(p)[n] = p[n] + 1
      /\ \A j \in 1..n - 1 : After(p)[j] = p[j]
  BY AfterProps
<1>3. ASSUME ComesBefore(f, After(p)) PROVE ComesBefore(f, p) \/ Under(f, p)
  <2>1. PICK k \in 1..n : /\ k <= Len(f) /\ f[k] < After(p)[k]
                          /\ \A i \in 1..k - 1 : f[i] = After(p)[i]
    BY <1>2, <1>3 DEF ComesBefore
  <2>2. \A i \in 1..k - 1 : f[i] = p[i]
    BY <2>1, <1>1, <1>2
  <2>3. CASE f[k] < p[k]
    BY <2>1, <2>2, <2>3 DEF ComesBefore
  <2>4. CASE ~(f[k] < p[k])
    <3>1. k = n /\ f[n] = p[n]
      BY <2>1, <2>4, <1>1, <1>2
    <3> QED  BY <3>1, <2>1, <2>2, <1>1 DEF Under
  <2> QED  BY <2>3, <2>4
<1>4. ASSUME ComesBefore(f, p) PROVE ComesBefore(f, After(p))
  <2>1. PICK k \in 1..n : /\ k <= Len(f) /\ f[k] < p[k]
                          /\ \A i \in 1..k - 1 : f[i] = p[i]
    BY <1>4 DEF ComesBefore
  <2>2. f[k] < After(p)[k] /\ \A i \in 1..k - 1 : f[i] = After(p)[i]
    BY <2>1, <1>1, <1>2
  <2> QED  BY <2>1, <2>2, <1>2 DEF ComesBefore
<1>5. ASSUME Under(f, p) PROVE ComesBefore(f, After(p))
  <2>1. /\ n \in 1..n /\ n <= Len(f) /\ f[n] < After(p)[n]
        /\ \A i \in 1..n - 1 : f[i] = After(p)[i]
    BY <1>5, <1>1, <1>2 DEF Under
  <2> QED  BY <2>1, <1>2 DEF ComesBefore
<1> QED  BY <1>3, <1>4, <1>5

\* Going into a directory leaves nothing behind.
LEMMA BehindIn ==
    ASSUME NEW p \in PlaceSeqs, NEW f \in PlaceSeqs
    PROVE  ComesBefore(f, Append(p, 1)) <=> ComesBefore(f, p)
<1> DEFINE n == Len(p)
<1>1. /\ n \in Nat /\ Len(f) \in Nat /\ \A k \in 1..Len(f) : f[k] \in Nat /\ f[k] > 0
  BY PlaceProps
<1>2. /\ Len(Append(p, 1)) = n + 1 /\ Append(p, 1)[n + 1] = 1
      /\ \A j \in 1..n : Append(p, 1)[j] = p[j]
  BY InProps
<1>3. ASSUME ComesBefore(f, Append(p, 1)) PROVE ComesBefore(f, p)
  <2>1. PICK k \in 1..n + 1 : /\ k <= Len(f) /\ f[k] < Append(p, 1)[k]
                              /\ \A i \in 1..k - 1 : f[i] = Append(p, 1)[i]
    BY <1>2, <1>3 DEF ComesBefore
  <2>2. k # n + 1
    BY <2>1, <1>1, <1>2
  <2>3. k \in 1..n /\ f[k] < p[k] /\ \A i \in 1..k - 1 : f[i] = p[i]
    BY <2>1, <2>2, <1>1, <1>2
  <2> QED  BY <2>1, <2>3 DEF ComesBefore
<1>4. ASSUME ComesBefore(f, p) PROVE ComesBefore(f, Append(p, 1))
  <2>1. PICK k \in 1..n : /\ k <= Len(f) /\ f[k] < p[k]
                          /\ \A i \in 1..k - 1 : f[i] = p[i]
    BY <1>4 DEF ComesBefore
  <2>2. k \in 1..n + 1 /\ f[k] < Append(p, 1)[k] /\ \A i \in 1..k - 1 : f[i] = Append(p, 1)[i]
    BY <2>1, <1>1, <1>2
  <2> QED  BY <2>1, <2>2, <1>2 DEF ComesBefore
<1> QED  BY <1>3, <1>4

LEMMA LeaveProps ==
    ASSUME NEW p \in PlaceSeqs, p # <<>>
    PROVE  /\ Leave(p) \in PlaceSeqs
           /\ Len(p) = 1 => Leave(p) = <<>>
           /\ Len(p) # 1 => /\ Leave(p) = After(Prefix(p, Len(p) - 1)) /\ Leave(p) # <<>>
                            /\ Prefix(p, Len(p) - 1) \in PlaceSeqs /\ Prefix(p, Len(p) - 1) # <<>>
<1>1. Len(p) \in Nat /\ Len(p) # 0 /\ Len(p) - 1 \in 0..Len(p)
  BY PlaceProps
<1>2. <<>> \in PlaceSeqs
  BY EmptySeq DEF PlaceSeqs
<1>3. CASE Len(p) = 1
  BY <1>2, <1>3 DEF Leave
<1>4. CASE Len(p) # 1
  <2>1. Prefix(p, Len(p) - 1) \in PlaceSeqs /\ Len(Prefix(p, Len(p) - 1)) = Len(p) - 1
    BY <1>1, PrefixProps
  <2>2. Prefix(p, Len(p) - 1) # <<>>
    BY <2>1, <1>1, <1>4, PlaceProps
  <2>3. Leave(p) = After(Prefix(p, Len(p) - 1))
    BY <1>4 DEF Leave, Prefix
  <2> QED  BY <2>1, <2>2, <2>3, <1>4, AfterProps
<1> QED  BY <1>3, <1>4

\* Leaving a directory that has nothing more for f leaves nothing behind.
LEMMA BehindLeave ==
    ASSUME NEW p \in PlaceSeqs, p # <<>>, NEW f \in PlaceSeqs,
           Len(p) - 1 <= Len(f) /\ (\A i \in 1..Len(p) - 1 : f[i] = p[i])
              => Len(p) <= Len(f) /\ f[Len(p)] < p[Len(p)]
    PROVE  Behind(f, Leave(p)) <=> ComesBefore(f, p)
<1> DEFINE n == Len(p)
<1>1. /\ n \in Nat /\ n > 0 /\ Len(f) \in Nat
  BY PlaceProps
<1>2. CASE n = 1
  <2>1. n <= Len(f) /\ f[n] < p[n] /\ \A i \in 1..n - 1 : f[i] = p[i]
    BY <1>1, <1>2
  <2>2. ComesBefore(f, p)
    BY <2>1, <1>1 DEF ComesBefore
  <2> QED  BY <2>2, <1>2, LeaveProps DEF Behind
<1>3. CASE n # 1
  <2> DEFINE q == Prefix(p, n - 1)
  <2>1. n - 1 \in 0..Len(p)
    BY <1>1
  <2>2. q \in PlaceSeqs /\ Len(q) = n - 1 /\ \A i \in 1..n - 1 : q[i] = p[i]
    BY <2>1, PrefixProps
  <2>3. Leave(p) = After(q) /\ Leave(p) # <<>> /\ q # <<>>
    BY <1>3, LeaveProps
  <2> HIDE DEF q
  <2>4. Behind(f, Leave(p)) <=> ComesBefore(f, q) \/ Under(f, q)
    BY <2>2, <2>3, BehindAfter DEF Behind
  <2>5. ASSUME ComesBefore(f, q) PROVE ComesBefore(f, p)
    <3>1. PICK k \in 1..n - 1 : k <= Len(f) /\ f[k] < q[k] /\ \A i \in 1..k - 1 : f[i] = q[i]
      BY <2>2, <2>5 DEF ComesBefore
    <3>2. k \in 1..n /\ f[k] < p[k] /\ \A i \in 1..k - 1 : f[i] = p[i]
      BY <3>1, <2>2, <1>1
    <3> QED  BY <3>1, <3>2 DEF ComesBefore
  <2>6. ASSUME Under(f, q) PROVE ComesBefore(f, p)
    <3>1. n - 1 <= Len(f) /\ \A i \in 1..n - 1 : f[i] = p[i]
      BY <2>2, <2>6 DEF Under
    <3>2. n \in 1..n /\ n <= Len(f) /\ f[n] < p[n]
      BY <3>1, <1>1
    <3> QED  BY <3>1, <3>2 DEF ComesBefore
  <2>7. ASSUME ComesBefore(f, p) PROVE ComesBefore(f, q) \/ Under(f, q)
    <3>1. PICK k \in 1..n : k <= Len(f) /\ f[k] < p[k] /\ \A i \in 1..k - 1 : f[i] = p[i]
      BY <2>7 DEF ComesBefore
    <3>2. CASE k = n
      <4>1. n - 1 <= Len(f) /\ \A i \in 1..n - 1 : f[i] = q[i]
        BY <3>1, <3>2, <2>2, <1>1
      <4> QED  BY <4>1, <2>2 DEF Under
    <3>3. CASE k # n
      <4>1. k \in 1..n - 1 /\ f[k] < q[k] /\ \A i \in 1..k - 1 : f[i] = q[i]
        BY <3>1, <3>3, <2>2, <1>1
      <4> QED  BY <4>1, <3>1, <2>2 DEF ComesBefore
    <3> QED  BY <3>2, <3>3
  <2> QED  BY <2>4, <2>5, <2>6, <2>7
<1> QED  BY <1>2, <1>3

\* Where a walk goes, it could find.
LEMMA FoundAfter ==
    ASSUME NEW stops, NEW p \in PlaceSeqs, p # <<>>, Found(p, stops), kind[p] \notin stops
    PROVE  Found(After(p), stops)
<1> DEFINE n == Len(p)
           r == After(p)
<1>1. /\ n \in Nat /\ n > 0 /\ \A k \in 1..n : p[k] \in Nat
  BY PlaceProps
<1>2. /\ r \in PlaceSeqs /\ Len(r) = n /\ r # <<>> /\ r[n] = p[n] + 1
      /\ \A j \in 1..n - 1 : r[j] = p[j]
  BY AfterProps
<1> HIDE DEF r
<1>3. /\ kind[<<>>] = "dir" /\ n > 1 => flags.recurse
      /\ \A k \in 1..n - 1 : kind[Prefix(p, k)] = "dir"
      /\ \A k \in 1..n : \A i \in 1..p[k] - 1 : kind[Sibling(p, k, i)] \notin stops
  BY FoundIs
<1>4. \A k \in 1..n - 1 : Prefix(r, k) = Prefix(p, k)
  BY <1>1, <1>2, SamePrefix
<1>5. ASSUME NEW k \in 1..n, NEW i \in Nat \ {0}
      PROVE  Sibling(r, k, i) = Sibling(p, k, i)
  <2>1. k \in Nat \ {0} /\ k <= Len(p) /\ k <= Len(r) /\ \A j \in 1..k - 1 : r[j] = p[j]
    BY <1>1, <1>2
  <2> QED  BY <2>1, <1>2, SameSibling
<1>6. ASSUME NEW k \in 1..n, NEW i \in 1..r[k] - 1
      PROVE  kind[Sibling(r, k, i)] \notin stops
  <2>1. i \in Nat \ {0} /\ Sibling(r, k, i) = Sibling(p, k, i)
    BY <1>1, <1>2, <1>5
  <2>2. CASE i \in 1..p[k] - 1
    BY <2>1, <2>2, <1>3
  <2>3. CASE i \notin 1..p[k] - 1
    <3>2. Sibling(p, n, p[n]) = p
      BY <1>1, OwnSibling
    <3>1. CASE k = n
      <4>1. i \in 1..p[n] /\ i \notin 1..p[n] - 1 /\ p[n] \in Nat
        BY <2>3, <3>1, <1>1, <1>2
      <4> QED  BY <4>1, <3>1, <3>2, <2>1
    <3>3. CASE k # n
      BY <2>3, <3>3, <1>1, <1>2
    <3> QED  BY <3>1, <3>3
  <2> QED  BY <2>2, <2>3
<1>7. Found(r, stops)
  BY <1>2, <1>3, <1>4, <1>6, FoundIs
<1> QED  BY <1>7 DEF r

LEMMA FoundIn ==
    ASSUME NEW stops, NEW p \in PlaceSeqs, p # <<>>, Found(p, stops), kind[p] = "dir", flags.recurse
    PROVE  Found(Append(p, 1), stops)
<1> DEFINE n == Len(p)
           r == Append(p, 1)
<1>1. /\ n \in Nat /\ n > 0 /\ \A k \in 1..n : p[k] \in Nat
  BY PlaceProps
<1>2. /\ r \in PlaceSeqs /\ Len(r) = n + 1 /\ r # <<>> /\ r[n + 1] = 1
      /\ \A j \in 1..n : r[j] = p[j]
  BY InProps
<1> HIDE DEF r
<1>3. /\ kind[<<>>] = "dir"
      /\ \A k \in 1..n - 1 : kind[Prefix(p, k)] = "dir"
      /\ \A k \in 1..n : \A i \in 1..p[k] - 1 : kind[Sibling(p, k, i)] \notin stops
  BY FoundIs
<1>4. \A k \in 1..n : Prefix(r, k) = Prefix(p, k)
  BY <1>1, <1>2, SamePrefix
<1>5. \A k \in 1..n : \A i \in Nat \ {0} : Sibling(r, k, i) = Sibling(p, k, i)
  BY <1>1, <1>2, SameSibling
<1>6. ASSUME NEW k \in 1..Len(r), NEW i \in 1..r[k] - 1
      PROVE  kind[Sibling(r, k, i)] \notin stops
  <2>1. k # n + 1
    BY <1>2
  <2>2. k \in 1..n /\ i \in 1..p[k] - 1
    BY <2>1, <1>1, <1>2
  <2>3. i \in Nat \ {0}
    BY <2>2, <1>1
  <2> QED  BY <2>2, <2>3, <1>3, <1>5
<1>7. ASSUME NEW k \in 1..Len(r) - 1 PROVE kind[Prefix(r, k)] = "dir"
  <2>1. k \in 1..n /\ Prefix(r, k) = Prefix(p, k)
    BY <1>1, <1>2, <1>4
  <2>2. Prefix(p, n) = p
    BY OwnPrefix
  <2>3. k = n \/ k \in 1..n - 1
    BY <2>1, <1>1
  <2> QED  BY <2>1, <2>2, <2>3, <1>3
<1>8. Found(r, stops)
  BY <1>2, <1>3, <1>6, <1>7, FoundIs
<1> QED  BY <1>8 DEF r

LEMMA FoundLeave ==
    ASSUME NEW stops, "dir" \notin stops, NEW p \in PlaceSeqs, p # <<>>, Found(p, stops)
    PROVE  Leave(p) = <<>> \/ Found(Leave(p), stops)
<1> DEFINE n == Len(p)
           q == Prefix(p, n - 1)
<1>1. /\ n \in Nat /\ n > 0 /\ \A k \in 1..n : p[k] \in Nat
  BY PlaceProps
<1>2. CASE n = 1
  BY <1>2, LeaveProps
<1>3. CASE n # 1
  <2>1. n - 1 \in 0..Len(p)
    BY <1>1
  <2>2. q \in PlaceSeqs /\ Len(q) = n - 1 /\ \A i \in 1..n - 1 : q[i] = p[i]
    BY <2>1, PrefixProps
  <2>3. Leave(p) = After(q) /\ q # <<>>
    BY <1>3, LeaveProps
  <2>4. /\ kind[<<>>] = "dir" /\ (n > 1 => flags.recurse)
        /\ \A k \in 1..n - 1 : kind[Prefix(p, k)] = "dir"
        /\ \A k \in 1..n : \A i \in 1..p[k] - 1 : kind[Sibling(p, k, i)] \notin stops
    BY FoundIs
  <2>5. kind[q] = "dir" /\ flags.recurse
    <3>1. n - 1 \in 1..n - 1 /\ n > 1
      <4> HIDE DEF n
      <4> QED  BY <1>1, <1>3
    <3> QED  BY <3>1, <2>4
  <2> HIDE DEF q
  <2>6. ASSUME NEW k \in 1..n - 2 PROVE Prefix(q, k) = Prefix(p, k)
    <3>1. k \in Nat /\ k <= Len(q) /\ k <= Len(p) /\ \A i \in 1..k : q[i] = p[i]
      BY <1>1, <2>2
    <3> QED  BY <3>1, <2>2, SamePrefix
  <2>7. \A k \in 1..n - 1 : \A i \in Nat \ {0} : Sibling(q, k, i) = Sibling(p, k, i)
    BY <1>1, <2>2, SameSibling
  <2>8. ASSUME NEW k \in 1..Len(q), NEW i \in 1..q[k] - 1
        PROVE  kind[Sibling(q, k, i)] \notin stops
    BY <1>1, <2>2, <2>4, <2>7
  <2>9. ASSUME NEW k \in 1..Len(q) - 1 PROVE kind[Prefix(q, k)] = "dir"
    BY <1>1, <2>2, <2>4, <2>6
  <2>10. Found(q, stops)
    BY <2>2, <2>4, <2>5, <2>8, <2>9, FoundIs
  <2> QED  BY <2>2, <2>3, <2>5, <2>10, FoundAfter
<1> QED  BY <1>2, <1>3

LEMMA NotBeforeItself ==
    ASSUME NEW p \in PlaceSeqs
    PROVE  ~ComesBefore(p, p)
BY PlaceProps DEF ComesBefore

\* One step of a walk: it moves on to a place it could find, or ends, and leaves behind what
\* it has just looked at and nothing else.
LEMMA WalkStep ==
    ASSUME TypeOK, TreeInv, NEW stops, NEW ret,
           \A k : k \in stops <=> k = "ioerror" \/ (k = "unreadable" /\ flags.recurse /\ ret # 0),
           NEW p \in PlaceSeqs, p # <<>>, Found(p, stops)
    PROVE  /\ dir_map(p, ret) \in PlaceSeqs
           /\ dir_map(p, ret) # <<>> => Found(dir_map(p, ret), stops)
           /\ \A f \in Plain : Found(f, stops) =>
                 (Behind(f, dir_map(p, ret)) <=> ComesBefore(f, p) \/ f = p)
<1> DEFINE d == dir_map(p, ret)
<1>1. "dir" \notin stops /\ stops \cap PlainKinds = {}
  BY VerdictsAssumption DEF PlainKinds, FileStatuses, RankedStatus, UnrankedStatus
<1>2. \A f \in Plain : f \in PlaceSeqs /\ f \in Nodes /\ kind[f] \in PlainKinds
  BY PlacesAssumption DEF Plain, IsPlain, Nodes, Entries, PlaceSeqs
<1>3. CASE p \notin Nodes \/ kind[p] \in stops
  <2>1. d = Leave(p)
    BY <1>3 DEF dir_map
  <2>2. d \in PlaceSeqs /\ (d # <<>> => Found(d, stops))
    BY <2>1, <1>1, LeaveProps, FoundLeave
  <2>3. ASSUME NEW f \in Plain, Found(f, stops)
        PROVE  Behind(f, d) <=> ComesBefore(f, p) \/ f = p
    <3>1. Len(p) - 1 <= Len(f) /\ (\A i \in 1..Len(p) - 1 : f[i] = p[i])
             => Len(p) <= Len(f) /\ f[Len(p)] < p[Len(p)]
      BY <1>1, <1>3, <2>3, NothingBeyond
    <3>2. f # p
      BY <1>1, <1>2, <1>3
    <3>3. Behind(f, Leave(p)) <=> ComesBefore(f, p)
      BY <3>1, <1>2, BehindLeave
    <3> QED  BY <2>1, <3>2, <3>3
  <2> QED  BY <2>2, <2>3
<1>4. CASE p \in Nodes /\ kind[p] = "dir" /\ flags.recurse
  <2>1. d = Append(p, 1)
    BY <1>4 DEF dir_map
  <2>2. d \in PlaceSeqs /\ d # <<>> /\ Found(d, stops)
    BY <2>1, <1>4, InProps, FoundIn
  <2>3. ASSUME NEW f \in Plain, Found(f, stops)
        PROVE  Behind(f, d) <=> ComesBefore(f, p) \/ f = p
    <3>1. f # p
      BY <1>2, <1>4, VerdictsAssumption DEF PlainKinds, FileStatuses, RankedStatus, UnrankedStatus
    <3> QED  BY <2>1, <2>2, <3>1, <1>2, BehindIn DEF Behind
  <2> QED  BY <2>2, <2>3
<1>5. CASE p \in Nodes /\ kind[p] \notin stops /\ ~(kind[p] = "dir" /\ flags.recurse)
  <2>1. d = After(p)
    BY <1>5 DEF dir_map
  <2>2. d \in PlaceSeqs /\ d # <<>> /\ Found(d, stops)
    BY <2>1, <1>5, AfterProps, FoundAfter
  <2>3. ASSUME NEW f \in Plain, Found(f, stops)
        PROVE  Behind(f, d) <=> ComesBefore(f, p) \/ f = p
    <3>1. Under(f, p) => f = p
      BY <1>2, <1>5, <2>3, NothingUnder
    <3>2. f = p => Under(f, p)
      BY <1>2, PlaceProps DEF Under
    <3> QED  BY <2>1, <2>2, <3>1, <3>2, <1>2, BehindAfter DEF Behind
  <2> QED  BY <2>2, <2>3
<1> QED  BY <1>3, <1>4, <1>5

----------------------------------------------------------------------------
(* What holds in a state.                                                  *)

LEMMA PlacesFinite ==
    ASSUME NEW S, S \subseteq Places
    PROVE  IsFiniteSet(S) /\ Cardinality(S) \in Nat
BY PlacesAssumption, FS_Subset, FS_CardinalityType

LEMMA PlainProps ==
    ASSUME TypeOK
    PROVE  /\ ToScan \subseteq ToCount /\ ToCount \subseteq Plain /\ Plain \subseteq Nodes
           /\ Nodes \subseteq Places /\ Places \subseteq PlaceSeqs
           /\ \A f \in Plain : kind[f] \in PlainKinds
           /\ "dir" \notin PlainKinds /\ "unreadable" \notin PlainKinds /\ "other" \notin PlainKinds
<1>1. \A f : Found(f, ScanStops) => Found(f, {"ioerror"})
  BY DEF Found, ScanStops
<1>2. ToScan \subseteq ToCount
  BY <1>1 DEF ToScan, ToCount, ScanStops
<1>3. ToCount \subseteq Plain /\ Plain \subseteq Nodes /\ \A f \in Plain : kind[f] \in PlainKinds
  BY DEF ToCount, Plain, IsPlain
<1>4. Nodes \subseteq Places /\ Places \subseteq PlaceSeqs
  BY PlacesAssumption DEF Nodes, Entries, PlaceSeqs
<1>5. "dir" \notin PlainKinds /\ "unreadable" \notin PlainKinds /\ "other" \notin PlainKinds
  BY VerdictsAssumption DEF PlainKinds, FileStatuses, RankedStatus, UnrankedStatus
<1> QED  BY <1>2, <1>3, <1>4, <1>5

\* The tree and what the walks can find in it do not change.
LEMMA SameTree ==
    ASSUME kind' = kind, flags' = flags
    PROVE  /\ Nodes' = Nodes /\ Plain' = Plain /\ ToScan' = ToScan /\ ToCount' = ToCount
           /\ TreeInv => TreeInv'
           /\ \A f : Found(f, ScanStops) => Found(f, ScanStops)'
           /\ \A f : Found(f, CountStops) => Found(f, CountStops)'
           /\ \A f : IsPlain(f)' = IsPlain(f)
<1>1. Nodes' = Nodes /\ ScanStops' = ScanStops
  BY DEF Nodes, Entries, ScanStops
<1>2. TreeInv => TreeInv'
  BY DEF TreeInv
<1>3. \A f, stops : Found(f, stops)' <=> Found(f, stops)
  BY DEF Found
<1>4. \A f : IsPlain(f)' <=> IsPlain(f)
  BY <1>1 DEF IsPlain
<1>5. Plain' = Plain
  BY <1>1, <1>4 DEF Plain
<1>6. ToScan' = ToScan /\ ToCount' = ToCount
  BY <1>3, <1>5 DEF ToScan, ToCount
<1> QED  BY <1>1, <1>2, <1>3, <1>4, <1>5, <1>6 DEF CountStops, ScanStops

\* A tree whose root is no directory holds at most one file, the root.
LEMMA RootOnly ==
    ASSUME TypeOK, TreeInv, kind[<<>>] # "dir"
    PROVE  /\ \A f \in ToCount : f = <<>>
           /\ IsPlain(<<>>) => ToCount = {<<>>} /\ ToScan = {<<>>}
           /\ ~IsPlain(<<>>) => ToCount = {} /\ ToScan = {}
<1>1. \A f \in ToCount : f = <<>> /\ IsPlain(f)
  BY DEF ToCount, Plain, Found
<1>2. ASSUME IsPlain(<<>>) PROVE <<>> \in ToCount /\ <<>> \in ToScan
  <2>1. <<>> \in PlaceSeqs /\ Len(<<>>) = 0
    BY EmptySeq DEF PlaceSeqs
  <2>2. \A stops : Found(<<>>, stops)
    <3> TAKE stops
    <3> QED  BY <2>1, FoundIs
  <2>3. <<>> \in Plain
    BY <1>2 DEF Plain, IsPlain
  <2> QED  BY <2>2, <2>3 DEF ToCount, ToScan, TreeInv
<1>3. ToScan \subseteq ToCount
  BY PlainProps
<1> QED  BY <1>1, <1>2, <1>3

\* Where the walk of a directory starts.
FirstEntry == << 1 >>

\* At the first entry of the root, nothing is behind a walk.
LEMMA WalkStart ==
    ASSUME kind[<<>>] = "dir"
    PROVE  /\ FirstEntry \in PlaceSeqs /\ FirstEntry # <<>> /\ \A stops : Found(FirstEntry, stops)
           /\ \A f \in PlaceSeqs : ~Behind(f, FirstEntry)
<1>1. FirstEntry \in PlaceSeqs /\ FirstEntry # <<>> /\ Len(FirstEntry) = 1 /\ FirstEntry[1] = 1
  BY DEF PlaceSeqs, FirstEntry
<1>2. ASSUME NEW stops PROVE Found(FirstEntry, stops)
  <2>1. 1..Len(FirstEntry) - 1 = {} /\ ~(Len(FirstEntry) > 1)
    BY <1>1
  <2>2. \A k \in 1..Len(FirstEntry) : 1..FirstEntry[k] - 1 = {}
    BY <1>1
  <2> QED  BY <2>1, <2>2, <1>1, FoundIs
<1>3. ASSUME NEW f \in PlaceSeqs PROVE ~Behind(f, FirstEntry)
  <2>1. \A k \in 1..Len(f) : f[k] \in Nat /\ f[k] > 0
    BY PlaceProps
  <2>2. ~ComesBefore(f, FirstEntry)
    <3> SUFFICES ASSUME NEW k \in 1..Len(FirstEntry), k <= Len(f), f[k] < FirstEntry[k] PROVE FALSE
      BY DEF ComesBefore
    <3>1. k = 1 /\ 1 <= Len(f) /\ f[1] < 1
      BY <1>1
    <3> QED  BY <3>1, <2>1, PlaceProps
  <2> QED  BY <2>2, <1>1 DEF Behind
<1> QED  BY <1>1, <1>2, <1>3

\* update_counters counts a file before it classifies it, so there are never more detections
\* than scanned files.
LEMMA DetectionsFit ==
    ASSUME TypeOK, CountersInv
    PROVE  malware_count + suspicious_count <= scanned_count
<1> DEFINE M == Classed("MALWARE")
           S == Classed("SUSPICIOUS")
<1>1. M \cap S = {} /\ M \cup S \subseteq Counted /\ Counted \subseteq Places
  BY DEF Classed, Classified, Counted, PastScan
<1>2. IsFiniteSet(M) /\ IsFiniteSet(S) /\ IsFiniteSet(Counted)
  BY <1>1, PlacesFinite
<1> HIDE DEF M, S
<1>3. Cardinality(M \cup S) = Cardinality(M) + Cardinality(S) - Cardinality(M \cap S)
  BY <1>2, FS_Union
<1>4. Cardinality(M \cup S) <= Cardinality(Counted)
  BY <1>1, <1>2, FS_Subset
<1>5. Cardinality(M \cap S) = 0
  BY <1>1, FS_EmptySet
<1>6. Cardinality(M) \in Nat /\ Cardinality(S) \in Nat /\ Cardinality(Counted) \in Nat
  BY <1>2, FS_CardinalityType
<1>7. Cardinality(M) + Cardinality(S) <= Cardinality(Counted)
  BY <1>3, <1>4, <1>5, <1>6
<1> QED  BY <1>7 DEF CountersInv, M, S

\* A progress of 100 means that all was counted.
LEMMA HundredMeansAll ==
    ASSUME NEW n \in Nat, NEW total \in Nat, total # 0
    PROVE  Percent(n, total) \in 0..100 /\ (Percent(n, total) = 100 => n >= total)
<1> DEFINE x == (100 * n) \div total
<1>1. 100 * n \in Nat
  OBVIOUS
<1>2. x \in Nat
  BY <1>1
<1>3. ASSUME x >= 100 PROVE n >= total
  <2>1. ASSUME n < total PROVE FALSE
    <3>1. 100 * n < 100 * total
      BY <2>1
    <3>2. 100 * n < total * 100
      BY <3>1
    <3>3. x * total <= 100 * n
      BY <1>1
    <3>4. 100 * total <= x * total
      BY <1>2, <1>3
    <3> QED  BY <3>1, <3>3, <3>4, <1>2
  <2> QED  BY <2>1
<1> HIDE DEF x
<1> QED  BY <1>2, <1>3 DEF Percent, x

LEMMA CountedAll ==
    ASSUME TypeOK, HandedInv, CountInv, CountersInv, to_scan_count # 0, scanned_count >= to_scan_count
    PROVE  AllCounted
<1>1. Counted \subseteq ToScan
  BY DEF Counted, PastScan, HandedInv
<1>2. Counted \subseteq ToCount /\ ToCount \subseteq Places
  BY <1>1, PlainProps
<1>3. IsFiniteSet(ToCount) /\ Cardinality(ToCount) \in Nat /\ Cardinality(Counted) \in Nat
  BY <1>2, PlacesFinite
<1>4. Cardinality(Counted) <= Cardinality(ToCount) /\ Cardinality(Counted) >= Cardinality(ToCount)
  BY <1>2, <1>3, FS_Subset DEF CountInv, CountersInv
<1>5. Cardinality(Counted) = Cardinality(ToCount)
  BY <1>3, <1>4
<1>6. Counted = ToCount
  BY <1>2, <1>3, <1>5, FS_Subset
<1> QED  BY <1>6 DEF AllCounted

----------------------------------------------------------------------------
(* The steps of a6o_on_demand_run and of the counting thread.              *)

LEMMA InitIInv == Init => IInv
<1> SUFFICES ASSUME Init PROVE IInv
  OBVIOUS
<1>1. PICK i \in Inputs : kind = i.kind /\ flags = i.flags
  BY DEF Init
<1>2. /\ kind \in [Places -> Kinds]
      /\ flags \in [threaded : BOOLEAN, recurse : BOOLEAN, progress : BOOLEAN]
      /\ IsTree(kind)
  BY <1>1, InputsAssumption
<1>3. \A f \in Places : task[f] = NoTask
  BY DEF Init
<1>4. <<>> \in Seq(Nat \ {0})
  BY EmptySeq
<1>5. TypeOK
  BY <1>2, <1>4 DEF Init, TypeOK, TaskStates, EventStates, NoTask, NoEvent, Unknown
<1>6. TreeInv /\ PosInv
  BY <1>2 DEF Init, TreeInv, PosInv
<1>7. HandedInv /\ CountInv
  BY <1>3 DEF Init, HandedInv, CountInv, NoTask
<1>8. PastScan = {} /\ Counted = {} /\ Classed("MALWARE") = {} /\ Classed("SUSPICIOUS") = {}
  BY <1>3 DEF PastScan, Counted, Classified, Classed, NoTask
<1>9. CountersInv /\ ReadInv /\ ShownConsistent
  <2>1. CountersInv
    BY <1>8, FS_EmptySet DEF Init, CountersInv
  <2>2. ReadInv
    BY <1>3 DEF ReadInv, NoTask
  <2>3. ShownConsistent
    BY DEF Init, ShownConsistent, NoEvent
  <2> QED  BY <2>1, <2>2, <2>3
<1>10. HundredInv /\ EndInv
  BY <1>3 DEF Init, HundredInv, EndInv, NoTask, NoEvent, Unknown
<1> QED  BY <1>5, <1>6, <1>7, <1>9, <1>10 DEF IInv

\* What a step keeps that leaves the counters, the events and every task that was begun alone.
LEMMA TasksKept ==
    ASSUME IInv, kind' = kind, flags' = flags, UNCHANGED <<detections, shown>>,
           UNCHANGED <<scanned_count, malware_count, suspicious_count>>,
           \A f \in Places : \/ task'[f] = task[f]
                             \/ /\ task[f].pc = "none" /\ task'[f].pc \in {"none", "queued", "scan"}
                                /\ task'[f].progress = task[f].progress
    PROVE  CountersInv' /\ ReadInv' /\ ShownConsistent' /\ HundredInv'
<1>1. PastScan' = PastScan
  BY DEF PastScan
<1>2. Counted' = Counted
  BY <1>1 DEF Counted, PastScan
<1>3. Classified' = Classified
  BY <1>2 DEF Classified, Counted, PastScan
<1>4. \A v : Classed(v)' = Classed(v)
  BY <1>3 DEF Classed
<1>5. CountersInv'
  BY <1>1, <1>2, <1>4 DEF IInv, CountersInv
<1>6. ReadInv'
  BY DEF IInv, ReadInv
<1>7. ShownConsistent'
  BY DEF IInv, ShownConsistent
<1>8. AllCounted => AllCounted'
  BY <1>2, SameTree DEF AllCounted
<1>9. HundredInv'
  BY <1>8 DEF IInv, HundredInv
<1> QED  BY <1>5, <1>6, <1>7, <1>9

\* A task moves on.
LEMMA TaskMoves ==
    ASSUME task \in [Places -> TaskStates], NEW f \in Places,
           NEW c \in {"none", "queued", "scan", "scanned", "classify", "progress", "decide",
                      "malware", "suspicious", "fire", "note", "done"},
           task' = [task EXCEPT ![f].pc = c]
    PROVE  /\ task' \in [Places -> TaskStates]
           /\ \A g \in Places : g # f => task'[g] = task[g]
           /\ task'[f].pc = c /\ task'[f].progress = task[f].progress
           /\ task'[f].malware = task[f].malware /\ task'[f].suspicious = task[f].suspicious
BY DEF TaskStates

LEMMA RunFileKeeps == ASSUME IInv, RunFile PROVE IInv'
<1> USE DEF RunFile, walks, events
<1>1. kind[<<>>] \in PlainKinds /\ kind[<<>>] # "dir" /\ <<>> \in Places
  BY PlainProps DEF IInv, IsPlain, Nodes, Entries
<1>2. ToCount = {<<>>} /\ ToScan = {<<>>}
  BY <1>1, RootOnly DEF IInv
<1>3. Cardinality(ToCount) = 1
  BY <1>2, FS_Singleton
<1>4. \A f \in Places : task[f].pc = "none"
  BY DEF IInv, HandedInv
<1>5. task' = [task EXCEPT ![<<>>].pc = IF flags.threaded THEN "queued" ELSE "scan"]
  BY DEF HandOver, IInv, TreeInv
<1>6. TypeOK'
  <2>1. task' \in [Places -> TaskStates]
    BY <1>1, <1>5, TaskMoves DEF IInv, TypeOK
  <2> QED  BY <2>1, SameTree DEF IInv, TypeOK
<1>7. TreeInv' /\ PosInv'
  BY SameTree DEF IInv, PosInv
<1>8. HandedInv'
  BY <1>1, <1>2, <1>4, <1>5, SameTree DEF IInv, TypeOK, TaskStates, HandedInv, PosInv, Behind
<1>9. CountInv'
  BY <1>3, SameTree DEF IInv, CountInv, PosInv
<1>10. CountersInv' /\ ReadInv' /\ ShownConsistent' /\ HundredInv'
  <2>1. \A f \in Places : \/ task'[f] = task[f]
                          \/ /\ task[f].pc = "none" /\ task'[f].pc \in {"none", "queued", "scan"}
                             /\ task'[f].progress = task[f].progress
    BY <1>1, <1>4, <1>5 DEF IInv, TypeOK, TaskStates
  <2> QED  BY <2>1, TasksKept
<1>11. EndInv'
  BY DEF EndInv
<1> QED  BY <1>6, <1>7, <1>8, <1>9, <1>10, <1>11 DEF IInv

\* What a step keeps that changes neither a task nor what the tasks write.
LEMMA NoTaskStep ==
    ASSUME IInv, kind' = kind, flags' = flags, UNCHANGED <<task, detections, shown>>,
           UNCHANGED <<scanned_count, malware_count, suspicious_count>>
    PROVE  /\ CountersInv' /\ ReadInv' /\ ShownConsistent' /\ HundredInv' /\ TreeInv'
           /\ detections' \subseteq Nodes'
BY TasksKept, SameTree DEF IInv, TypeOK

LEMMA WalkersType ==
    ASSUME NEW S, NEW a \in S, NEW b \in S
    PROVE  [scan |-> a, count |-> b] \in [{"scan", "count"} -> S]
OBVIOUS

LEMMA RunDirectoryKeeps == ASSUME IInv, RunDirectory PROVE IInv'
<1> USE DEF RunDirectory, counts, events
<1> DEFINE first == IF kind[<<>>] = "dir" THEN FirstEntry ELSE <<>>
<1>1. CountersInv' /\ ReadInv' /\ ShownConsistent' /\ HundredInv' /\ TreeInv' /\ detections' \subseteq Nodes'
  BY NoTaskStep
<1>2. first \in Seq(Nat \ {0}) /\ (first # <<>> => Found(first, ScanStops) /\ Found(first, CountStops))
  BY WalkStart, EmptySeq DEF PlaceSeqs
<1>3. \A f \in ToCount : ~Behind(f, first)
  <2>1. CASE kind[<<>>] = "dir"
    BY <2>1, WalkStart, PlainProps DEF IInv
  <2>2. CASE kind[<<>>] # "dir"
    <3>1. ~IsPlain(<<>>)
      BY <2>2, PlainProps DEF IsPlain, IInv
    <3> QED  BY <2>2, <3>1, RootOnly DEF IInv
  <2> QED  BY <2>1, <2>2
<1>4. \A f \in Places : task[f].pc = "none"
  BY DEF IInv, HandedInv
<1>5. pos' = [scan |-> first, count |-> IF flags.progress THEN first ELSE <<>>]
  BY DEF FirstEntry
<1> HIDE DEF first
<1>6. pos'["scan"] = first /\ pos'["count"] = IF flags.progress THEN first ELSE <<>>
  BY <1>5
<1>7. TypeOK'
  <2>1. pos' \in [{"scan", "count"} -> Seq(Nat \ {0})]
    <3>1. (IF flags.progress THEN first ELSE <<>>) \in Seq(Nat \ {0})
      BY <1>2, EmptySeq
    <3>2. [scan |-> first, count |-> IF flags.progress THEN first ELSE <<>>]
              \in [{"scan", "count"} -> Seq(Nat \ {0})]
      BY <1>2, <3>1, WalkersType
    <3> HIDE DEF RunDirectory
    <3> QED  BY <1>5, <3>2
  <2> QED  BY <2>1, <1>1 DEF IInv, TypeOK
<1>8. PosInv'
  BY <1>2, <1>6, SameTree DEF IInv, PosInv
<1>9. HandedInv'
  BY <1>3, <1>4, <1>6, SameTree, PlainProps DEF IInv, HandedInv
<1>10. CountInv'
  <2>1. count = 0 /\ to_scan_count' = 0 /\ count' = 0 /\ counter' # "done"
    BY DEF IInv, PosInv
  <2>2. counter' = "walk" => pos'["count"] = first
    BY <1>6
  <2>3. {f \in ToCount : Behind(f, first)} = {}
    BY <1>3
  <2> QED  BY <2>1, <2>2, <2>3, SameTree, FS_EmptySet DEF CountInv
<1>11. EndInv'
  BY DEF EndInv
<1> QED  BY <1>1, <1>7, <1>8, <1>9, <1>10, <1>11 DEF IInv

LEMMA RunNeitherKeeps == ASSUME IInv, RunNeither PROVE IInv'
<1> USE DEF RunNeither, counts, events, walks
<1>1. CountersInv' /\ ReadInv' /\ ShownConsistent' /\ HundredInv' /\ TreeInv' /\ detections' \subseteq Nodes'
  BY NoTaskStep
<1>2. ToScan = {}
  <2>1. ~IsPlain(<<>>)
    BY PlainProps DEF IsPlain, IInv
  <2> QED  BY <2>1, RootOnly DEF IInv
<1>3. \A f \in Places : task[f].pc = "none"
  BY DEF IInv, HandedInv
<1>4. TypeOK' /\ PosInv'
  BY <1>1, SameTree DEF IInv, TypeOK, PosInv
<1>5. HandedInv' /\ CountInv'
  BY <1>2, <1>3, SameTree DEF IInv, HandedInv, CountInv, PosInv
<1>6. EndInv'
  BY DEF EndInv
<1> QED  BY <1>1, <1>4, <1>5, <1>6 DEF IInv

LEMMA ScanWalkKeeps == ASSUME IInv, ScanWalk PROVE IInv'
<1> USE DEF ScanWalk, counts, events
<1> DEFINE p == pos["scan"]
<1>1. p \in PlaceSeqs /\ p # <<>> /\ Found(p, ScanStops)
  BY DEF IInv, TypeOK, PosInv, PlaceSeqs
<1>2. \A k : k \in ScanStops <=> k = "ioerror" \/ (k = "unreadable" /\ flags.recurse /\ 1 # 0)
  BY DEF ScanStops
<1>3. /\ dir_map(p, 1) \in PlaceSeqs
      /\ dir_map(p, 1) # <<>> => Found(dir_map(p, 1), ScanStops)
      /\ \A f \in Plain : Found(f, ScanStops) =>
            (Behind(f, dir_map(p, 1)) <=> ComesBefore(f, p) \/ f = p)
  <2>1. TypeOK /\ TreeInv
    BY DEF IInv
  <2> QED  BY <2>1, <1>1, <1>2, WalkStep
<1>4. pos'["scan"] = dir_map(p, 1) /\ pos'["count"] = pos["count"]
  BY DEF IInv, TypeOK
<1>5. \A f \in ToScan : f \in Plain /\ Found(f, ScanStops)
  BY DEF ToScan, ScanStops
<1>6. IsPlain(p) => p \in Places /\ (p \in ToScan <=> ~(flags.threaded /\ kind[p] = "nopath"))
  BY <1>1 DEF IsPlain, ToScan, ScanStops, Plain, Nodes, Entries
<1>7. \A f \in Places : task[f].pc # "none" <=> f \in ToScan /\ ComesBefore(f, p)
  BY <1>1 DEF IInv, HandedInv, Behind
<1>8. IsPlain(p) => task[p].pc = "none"
  BY <1>1, <1>6, <1>7, NotBeforeItself
<1>9. IsPlain(p) =>
         task' = [task EXCEPT ![p].pc = IF ~flags.threaded THEN "scan"
                                        ELSE IF kind[p] # "nopath" THEN "queued" ELSE "none"]
  BY DEF HandOver
<1>10. \A f \in Places :
         /\ ~(IsPlain(p) /\ f = p) => task'[f] = task[f]
         /\ IsPlain(p) /\ f = p =>
               /\ task'[f].pc = IF ~flags.threaded THEN "scan"
                                ELSE IF kind[f] # "nopath" THEN "queued" ELSE "none"
               /\ task'[f].progress = task[f].progress
  <2>1. CASE IsPlain(p)
    <3> DEFINE c == IF ~flags.threaded THEN "scan"
                    ELSE IF kind[p] # "nopath" THEN "queued" ELSE "none"
    <3>1. p \in Places /\ task \in [Places -> TaskStates] /\ task' = [task EXCEPT ![p].pc = c]
      BY <2>1, <1>6, <1>9 DEF IInv, TypeOK
    <3>2. c \in {"scan", "queued", "none"}
      OBVIOUS
    <3> HIDE DEF c
    <3>3. /\ \A g \in Places : g # p => task'[g] = task[g]
          /\ task'[p].pc = c /\ task'[p].progress = task[p].progress
      BY <3>1, <3>2, TaskMoves
    <3> QED  BY <2>1, <3>1, <3>3 DEF c
  <2>2. CASE ~IsPlain(p)
    BY <2>2
  <2> QED  BY <2>1, <2>2
<1>11. TypeOK'
  <2>1. task' \in [Places -> TaskStates]
    <3>1. CASE IsPlain(p)
      BY <3>1, <1>6, <1>9, TaskMoves DEF IInv, TypeOK
    <3>2. CASE ~IsPlain(p)
      BY <3>2 DEF IInv, TypeOK
    <3> QED  BY <3>1, <3>2
  <2>2. pos' \in [{"scan", "count"} -> Seq(Nat \ {0})]
    BY <1>3 DEF IInv, TypeOK, PlaceSeqs
  <2> QED  BY <2>1, <2>2, SameTree DEF IInv, TypeOK
<1>12. TreeInv'
  BY SameTree DEF IInv
<1>13. PosInv'
  BY <1>3, <1>4, SameTree DEF IInv, PosInv
<1>14. HandedInv'
  <2> SUFFICES ASSUME NEW f \in Places
               PROVE  task'[f].pc # "none" <=> f \in ToScan /\ Behind(f, pos'["scan"])
    BY SameTree DEF HandedInv
  <2>1. f \in ToScan => (Behind(f, pos'["scan"]) <=> ComesBefore(f, p) \/ f = p)
    BY <1>3, <1>4, <1>5
  <2>2. f \in ToScan /\ f = p => IsPlain(p)
    BY DEF ToScan, Plain
  <2>3. CASE IsPlain(p) /\ f = p
    BY <2>1, <2>3, <1>6, <1>10
  <2>4. CASE ~(IsPlain(p) /\ f = p)
    BY <2>1, <2>2, <2>4, <1>7, <1>10
  <2> QED  BY <2>3, <2>4
<1>15. CountInv'
  BY <1>4, SameTree DEF IInv, CountInv
<1>16. CountersInv' /\ ReadInv' /\ ShownConsistent' /\ HundredInv'
  <2>1. \A f \in Places : \/ task'[f] = task[f]
                          \/ /\ task[f].pc = "none" /\ task'[f].pc \in {"none", "queued", "scan"}
                             /\ task'[f].progress = task[f].progress
    BY <1>8, <1>10
  <2> QED  BY <2>1, TasksKept
<1>17. EndInv'
  BY DEF EndInv
<1> QED  BY <1>11, <1>12, <1>13, <1>14, <1>15, <1>16, <1>17 DEF IInv

LEMMA CountWalkKeeps == ASSUME IInv, CountWalk PROVE IInv'
<1> USE DEF CountWalk, counts, events
<1> DEFINE p == pos["count"]
           B == {f \in ToCount : Behind(f, p)}
<1>1. CountersInv' /\ ReadInv' /\ ShownConsistent' /\ HundredInv' /\ TreeInv' /\ detections' \subseteq Nodes'
  BY NoTaskStep
<1>2. p \in PlaceSeqs /\ p # <<>> /\ Found(p, CountStops)
  BY DEF IInv, TypeOK, PosInv, PlaceSeqs
<1>3. \A k : k \in CountStops <=> k = "ioerror" \/ (k = "unreadable" /\ flags.recurse /\ 0 # 0)
  BY DEF CountStops
<1>4. /\ dir_map(p, 0) \in PlaceSeqs
      /\ dir_map(p, 0) # <<>> => Found(dir_map(p, 0), CountStops)
      /\ \A f \in Plain : Found(f, CountStops) =>
            (Behind(f, dir_map(p, 0)) <=> ComesBefore(f, p) \/ f = p)
  BY <1>2, <1>3, WalkStep DEF IInv
<1>5. pos'["count"] = dir_map(p, 0) /\ pos'["scan"] = pos["scan"]
  BY DEF IInv, TypeOK
<1>6. \A f \in ToCount : f \in Plain /\ Found(f, CountStops)
  BY DEF ToCount, CountStops
<1>7. IsPlain(p) <=> p \in ToCount
  BY <1>2 DEF IsPlain, ToCount, CountStops, Plain, Nodes, Entries
<1>8. p \notin B
  BY <1>2, NotBeforeItself DEF Behind
<1>9. IsFiniteSet(B) /\ Cardinality(B) \in Nat /\ count = Cardinality(B)
  <2>1. B \subseteq Places
    BY PlainProps DEF IInv
  <2> QED  BY <2>1, PlacesFinite DEF IInv, CountInv
<1>10. {f \in ToCount : Behind(f, pos'["count"])} = IF IsPlain(p) THEN B \cup {p} ELSE B
  BY <1>2, <1>4, <1>5, <1>6, <1>7 DEF Behind
<1>11. count' = Cardinality({f \in ToCount : Behind(f, pos'["count"])})
  <2> HIDE DEF B
  <2>1. CASE IsPlain(p)
    <3>1. Cardinality(B \cup {p}) = Cardinality(B) + 1
      BY <1>8, <1>9, FS_AddElement
    <3> QED  BY <2>1, <3>1, <1>9, <1>10
  <2>2. CASE ~IsPlain(p)
    <3>1. count' = count
      BY <2>2 DEF IInv, TypeOK
    <3> QED  BY <2>2, <3>1, <1>9, <1>10
  <2> QED  BY <2>1, <2>2
<1>12. TypeOK'
  <2>1. pos' \in [{"scan", "count"} -> Seq(Nat \ {0})]
    BY <1>4 DEF IInv, TypeOK, PlaceSeqs
  <2> QED  BY <2>1, <1>1 DEF IInv, TypeOK
<1>13. PosInv'
  BY <1>4, <1>5, SameTree DEF IInv, PosInv
<1>14. HandedInv'
  BY <1>5, SameTree DEF IInv, HandedInv
<1>15. CountInv'
  BY <1>11, SameTree DEF IInv, CountInv
<1>16. EndInv'
  BY DEF IInv, EndInv, Live
<1> QED  BY <1>1, <1>12, <1>13, <1>14, <1>15, <1>16 DEF IInv

LEMMA PublishCountKeeps == ASSUME IInv, PublishCount PROVE IInv'
<1> USE DEF PublishCount, events
<1>1. CountersInv' /\ ReadInv' /\ ShownConsistent' /\ HundredInv' /\ TreeInv' /\ detections' \subseteq Nodes'
  BY NoTaskStep
<1>2. to_scan_count' = Cardinality(ToCount)
  <2>1. {f \in ToCount : Behind(f, pos["count"])} = ToCount
    BY DEF Behind
  <2> QED  BY <2>1 DEF IInv, CountInv
<1>3. TypeOK' /\ PosInv' /\ HandedInv'
  BY <1>1, SameTree DEF IInv, TypeOK, PosInv, HandedInv
<1>4. CountInv'
  BY <1>2, SameTree DEF CountInv
<1>5. EndInv'
  BY DEF IInv, EndInv, Live
<1> QED  BY <1>1, <1>3, <1>4, <1>5 DEF IInv

LEMMA CompleteKeeps == ASSUME IInv, Complete PROVE IInv'
<1> USE DEF Complete, walks, counts
<1>1. CountersInv' /\ ReadInv' /\ ShownConsistent' /\ HundredInv' /\ TreeInv' /\ detections' \subseteq Nodes'
  BY NoTaskStep
<1>2. TypeOK'
  <2>1. completed' \in EventStates
    BY DEF IInv, TypeOK, EventStates
  <2> QED  BY <2>1, <1>1 DEF IInv, TypeOK
<1>3. PosInv' /\ HandedInv' /\ CountInv'
  BY SameTree DEF IInv, PosInv, HandedInv, CountInv
<1>4. \A f \in Places : ~Live(f)
  BY PlainProps DEF IInv, HandedInv, Live
<1>5. EndInv'
  BY <1>4 DEF EndInv, Live
<1> QED  BY <1>1, <1>2, <1>3, <1>5 DEF IInv

LEMMA JoinKeeps == ASSUME IInv, Join PROVE IInv'
<1> USE DEF Join, walks, counts, events
<1>1. CountersInv' /\ ReadInv' /\ ShownConsistent' /\ HundredInv' /\ TreeInv' /\ detections' \subseteq Nodes'
  BY NoTaskStep
<1>2. TypeOK'
  BY <1>1 DEF IInv, TypeOK
<1>3. PosInv' /\ HandedInv' /\ CountInv'
  BY SameTree DEF IInv, PosInv, HandedInv, CountInv
<1>4. EndInv'
  BY DEF IInv, EndInv, Live
<1> QED  BY <1>1, <1>2, <1>3, <1>4 DEF IInv

----------------------------------------------------------------------------
(* The steps of scan_file, in the pool or in the walking thread.           *)

\* A step of a task leaves the walks alone and happens only before the scan is completed.
LEMMA TaskFrame ==
    ASSUME IInv, NEW f \in Places,
           UNCHANGED <<kind, flags, pc, walks, to_scan_count, completed>>,
           task' \in [Places -> TaskStates], \A g \in Places : g # f => task'[g] = task[g],
           task[f].pc \notin {"none", "done"}, task'[f].pc # "none"
    PROVE  /\ TreeInv' /\ PosInv' /\ HandedInv' /\ CountInv' /\ EndInv'
           /\ f \in ToScan /\ f \in Nodes /\ Nodes' = Nodes
<1> USE DEF walks
<1>1. f \in ToScan /\ pc # "new"
  BY DEF IInv, HandedInv
<1>2. f \in Nodes
  BY <1>1, PlainProps DEF IInv
<1>3. pc \notin {"completed", "returned"}
  BY DEF IInv, EndInv, Live
<1>4. TreeInv' /\ Nodes' = Nodes /\ ToScan' = ToScan /\ ToCount' = ToCount
  BY SameTree DEF IInv
<1>5. PosInv'
  BY SameTree DEF IInv, PosInv
<1>6. HandedInv'
  <2> SUFFICES ASSUME NEW g \in Places
               PROVE  task'[g].pc # "none" <=> pc' # "new" /\ g \in ToScan' /\ Behind(g, pos'["scan"])
    BY DEF HandedInv
  <2>1. task'[g].pc # "none" <=> task[g].pc # "none"
    OBVIOUS
  <2> QED  BY <2>1, <1>4 DEF IInv, HandedInv
<1>7. CountInv'
  BY <1>4 DEF IInv, CountInv
<1>8. EndInv'
  BY <1>3 DEF EndInv
<1> QED  BY <1>1, <1>2, <1>4, <1>5, <1>6, <1>7, <1>8

\* The sets the counters count, after a step of the task of f.
LEMMA SetsAfter ==
    ASSUME NEW f \in Places, kind' = kind, \A g \in Places : g # f => task'[g] = task[g]
    PROVE  /\ \A g \in Places : g # f =>
                 /\ g \in PastScan' <=> g \in PastScan
                 /\ g \in Counted' <=> g \in Counted
                 /\ \A v : g \in Classed(v)' <=> g \in Classed(v)
           /\ PastScan' \subseteq Places /\ PastScan \subseteq Places
           /\ Counted' \subseteq Places /\ Counted \subseteq Places
           /\ \A v : Classed(v)' \subseteq Places /\ Classed(v) \subseteq Places
BY DEF PastScan, Counted, Classified, Classed

\* The steps that pass no counter.
LEMMA NoCountStep ==
    ASSUME IInv, NEW f \in Places, kind' = kind, flags' = flags,
           UNCHANGED <<scanned_count, malware_count, suspicious_count, detections>>,
           \A g \in Places : g # f => task'[g] = task[g],
           \/ task[f].pc = "queued" /\ task'[f].pc = "scan"
           \/ /\ task[f].pc \in {"progress", "decide", "malware", "suspicious", "fire", "note"}
              /\ task'[f].pc \in {"decide", "malware", "suspicious", "fire", "note", "done"}
    PROVE  CountersInv' /\ (AllCounted => AllCounted')
<1>1. /\ f \in PastScan' <=> f \in PastScan
      /\ f \in Counted' <=> f \in Counted
      /\ \A v : f \in Classed(v)' <=> f \in Classed(v)
  BY DEF PastScan, Counted, Classified, Classed
<1>2. PastScan' = PastScan /\ Counted' = Counted /\ \A v : Classed(v)' = Classed(v)
  <2>1. PastScan' = PastScan
    BY <1>1, SetsAfter
  <2>2. Counted' = Counted
    BY <1>1, SetsAfter
  <2>3. \A v : Classed(v)' = Classed(v)
    BY <1>1, SetsAfter
  <2> QED  BY <2>1, <2>2, <2>3
<1>3. CountersInv'
  BY <1>2 DEF IInv, CountersInv
<1>4. AllCounted => AllCounted'
  BY <1>2, SameTree DEF AllCounted
<1> QED  BY <1>3, <1>4

LEMMA AddOne ==
    ASSUME NEW S, NEW T, NEW f \in Places, S \subseteq Places, T \subseteq Places, f \notin S, f \in T,
           \A g \in Places : g # f => (g \in T <=> g \in S)
    PROVE  Cardinality(T) = Cardinality(S) + 1
<1>1. T = S \cup {f}
  OBVIOUS
<1> QED  BY <1>1, PlacesFinite, FS_AddElement

LEMMA PoolStartsKeeps == ASSUME IInv, NEW f \in Places, PoolStarts(f) PROVE IInv'
<1> USE DEF PoolStarts, counts, events
<1>1. /\ task' \in [Places -> TaskStates] /\ \A g \in Places : g # f => task'[g] = task[g]
      /\ task'[f].pc = "scan" /\ task'[f].progress = task[f].progress
  BY TaskMoves DEF IInv, TypeOK
<1>2. TreeInv' /\ PosInv' /\ HandedInv' /\ CountInv' /\ EndInv' /\ Nodes' = Nodes
  BY <1>1, TaskFrame
<1>3. CountersInv' /\ (AllCounted => AllCounted')
  BY <1>1, NoCountStep
<1>4. TypeOK'
  BY <1>1, <1>2 DEF IInv, TypeOK, walks
<1>5. ReadInv' /\ ShownConsistent'
  BY <1>1 DEF IInv, ReadInv, ShownConsistent
<1>6. HundredInv'
  BY <1>1, <1>3 DEF IInv, HundredInv
<1> QED  BY <1>2, <1>3, <1>4, <1>5, <1>6 DEF IInv

LEMMA ScanFileKeeps == ASSUME IInv, NEW f \in Places, ScanFile(f) PROVE IInv'
<1> USE DEF ScanFile, counts
<1>1. /\ task' \in [Places -> TaskStates] /\ \A g \in Places : g # f => task'[g] = task[g]
      /\ task'[f].pc = "scanned" /\ task'[f].progress = task[f].progress
  BY TaskMoves DEF IInv, TypeOK
<1>2. /\ TreeInv' /\ PosInv' /\ HandedInv' /\ CountInv' /\ EndInv' /\ Nodes' = Nodes
      /\ f \in Nodes
  BY <1>1, TaskFrame
<1>3. /\ f \in PastScan' /\ f \notin PastScan /\ f \notin Counted' /\ f \notin Counted
      /\ \A v : f \notin Classed(v)' /\ f \notin Classed(v)
  BY <1>1 DEF PastScan, Counted, Classified, Classed
<1>4. Counted' = Counted /\ (\A v : Classed(v)' = Classed(v)) /\ PastScan' = PastScan \cup {f}
  <2>1. Counted' = Counted
    <3>1. /\ \A g \in Places : g \in Counted' <=> g \in Counted
          /\ Counted' \subseteq Places /\ Counted \subseteq Places
      BY <1>1, <1>3, SetsAfter
    <3> HIDE DEF ScanFile
    <3> QED  BY <3>1
  <2>2. \A v : Classed(v)' = Classed(v)
    BY <1>1, <1>3, SetsAfter
  <2>3. PastScan' = PastScan \cup {f}
    BY <1>1, <1>3, SetsAfter
  <2> QED  BY <2>1, <2>2, <2>3
<1>5. detections' = {g \in PastScan' : kind'[g] \in Detected}
  BY <1>4 DEF IInv, CountersInv
<1>6. CountersInv'
  BY <1>4, <1>5 DEF IInv, CountersInv
<1>7. TypeOK'
  BY <1>1, <1>2 DEF IInv, TypeOK, walks
<1>8. ReadInv' /\ ShownConsistent'
  BY <1>1 DEF IInv, ReadInv, ShownConsistent
<1>9. HundredInv'
  BY <1>1, <1>4, SameTree DEF IInv, HundredInv, AllCounted
<1> QED  BY <1>2, <1>6, <1>7, <1>8, <1>9 DEF IInv

LEMMA CountScannedKeeps == ASSUME IInv, NEW f \in Places, CountScanned(f) PROVE IInv'
<1> USE DEF CountScanned, events
<1>1. /\ task' \in [Places -> TaskStates] /\ \A g \in Places : g # f => task'[g] = task[g]
      /\ task'[f].pc = "classify" /\ task'[f].progress = task[f].progress
  BY TaskMoves DEF IInv, TypeOK
<1>2. TreeInv' /\ PosInv' /\ HandedInv' /\ CountInv' /\ EndInv' /\ Nodes' = Nodes
  BY <1>1, TaskFrame
<1>3. /\ f \in PastScan' /\ f \in PastScan /\ f \in Counted' /\ f \notin Counted
      /\ \A v : f \notin Classed(v)' /\ f \notin Classed(v)
  BY <1>1 DEF PastScan, Counted, Classified, Classed
<1>4. /\ Cardinality(Counted') = Cardinality(Counted) + 1 /\ Counted \subseteq Counted'
      /\ (\A v : Classed(v)' = Classed(v)) /\ PastScan' = PastScan
  <2>1. Cardinality(Counted') = Cardinality(Counted) + 1
    BY <1>1, <1>3, SetsAfter, AddOne
  <2>2. Counted \subseteq Counted' /\ PastScan' = PastScan
    BY <1>1, <1>3, SetsAfter
  <2>3. \A v : Classed(v)' = Classed(v)
    BY <1>1, <1>3, SetsAfter
  <2> QED  BY <2>1, <2>2, <2>3
<1>5. CountersInv'
  BY <1>4 DEF IInv, CountersInv
<1>6. TypeOK'
  BY <1>1, <1>2 DEF IInv, TypeOK, walks
<1>7. ReadInv' /\ ShownConsistent'
  BY <1>1 DEF IInv, ReadInv, ShownConsistent
<1>8. AllCounted => AllCounted'
  BY <1>4, SameTree DEF AllCounted
<1>9. HundredInv'
  BY <1>1, <1>8 DEF IInv, HundredInv
<1> QED  BY <1>2, <1>5, <1>6, <1>7, <1>9 DEF IInv

LEMMA CountDetectedKeeps == ASSUME IInv, NEW f \in Places, CountDetected(f) PROVE IInv'
<1> USE DEF CountDetected, events
<1>1. /\ task' \in [Places -> TaskStates] /\ \A g \in Places : g # f => task'[g] = task[g]
      /\ task'[f].pc = "progress" /\ task'[f].progress = task[f].progress
  BY TaskMoves DEF IInv, TypeOK
<1>2. TreeInv' /\ PosInv' /\ HandedInv' /\ CountInv' /\ EndInv' /\ Nodes' = Nodes
  BY <1>1, TaskFrame
<1>3. /\ f \in PastScan' /\ f \in PastScan /\ f \in Counted' /\ f \in Counted
      /\ \A v : (f \in Classed(v)' <=> kind[f] = v) /\ f \notin Classed(v)
  BY <1>1 DEF PastScan, Counted, Classified, Classed
<1>4. PastScan' = PastScan /\ Counted' = Counted
  <2> HIDE DEF CountDetected
  <2>1. kind' = kind
    BY DEF CountDetected
  <2>2. PastScan' = PastScan
    <3>1. /\ \A g \in Places : g \in PastScan' <=> g \in PastScan
          /\ PastScan' \subseteq Places /\ PastScan \subseteq Places
      BY <2>1, <1>1, <1>3, SetsAfter
    <3> QED  BY <3>1
  <2>3. Counted' = Counted
    BY <2>1, <1>1, <1>3, SetsAfter
  <2> QED  BY <2>2, <2>3
<1>5. ASSUME NEW v
      PROVE  Cardinality(Classed(v)') = Cardinality(Classed(v)) + (IF kind[f] = v THEN 1 ELSE 0)
  <2>1. CASE kind[f] = v
    BY <2>1, <1>1, <1>3, SetsAfter, AddOne
  <2>2. CASE kind[f] # v
    <3>1. Classed(v)' = Classed(v)
      BY <2>2, <1>1, <1>3, SetsAfter
    <3>2. Cardinality(Classed(v)) \in Nat
      BY <1>1, SetsAfter, PlacesFinite
    <3> QED  BY <2>2, <3>1, <3>2
  <2> QED  BY <2>1, <2>2
<1>6. CountersInv'
  BY <1>4, <1>5 DEF IInv, CountersInv
<1>7. TypeOK'
  BY <1>1, <1>2 DEF IInv, TypeOK, walks
<1>8. ShownConsistent'
  BY DEF IInv, ShownConsistent
<1>9. malware_count <= malware_count' /\ suspicious_count <= suspicious_count'
  BY DEF IInv, TypeOK
<1>10. ReadInv'
  <2> SUFFICES ASSUME NEW g \in Places
               PROVE  /\ task'[g].pc = "suspicious" => task'[g].malware <= malware_count'
                      /\ task'[g].pc = "fire" => /\ task'[g].malware <= malware_count'
                                                 /\ task'[g].suspicious <= suspicious_count'
    BY DEF ReadInv
  <2>1. task[g].malware \in Nat /\ task[g].suspicious \in Nat
    BY DEF IInv, TypeOK, TaskStates
  <2>2. malware_count \in Nat /\ malware_count' \in Nat /\ suspicious_count \in Nat /\ suspicious_count' \in Nat
    BY <1>7 DEF IInv, TypeOK
  <2> QED  BY <2>1, <2>2, <1>1, <1>9 DEF IInv, ReadInv
<1>11. HundredInv'
  BY <1>1, <1>4, SameTree DEF IInv, HundredInv, AllCounted
<1> QED  BY <1>2, <1>6, <1>7, <1>8, <1>10, <1>11 DEF IInv

LEMMA NoProgressKeeps == ASSUME IInv, NEW f \in Places, NoProgress(f) PROVE IInv'
<1> USE DEF NoProgress, counts, events
<1>1. /\ task' \in [Places -> TaskStates] /\ \A g \in Places : g # f => task'[g] = task[g]
      /\ task'[f].pc = "done" /\ task'[f].progress = task[f].progress
  BY TaskMoves DEF IInv, TypeOK
<1>2. TreeInv' /\ PosInv' /\ HandedInv' /\ CountInv' /\ EndInv' /\ Nodes' = Nodes
  BY <1>1, TaskFrame
<1>3. CountersInv' /\ (AllCounted => AllCounted')
  BY <1>1, NoCountStep
<1>4. TypeOK'
  BY <1>1, <1>2 DEF IInv, TypeOK, walks
<1>5. ReadInv' /\ ShownConsistent'
  BY <1>1 DEF IInv, ReadInv, ShownConsistent
<1>6. HundredInv'
  BY <1>1, <1>3 DEF IInv, HundredInv
<1> QED  BY <1>2, <1>3, <1>4, <1>5, <1>6 DEF IInv

LEMMA ComputeProgressKeeps == ASSUME IInv, NEW f \in Places, ComputeProgress(f) PROVE IInv'
<1> USE DEF ComputeProgress, counts, events
<1> DEFINE x == Percent(scanned_count, to_scan_count)
<1>1. scanned_count \in Nat /\ to_scan_count \in Nat /\ to_scan_count # 0
  BY DEF IInv, TypeOK
<1>2. x \in 0..100 /\ (x = 100 => scanned_count >= to_scan_count)
  BY <1>1, HundredMeansAll
<1>3. task' = [task EXCEPT ![f].pc = "decide", ![f].progress = x]
  OBVIOUS
<1> HIDE DEF x
<1>4. /\ task' \in [Places -> TaskStates] /\ \A g \in Places : g # f => task'[g] = task[g]
      /\ task'[f].pc = "decide" /\ task'[f].progress = x
  <2>1. task \in [Places -> TaskStates]
    BY DEF IInv, TypeOK
  <2> HIDE DEF ComputeProgress
  <2>2. task[f] \in TaskStates /\ task'[f] = [task[f] EXCEPT !.pc = "decide", !.progress = x]
    BY <2>1, <1>3
  <2>3. task'[f] \in TaskStates /\ task'[f].pc = "decide" /\ task'[f].progress = x
    BY <2>2, <1>2 DEF TaskStates
  <2> QED  BY <2>1, <2>3, <1>3
<1>5. TreeInv' /\ PosInv' /\ HandedInv' /\ CountInv' /\ EndInv' /\ Nodes' = Nodes
  BY <1>4, TaskFrame
<1>6. CountersInv' /\ (AllCounted => AllCounted')
  BY <1>4, NoCountStep
<1>7. TypeOK'
  BY <1>4, <1>5 DEF IInv, TypeOK, walks
<1>8. ReadInv' /\ ShownConsistent'
  BY <1>4 DEF IInv, ReadInv, ShownConsistent
<1>9. x = 100 => AllCounted
  BY <1>1, <1>2, CountedAll DEF IInv
<1>10. HundredInv'
  BY <1>4, <1>6, <1>9 DEF IInv, HundredInv
<1> QED  BY <1>5, <1>6, <1>7, <1>8, <1>10 DEF IInv

LEMMA DecideKeeps == ASSUME IInv, NEW f \in Places, NEW timeout, Decide(f, timeout) PROVE IInv'
<1> USE DEF Decide, counts, events
<1>1. PICK c \in {"malware", "done"} : task' = [task EXCEPT ![f].pc = c]
  OBVIOUS
<1>2. /\ task' \in [Places -> TaskStates] /\ \A g \in Places : g # f => task'[g] = task[g]
      /\ task'[f].pc \in {"malware", "done"} /\ task'[f].progress = task[f].progress
  BY <1>1, TaskMoves DEF IInv, TypeOK
<1>3. TreeInv' /\ PosInv' /\ HandedInv' /\ CountInv' /\ EndInv' /\ Nodes' = Nodes
  BY <1>2, TaskFrame
<1>4. CountersInv' /\ (AllCounted => AllCounted')
  BY <1>2, NoCountStep
<1>5. TypeOK'
  BY <1>2, <1>3 DEF IInv, TypeOK, walks
<1>6. ReadInv' /\ ShownConsistent'
  BY <1>2 DEF IInv, ReadInv, ShownConsistent
<1>7. HundredInv'
  BY <1>2, <1>4 DEF IInv, HundredInv
<1> QED  BY <1>3, <1>4, <1>5, <1>6, <1>7 DEF IInv

LEMMA ReadMalwareKeeps == ASSUME IInv, NEW f \in Places, ReadMalware(f) PROVE IInv'
<1> USE DEF ReadMalware, counts, events
<1>1. /\ task' \in [Places -> TaskStates] /\ \A g \in Places : g # f => task'[g] = task[g]
      /\ task'[f].pc = "suspicious" /\ task'[f].progress = task[f].progress
      /\ task'[f].malware = malware_count
  <2>1. /\ task \in [Places -> TaskStates] /\ malware_count \in Nat
        /\ task' = [task EXCEPT ![f].pc = "suspicious", ![f].malware = malware_count]
    BY DEF IInv, TypeOK
  <2> HIDE DEF ReadMalware
  <2>2. /\ task[f] \in TaskStates
        /\ task'[f] = [task[f] EXCEPT !.pc = "suspicious", !.malware = malware_count]
    BY <2>1
  <2>3. /\ task'[f] \in TaskStates /\ task'[f].pc = "suspicious"
        /\ task'[f].progress = task[f].progress /\ task'[f].malware = malware_count
    BY <2>1, <2>2 DEF TaskStates
  <2> QED  BY <2>1, <2>3
<1>2. TreeInv' /\ PosInv' /\ HandedInv' /\ CountInv' /\ EndInv' /\ Nodes' = Nodes
  BY <1>1, TaskFrame
<1>3. CountersInv' /\ (AllCounted => AllCounted')
  BY <1>1, NoCountStep
<1>4. TypeOK'
  BY <1>1, <1>2 DEF IInv, TypeOK, walks
<1>5. ReadInv' /\ ShownConsistent'
  BY <1>1 DEF IInv, TypeOK, ReadInv, ShownConsistent
<1>6. HundredInv'
  BY <1>1, <1>3 DEF IInv, HundredInv
<1> QED  BY <1>2, <1>3, <1>4, <1>5, <1>6 DEF IInv

LEMMA ReadSuspiciousKeeps == ASSUME IInv, NEW f \in Places, ReadSuspicious(f) PROVE IInv'
<1> USE DEF ReadSuspicious, counts, events
<1>1. /\ task' \in [Places -> TaskStates] /\ \A g \in Places : g # f => task'[g] = task[g]
      /\ task'[f].pc = "fire" /\ task'[f].progress = task[f].progress
      /\ task'[f].malware = task[f].malware /\ task'[f].suspicious = suspicious_count
  <2>1. /\ task \in [Places -> TaskStates] /\ suspicious_count \in Nat
        /\ task' = [task EXCEPT ![f].pc = "fire", ![f].suspicious = suspicious_count]
    BY DEF IInv, TypeOK
  <2> HIDE DEF ReadSuspicious
  <2>2. /\ task[f] \in TaskStates
        /\ task'[f] = [task[f] EXCEPT !.pc = "fire", !.suspicious = suspicious_count]
    BY <2>1
  <2>3. /\ task'[f] \in TaskStates /\ task'[f].pc = "fire"
        /\ task'[f].progress = task[f].progress
        /\ task'[f].malware = task[f].malware /\ task'[f].suspicious = suspicious_count
    BY <2>1, <2>2 DEF TaskStates
  <2> QED  BY <2>1, <2>3
<1>2. TreeInv' /\ PosInv' /\ HandedInv' /\ CountInv' /\ EndInv' /\ Nodes' = Nodes
  BY <1>1, TaskFrame
<1>3. CountersInv' /\ (AllCounted => AllCounted')
  BY <1>1, NoCountStep
<1>4. TypeOK'
  BY <1>1, <1>2 DEF IInv, TypeOK, walks
<1>5. ReadInv' /\ ShownConsistent'
  BY <1>1 DEF IInv, TypeOK, ReadInv, ShownConsistent
<1>6. HundredInv'
  BY <1>1, <1>3 DEF IInv, HundredInv
<1> QED  BY <1>2, <1>3, <1>4, <1>5, <1>6 DEF IInv

LEMMA FireProgressKeeps == ASSUME IInv, NEW f \in Places, FireProgress(f) PROVE IInv'
<1> USE DEF FireProgress, counts
<1>1. /\ task' \in [Places -> TaskStates] /\ \A g \in Places : g # f => task'[g] = task[g]
      /\ task'[f].pc = "note" /\ task'[f].progress = task[f].progress
  BY TaskMoves DEF IInv, TypeOK
<1>2. TreeInv' /\ PosInv' /\ HandedInv' /\ CountInv' /\ EndInv' /\ Nodes' = Nodes
  BY <1>1, TaskFrame
<1>3. CountersInv' /\ (AllCounted => AllCounted')
  BY <1>1, NoCountStep
<1>4. /\ task[f].progress \in {Unknown} \cup 0..100
      /\ task[f].malware \in Nat /\ task[f].suspicious \in Nat
      /\ scanned_count \in Nat /\ malware_count \in Nat /\ suspicious_count \in Nat
  BY DEF IInv, TypeOK, TaskStates
<1>5. /\ shown'.progress = task[f].progress /\ shown'.malware = task[f].malware
      /\ shown'.suspicious = task[f].suspicious /\ shown'.scanned = scanned_count
      /\ shown' \in EventStates
  BY <1>4 DEF EventStates
<1>6. TypeOK'
  BY <1>1, <1>2, <1>5 DEF IInv, TypeOK, walks
<1>7. ShownConsistent'
  <2>1. task[f].malware <= malware_count /\ task[f].suspicious <= suspicious_count
    BY DEF IInv, ReadInv
  <2>2. malware_count + suspicious_count <= scanned_count
    BY DetectionsFit DEF IInv
  <2> QED  BY <2>1, <2>2, <1>4, <1>5 DEF ShownConsistent
<1>8. ReadInv'
  BY <1>1 DEF IInv, ReadInv
<1>9. HundredInv'
  BY <1>1, <1>3, <1>5 DEF IInv, HundredInv
<1> QED  BY <1>2, <1>3, <1>6, <1>7, <1>8, <1>9 DEF IInv

LEMMA NoteProgressKeeps == ASSUME IInv, NEW f \in Places, NoteProgress(f) PROVE IInv'
<1> USE DEF NoteProgress, counts, events
<1>1. /\ task' \in [Places -> TaskStates] /\ \A g \in Places : g # f => task'[g] = task[g]
      /\ task'[f].pc = "done" /\ task'[f].progress = task[f].progress
  BY TaskMoves DEF IInv, TypeOK
<1>2. TreeInv' /\ PosInv' /\ HandedInv' /\ CountInv' /\ EndInv' /\ Nodes' = Nodes
  BY <1>1, TaskFrame
<1>3. CountersInv' /\ (AllCounted => AllCounted')
  BY <1>1, NoCountStep
<1>4. TypeOK'
  <2>1. last_progress_value' \in {Unknown} \cup 0..100
    BY DEF IInv, TypeOK, TaskStates
  <2> QED  BY <2>1, <1>1, <1>2 DEF IInv, TypeOK, walks
<1>5. ReadInv' /\ ShownConsistent'
  BY <1>1 DEF IInv, ReadInv, ShownConsistent
<1>6. HundredInv'
  BY <1>1, <1>3 DEF IInv, HundredInv
<1> QED  BY <1>2, <1>3, <1>4, <1>5, <1>6 DEF IInv

----------------------------------------------------------------------------
(* The theorems.                                                           *)

LEMMA NextIInv == ASSUME IInv, [Next]_vars PROVE IInv'
<1>1. CASE Run
  BY <1>1, RunFileKeeps, RunDirectoryKeeps, RunNeitherKeeps, ScanWalkKeeps, CompleteKeeps,
     JoinKeeps DEF Run
<1>2. CASE Counting
  BY <1>2, CountWalkKeeps, PublishCountKeeps DEF Counting
<1>3. ASSUME NEW f \in Places, Task(f) PROVE IInv'
  BY <1>3, PoolStartsKeeps, ScanFileKeeps, CountScannedKeeps, CountDetectedKeeps,
     NoProgressKeeps, ComputeProgressKeeps, DecideKeeps, ReadMalwareKeeps, ReadSuspiciousKeeps,
     FireProgressKeeps, NoteProgressKeeps DEF Task
<1>4. CASE UNCHANGED vars
  <2> USE <1>4 DEF vars, walks, counts, events
  <2>1. CountersInv' /\ ReadInv' /\ ShownConsistent' /\ HundredInv' /\ TreeInv' /\ detections' \subseteq Nodes'
    BY NoTaskStep
  <2>2. TypeOK' /\ PosInv'
    BY <2>1, SameTree DEF IInv, TypeOK, PosInv
  <2>3. HandedInv' /\ CountInv'
    BY SameTree DEF IInv, HandedInv, CountInv
  <2>4. EndInv'
    BY DEF IInv, EndInv, Live
  <2> QED  BY <2>1, <2>2, <2>3, <2>4 DEF IInv
<1> QED  BY <1>1, <1>2, <1>3, <1>4 DEF Next, Done

\* The inductive invariant of the scan holds in every state, for any tree and pool.
THEOREM Invariance == Spec => []IInv
BY InitIInv, NextIInv, PTL DEF Spec

(* The completed event tells the truth, whatever the tree, the flags and   *)
(* the number of threads: the totals of CompletedTotals are those of the   *)
(* files os_dir_map can find, each scanned once by scan_file.              *)
THEOREM TotalsAreRight == Spec => []CompletedTotals
<1>1. IInv => CompletedTotals
  <2> SUFFICES ASSUME IInv, pc \in {"completed", "returned"}
               PROVE  /\ completed.scanned = Cardinality(ToScan)
                      /\ completed.malware = Cardinality({f \in ToScan : kind[f] = "MALWARE"})
                      /\ completed.suspicious = Cardinality({f \in ToScan : kind[f] = "SUSPICIOUS"})
                      /\ detections = {f \in ToScan : kind[f] \in Detected}
    BY DEF CompletedTotals
  <2>1. \A f \in Places : task[f].pc # "none" <=> f \in ToScan
    BY DEF IInv, HandedInv, PosInv, Behind
  <2>2. \A f \in Places : task[f].pc \in {"none", "done"}
    BY DEF IInv, EndInv, Live
  <2>3. ToScan \subseteq Places
    BY PlainProps DEF IInv
  <2>4. PastScan = ToScan
    BY <2>1, <2>2, <2>3 DEF PastScan
  <2>5. Counted = ToScan
    BY <2>2, <2>3, <2>4 DEF Counted
  <2>6. Classified = ToScan
    BY <2>2, <2>3, <2>5 DEF Classified
  <2>7. \A v : Classed(v) = {f \in ToScan : kind[f] = v}
    BY <2>6 DEF Classed
  <2> QED  BY <2>4, <2>5, <2>7 DEF IInv, EndInv, CountersInv
<1> QED  BY <1>1, Invariance, PTL

(* No progress event shows more detections than scanned files, however the *)
(* threads of the pool interleave update_counters and fire_progress_event. *)
THEOREM ShownIsConsistent == Spec => []ShownConsistent
<1>1. IInv => ShownConsistent
  BY DEF IInv
<1> QED  BY <1>1, Invariance, PTL

(* The number count_thread_fun publishes is that of the files the walk can *)
(* reach, and a progress of 100 is shown only when all of them have been   *)
(* scanned, whatever the two walks' speeds.                                *)
THEOREM ProgressIsTrue == Spec => []ProgressTrue
<1>1. IInv => ProgressTrue
  <2> SUFFICES ASSUME IInv PROVE ProgressTrue
    OBVIOUS
  <2>1. TypeOK /\ CountIsRight
    BY DEF IInv, CountInv, CountIsRight
  <2>2. HundredPercentMeansAll
    BY DEF IInv, HundredInv, HundredPercentMeansAll, AllCounted, Counted, PastScan
  <2> QED  BY <2>1, <2>2 DEF ProgressTrue
<1> QED  BY <1>1, Invariance, PTL

(* When a6o_on_demand_run has returned, neither a thread of the pool nor   *)
(* the counting thread runs: the scan may be freed.                        *)
THEOREM QuietWhenReturned == Spec => []QuietAfterReturn
<1>1. IInv => QuietAfterReturn
  BY PlainProps DEF IInv, EndInv, QuietAfterReturn
<1> QED  BY <1>1, Invariance, PTL
===============================================================================
