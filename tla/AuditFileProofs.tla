-------------------------- MODULE AuditFileProofs --------------------------
(***************************************************************************)
(* What is proved of AuditFile for every set of events, every number of    *)
(* days, lost writes and crashes, and every page size.                     *)
(***************************************************************************)
EXTENDS AuditFile, FiniteSetTheorems, FunctionTheorems, SequenceTheorems, TLAPS

-----------------------------------------------------------------------------
(* The inductive invariant.                                                *)

\* A request's event is of a day that has begun, and nothing of it is
\* written before it is held.
EventsInTime ==
  \A r \in Records :
    /\ event[r].day <= today
    /\ event[r].pc \in {"new", "held"} => ~ event[r].logged
    /\ event[r].pc # "done" => ~ event[r].stored

\* What retention removes has expired, and so has what was removed under an
\* open handle.
OnlyExpiredGoes ==
  /\ cleanup.left \subseteq cleanup.doomed
  /\ \A d \in cleanup.doomed : Expired(d)
  /\ \A d \in Days : disk[d].handle = "stale" => Expired(d)

\* A line is in the file of its event's day, and a cut line comes before a
\* whole one of the same event.
Lines ==
  \A d \in Days :
    LET f == disk[d].file
    IN  /\ \A i \in DOMAIN f : event[f[i].rec].day = d /\ event[f[i].rec].pc \notin {"new", "held"}
        /\ \A i, j \in DOMAIN f :
             f[i].rec = f[j].rec /\ f[i].part = "all" /\ f[j].part # "all" => j < i

\* What was written with success is there for as long as its day is kept.
Written ==
  \A r \in Records :
    Kept(event[r].day) =>
      /\ event[r].logged =>
           \E i \in DOMAIN disk[event[r].day].file :
             disk[event[r].day].file[i].rec = r /\ disk[event[r].day].file[i].part = "all"
      /\ event[r].stored => r \in payload

\* The lines a client is shown of the files from day a on before line i of
\* day d.
Before(files, a, d, i) ==
  {x \in (Days \cap a..d) \X Nat : x[2] \in Shown(files[x[1]].file) /\ (x[1] < d \/ x[2] < i)}

\* r is still to come in the walk w: in a file that is not scanned yet or among
\* the matches, and there are no fewer lines before it than were passed over.
Ahead(files, w, r, d, i) ==
  /\ i \in Shown(files[d].file) /\ files[d].file[i].rec = r
  /\ \/ /\ d >= w.day
        /\ Len(w.matched) + Cardinality(Before(files, w.day, d, i)) >= w.offset
     \/ /\ d < w.day
        /\ \E p \in DOMAIN w.matched :
             /\ p > w.offset /\ w.matched[p] = r
             /\ p <= Cardinality(Before(files, w.from, d, i)) + 1

\* Everything due is ahead, and the matches are no more than what is listed.
Complete(files, w) ==
  /\ \A r \in w.due : \E d \in w.from..w.to : \E i \in Nat : Ahead(files, w, r, d, i)
  /\ w.due # {} => Len(w.matched) <= Cardinality(Before(files, w.from, w.day, 0))

Walking ==
  /\ walk.pc = "idle" => walk.due = {}
  /\ walk.pc = "page" =>
       /\ walk.from <= walk.to /\ walk.to <= today /\ walk.from <= walk.day /\ walk.day <= walk.to + 1
       /\ Complete(disk, walk)

-----------------------------------------------------------------------------
(* Counting.                                                               *)

\* How many of the members of S come before i.
Rank(S, i) == Cardinality({j \in S : j < i})

(* Later members of a finite set have more members before them.            *)
LEMMA RankRises ==
  ASSUME NEW S \in SUBSET Nat, IsFiniteSet(S), NEW i \in S, NEW j \in S, i < j
  PROVE  Rank(S, i) \in Nat /\ Rank(S, j) \in Nat /\ Rank(S, i) < Rank(S, j)
<1> DEFINE A == {k \in S : k < i}  B == {k \in S : k < j}
<1>1. IsFiniteSet(A) /\ IsFiniteSet(B)
  BY FS_Subset
<1>2. A \subseteq B /\ i \in B /\ i \notin A
  <2>1. ASSUME NEW k \in S, k < i PROVE k < j
    <3>1. k \in Nat /\ i \in Nat /\ j \in Nat
      OBVIOUS
    <3> QED
      BY <2>1, <3>1
  <2>2. ~ (i < i)
    <3>1. i \in Nat
      OBVIOUS
    <3> QED
      BY <3>1
  <2> QED
    BY <2>1, <2>2
<1>3. Cardinality(A) <= Cardinality(B) /\ Cardinality(A) # Cardinality(B)
  BY <1>1, <1>2, FS_Subset, A # B
<1> QED
  BY <1>1, <1>3, FS_CardinalityType DEF Rank

(* The member with k - 1 members before it exists, for every k up to the   *)
(* number of members, and no other has as many before it.                  *)
LEMMA NthIsThere ==
  ASSUME NEW S \in SUBSET Nat, IsFiniteSet(S), NEW k \in 1..Cardinality(S)
  PROVE  Nth(S, k) \in S /\ Rank(S, Nth(S, k)) = k - 1
<1> DEFINE n == Cardinality(S)
           rank == [i \in S |-> Rank(S, i)]
<1>1. n \in Nat
  BY FS_CardinalityType
<1>2. ASSUME NEW i \in S PROVE Rank(S, i) \in 0..n - 1
  <2>1. IsFiniteSet(S \ {i}) /\ Cardinality(S \ {i}) = n - 1
    BY FS_RemoveElement
  <2>2. {j \in S : j < i} \in SUBSET (S \ {i})
    OBVIOUS
  <2>3. IsFiniteSet({j \in S : j < i}) /\ Cardinality({j \in S : j < i}) <= n - 1
    BY <2>1, <2>2, FS_Subset
  <2> QED
    BY <1>1, <2>3, FS_CardinalityType DEF Rank
<1>3. ASSUME NEW i \in S, NEW j \in S, i # j PROVE Rank(S, i) # Rank(S, j)
  <2>1. CASE i < j
    BY <2>1, RankRises
  <2>2. CASE j < i
    BY <2>2, RankRises
  <2> QED
    BY <1>3, <2>1, <2>2
<1>4. rank \in Injection(S, 0..n - 1)
  BY <1>2, <1>3, Fun_IsInj
<1>5. IsFiniteSet(0..n - 1) /\ Cardinality(0..n - 1) = n
  <2>1. 0 \in Int /\ n - 1 \in Int
    BY <1>1
  <2>2. /\ IsFiniteSet(0..n - 1)
        /\ Cardinality(0..n - 1) = IF 0 > n - 1 THEN 0 ELSE n - 1 - 0 + 1
    BY <2>1, FS_Interval
  <2> QED
    BY <1>1, <2>2
<1>6. rank \in Surjection(S, 0..n - 1)
  BY <1>4, <1>5, FS_Injection
<1>7. \E i \in S : Rank(S, i) = k - 1
  <2>1. k - 1 \in 0..n - 1
    BY <1>1
  <2> QED
    BY <1>6, <2>1 DEF Surjection
<1> QED
  BY <1>7 DEF Nth, Rank

LEMMA NthOfRank ==
  ASSUME NEW S \in SUBSET Nat, IsFiniteSet(S), NEW i \in S
  PROVE  Rank(S, i) + 1 \in 1..Cardinality(S) /\ Nth(S, Rank(S, i) + 1) = i
<1>1. IsFiniteSet(S \ {i}) /\ Cardinality(S \ {i}) = Cardinality(S) - 1 /\ Cardinality(S) \in Nat
  BY FS_RemoveElement, FS_CardinalityType
<1>2. {j \in S : j < i} \in SUBSET (S \ {i})
  OBVIOUS
<1>3. Rank(S, i) \in Nat /\ Rank(S, i) <= Cardinality(S) - 1
  BY <1>1, <1>2, FS_Subset, FS_CardinalityType DEF Rank
<1>4. Rank(S, i) + 1 \in 1..Cardinality(S)
  BY <1>1, <1>3
<1> DEFINE k == Rank(S, i) + 1
<1>5. Nth(S, k) \in S /\ Rank(S, Nth(S, k)) = Rank(S, i)
  BY <1>3, <1>4, NthIsThere
<1>6. Nth(S, k) = i
  <2> DEFINE m == Nth(S, k)
  <2>1. m \in S /\ Rank(S, m) = Rank(S, i)
    BY <1>5
  <2> HIDE DEF m
  <2>2. ASSUME m < i PROVE FALSE
    <3>1. Rank(S, m) < Rank(S, i)
      BY <2>1, <2>2, RankRises
    <3> QED
      BY <3>1, <2>1, <1>3
  <2>3. ASSUME i < m PROVE FALSE
    <3>1. Rank(S, i) < Rank(S, m)
      BY <2>1, <2>3, RankRises
    <3> QED
      BY <3>1, <2>1, <1>3
  <2>4. m \in Nat /\ i \in Nat
    BY <2>1
  <2>5. m = i
    BY <2>2, <2>3, <2>4
  <2> QED
    BY <2>5 DEF m
<1> QED
  BY <1>4, <1>6

-----------------------------------------------------------------------------
(* What a scan shows of a file.                                            *)

LEMMA ShownLines ==
  ASSUME NEW f \in Seq(Pieces)
  PROVE  /\ Shown(f) \in SUBSET Nat /\ Shown(f) \subseteq DOMAIN f
         /\ IsFiniteSet(Shown(f)) /\ Cardinality(Shown(f)) \in Nat
         /\ \A i \in Shown(f) : f[i].rec \in Wanted
<1>1. Shown(f) \subseteq 1..Len(f) /\ \A i \in Shown(f) : f[i].rec \in Wanted
  BY DEF Shown, Readable
<1>2. Len(f) \in Nat /\ DOMAIN f = 1..Len(f)
  OBVIOUS
<1>3. IsFiniteSet(1..Len(f))
  BY <1>2, FS_Interval
<1> QED
  BY <1>1, <1>2, <1>3, FS_Subset, FS_CardinalityType

(* A scan answers with as many events as are shown, each at its place.     *)
LEMMA ScanShows ==
  ASSUME NEW f \in Seq(Pieces)
  PROVE  /\ Scan(f) \in Seq(Wanted)
         /\ Len(Scan(f)) = Cardinality(Shown(f))
         /\ \A i \in Shown(f) : /\ Rank(Shown(f), i) \in Nat
                                /\ Rank(Shown(f), i) + 1 \in 1..Cardinality(Shown(f))
                                /\ Scan(f)[Rank(Shown(f), i) + 1] = f[i].rec
<1> DEFINE S == Shown(f)
           n == Cardinality(S)
<1>1. S \in SUBSET Nat /\ IsFiniteSet(S) /\ n \in Nat /\ \A i \in S : f[i].rec \in Wanted
  BY ShownLines
<1> HIDE DEF S
<1>2. \A k \in 1..n : Nth(S, k) \in S
  BY <1>1, NthIsThere
<1>3. Scan(f) = [k \in 1..n |-> f[Nth(S, k)].rec]
  BY DEF Scan, S
<1>4. Scan(f) \in Seq(Wanted) /\ Len(Scan(f)) = n
  <2>1. Scan(f) \in [1..n -> Wanted]
    BY <1>1, <1>2, <1>3
  <2> QED
    BY <1>1, <2>1
<1>5. ASSUME NEW i \in S
      PROVE  Rank(S, i) \in Nat /\ Rank(S, i) + 1 \in 1..n /\ Scan(f)[Rank(S, i) + 1] = f[i].rec
  <2>1. Rank(S, i) + 1 \in 1..n /\ Nth(S, Rank(S, i) + 1) = i
    BY <1>1, NthOfRank
  <2>2. Rank(S, i) \in Nat
    BY <1>1, FS_Subset, FS_CardinalityType DEF Rank
  <2> QED
    BY <1>3, <2>1, <2>2
<1> QED
  BY <1>4, <1>5 DEF S

-----------------------------------------------------------------------------
(* What a write leaves in a file.                                          *)

FileStates == [file : Seq(Pieces), handle : {"none", "live", "stale"}]

\* g is f and pieces of event r, a whole line only as the last of them.
Grown(f, g, r) ==
  /\ g \in Seq(Pieces) /\ Len(f) <= Len(g)
  /\ \A i \in 1..Len(f) : g[i] = f[i]
  /\ \A i \in 1..Len(g) : i > Len(f) => g[i].rec = r /\ (g[i].part = "all" => i = Len(g))

Whole(g, r) == Len(g) > 0 /\ g[Len(g)].rec = r /\ g[Len(g)].part = "all"

LEMMA PutPiece ==
  ASSUME NEW fs \in FileStates, NEW c \in Pieces
  PROVE  /\ Put(fs, c) \in FileStates /\ Put(fs, c).handle = fs.handle
         /\ Put(fs, c).file = fs.file \/ Put(fs, c).file = Append(fs.file, c)
         /\ fs.handle = "live" => Put(fs, c).file = Append(fs.file, c)
<1>1. Append(fs.file, c) \in Seq(Pieces)
  BY DEF FileStates
<1> QED
  BY <1>1 DEF Put, FileStates

LEMMA OpenFile ==
  ASSUME NEW fs \in FileStates
  PROVE  /\ Open(fs) \in FileStates /\ Open(fs).file = fs.file /\ Open(fs).handle = "live"
         /\ Handle(fs) \in FileStates /\ Handle(fs).file = fs.file
         /\ Handle(fs).handle = IF fs.handle = "none" THEN "live" ELSE fs.handle
BY DEF FileStates, Open, Handle

LEMMA PieceKinds ==
  ASSUME NEW r \in Records
  PROVE  /\ Line(r) \in Pieces /\ Line(r).rec = r /\ Line(r).part = "all"
         /\ \A c \in Cuts(r) : c \in Pieces /\ c.rec = r /\ c.part # "all"
<1> DEFINE long == (r \in Long)
<1>1. long \in BOOLEAN
  OBVIOUS
<1>2. Line(r) = [rec |-> r, part |-> "all", long |-> long]
  BY DEF Line, Piece
<1>3. \A c \in Cuts(r) : \/ c = [rec |-> r, part |-> "bare", long |-> long]
                         \/ \E l \in {FALSE, long} : c = [rec |-> r, part |-> "some", long |-> l]
  BY DEF Cuts, Piece
<1> HIDE DEF long
<1>4. Line(r) \in Pieces /\ Line(r).rec = r /\ Line(r).part = "all"
  BY <1>1, <1>2 DEF Pieces
<1>5. ASSUME NEW c \in Cuts(r) PROVE c \in Pieces /\ c.rec = r /\ c.part # "all"
  <2>1. CASE c = [rec |-> r, part |-> "bare", long |-> long]
    BY <1>1, <2>1 DEF Pieces
  <2>2. CASE \E l \in {FALSE, long} : c = [rec |-> r, part |-> "some", long |-> l]
    <3>1. PICK l \in {FALSE, long} : c = [rec |-> r, part |-> "some", long |-> l]
      BY <2>2
    <3>2. l \in BOOLEAN
      BY <1>1
    <3> QED
      BY <3>1, <3>2 DEF Pieces
  <2> QED
    BY <1>3, <2>1, <2>2
<1> QED
  BY <1>4, <1>5

\* A failed attempt leaves the file alone or appends a cut line.
LEMMA FailedAttempt ==
  ASSUME NEW fs \in FileStates, NEW r \in Records, NEW h \in Failed(fs, r)
  PROVE  /\ h \in FileStates /\ h.handle = fs.handle
         /\ h.file = fs.file \/ \E c \in Cuts(r) : h.file = Append(fs.file, c)
<1>1. CASE h = fs
  BY <1>1
<1>2. CASE \E c \in Cuts(r) : h = Put(fs, c)
  <2>1. PICK c \in Cuts(r) : h = Put(fs, c)
    BY <1>2
  <2>2. c \in Pieces
    BY PieceKinds
  <2> QED
    BY <2>1, <2>2, PutPiece
<1> QED
  BY <1>1, <1>2 DEF Failed

\* One or two cut lines, or a whole one after at most one cut line.
LEMMA AppendedPieces ==
  ASSUME NEW f \in Seq(Pieces), NEW r \in Records, NEW c \in Cuts(r), NEW e \in Cuts(r) \cup {Line(r)}
  PROVE  /\ Grown(f, f, r) /\ Grown(f, Append(f, e), r) /\ Grown(f, Append(Append(f, c), e), r)
         /\ Whole(Append(f, Line(r)), r) /\ Whole(Append(Append(f, c), Line(r)), r)
<1>1. c \in Pieces /\ c.rec = r /\ c.part # "all" /\ e \in Pieces /\ e.rec = r
  BY PieceKinds
<1>2. Line(r) \in Pieces /\ Line(r).rec = r /\ Line(r).part = "all"
  BY PieceKinds
<1> HIDE DEF Line, Cuts
<1>3. Grown(f, f, r)
  BY DEF Grown
<1>4. ASSUME NEW d \in Pieces
      PROVE  /\ Append(f, d) \in Seq(Pieces) /\ Len(Append(f, d)) = Len(f) + 1
             /\ \A i \in 1..Len(f) : Append(f, d)[i] = f[i]
             /\ Append(f, d)[Len(f) + 1] = d
  OBVIOUS
<1>5. ASSUME NEW g \in Seq(Pieces), Grown(f, g, r), NEW d \in Pieces, d.rec = r,
             \A i \in 1..Len(g) : i > Len(f) => g[i].part # "all"
      PROVE  Grown(f, Append(g, d), r)
  BY <1>5 DEF Grown
<1>6. Grown(f, Append(f, e), r) /\ Grown(f, Append(f, c), r)
  BY <1>1, <1>3, <1>5
<1>7. \A i \in 1..Len(Append(f, c)) : i > Len(f) => Append(f, c)[i].part # "all"
  BY <1>1, <1>4
<1>8. Grown(f, Append(Append(f, c), e), r)
  BY <1>1, <1>4, <1>5, <1>6, <1>7
<1>9. Whole(Append(f, Line(r)), r) /\ Whole(Append(Append(f, c), Line(r)), r)
  BY <1>1, <1>2, <1>4 DEF Whole
<1> QED
  BY <1>3, <1>6, <1>8, <1>9

(* A write, whatever becomes of its two attempts, only adds pieces of its  *)
(* event to the file; a write that succeeds ends with a whole line, unless *)
(* it went to the file of a removed directory; no write makes a handle     *)
(* stale.                                                                  *)
LEMMA WriteOutcome ==
  ASSUME NEW fs \in FileStates, NEW r \in Records, NEW out \in WriteOutcomes(fs, r)
  PROVE  /\ out.disk \in FileStates /\ out.ok \in BOOLEAN
         /\ Grown(fs.file, out.disk.file, r)
         /\ out.disk.handle = "stale" => fs.handle = "stale"
         /\ out.ok => fs.handle = "stale" \/ Whole(out.disk.file, r)
<1> DEFINE shut == {[f EXCEPT !.handle = "none"] : f \in Failed(Handle(fs), r)}
           h == out.disk
<1>1. fs.file \in Seq(Pieces) /\ Line(r) \in Pieces /\ \A c \in Cuts(r) : c \in Pieces
  BY PieceKinds DEF FileStates
<1>2. ASSUME NEW f \in shut
      PROVE  /\ f \in FileStates /\ f.handle = "none"
             /\ f.file = fs.file \/ \E c \in Cuts(r) : f.file = Append(fs.file, c)
  <2>1. PICK g \in Failed(Handle(fs), r) : f = [g EXCEPT !.handle = "none"]
    OBVIOUS
  <2>2. g \in FileStates /\ (g.file = fs.file \/ \E c \in Cuts(r) : g.file = Append(fs.file, c))
    BY OpenFile, FailedAttempt
  <2> QED
    BY <2>1, <2>2 DEF FileStates
<1>3. \/ h = Put(Handle(fs), Line(r)) /\ out.ok = TRUE
      \/ h = fs /\ out.ok = FALSE
      \/ h \in shut /\ out.ok = FALSE
      \/ \E f \in shut : h = Put(Open(f), Line(r)) /\ out.ok = TRUE
      \/ \E f \in shut : h \in Failed(Open(f), r) /\ out.ok = FALSE
  BY DEF WriteOutcomes
<1> HIDE DEF shut, h, Line, Cuts
<1>4. PICK c \in Cuts(r) : TRUE
  BY DEF Cuts
<1>5. CASE h = Put(Handle(fs), Line(r)) /\ out.ok = TRUE
  <2> DEFINE g == Handle(fs)
  <2>0. /\ g \in FileStates /\ g.file = fs.file /\ h = Put(g, Line(r))
        /\ g.handle = IF fs.handle = "none" THEN "live" ELSE fs.handle
    BY <1>5, OpenFile
  <2> HIDE DEF g
  <2>1. h \in FileStates /\ h.handle = g.handle
    BY <1>1, <2>0, PutPiece
  <2>2. h.file = g.file \/ h.file = Append(g.file, Line(r))
    BY <1>1, <2>0, PutPiece
  <2>3. fs.handle # "stale" => h.file = Append(fs.file, Line(r))
    <3>1. fs.handle # "stale" => g.handle = "live"
      BY <2>0 DEF FileStates
    <3>2. g.handle = "live" => h.file = Append(g.file, Line(r))
      BY <1>1, <2>0, PutPiece
    <3> QED
      BY <2>0, <3>1, <3>2
  <2>4. h.handle = "stale" => fs.handle = "stale"
    BY <2>0, <2>1
  <2> QED
    BY <1>1, <1>4, <1>5, <2>0, <2>1, <2>2, <2>3, <2>4, AppendedPieces DEF h
<1>6. CASE h = fs /\ out.ok = FALSE
  BY <1>1, <1>4, <1>6, AppendedPieces DEF h
<1>7. CASE h \in shut /\ out.ok = FALSE
  BY <1>1, <1>2, <1>4, <1>7, AppendedPieces DEF h
<1>8. CASE \E f \in shut : h = Put(Open(f), Line(r)) /\ out.ok = TRUE
  <2>1. PICK f \in shut : h = Put(Open(f), Line(r)) /\ out.ok = TRUE
    BY <1>8
  <2>2. f \in FileStates /\ (f.file = fs.file \/ \E e \in Cuts(r) : f.file = Append(fs.file, e))
    BY <1>2
  <2>3. h \in FileStates /\ h.handle = "live" /\ h.file = Append(f.file, Line(r))
    <3> DEFINE g == Open(f)
    <3>1. g \in FileStates /\ g.file = f.file /\ g.handle = "live" /\ h = Put(g, Line(r))
      BY <2>1, <2>2, OpenFile
    <3> HIDE DEF g
    <3>2. h \in FileStates /\ h.handle = g.handle
      BY <1>1, <3>1, PutPiece
    <3>3. h.file = Append(g.file, Line(r))
      BY <1>1, <3>1, PutPiece
    <3> QED
      BY <3>1, <3>2, <3>3
  <2>4. Grown(fs.file, h.file, r) /\ Whole(h.file, r)
    BY <1>1, <1>4, <2>2, <2>3, AppendedPieces
  <2> QED
    BY <2>1, <2>3, <2>4 DEF h
<1>9. CASE \E f \in shut : h \in Failed(Open(f), r) /\ out.ok = FALSE
  <2>1. PICK f \in shut : h \in Failed(Open(f), r) /\ out.ok = FALSE
    BY <1>9
  <2>2. f \in FileStates /\ (f.file = fs.file \/ \E e \in Cuts(r) : f.file = Append(fs.file, e))
    BY <1>2
  <2>3. h \in FileStates /\ h.handle = "live"
        /\ (h.file = f.file \/ \E e \in Cuts(r) : h.file = Append(f.file, e))
    BY <2>1, <2>2, OpenFile, FailedAttempt
  <2>4. Grown(fs.file, h.file, r)
    BY <1>1, <1>4, <2>2, <2>3, AppendedPieces
  <2> QED
    BY <2>1, <2>3, <2>4 DEF h
<1> QED
  BY <1>3, <1>5, <1>6, <1>7, <1>8, <1>9

-----------------------------------------------------------------------------
(* Types.                                                                  *)

EventStates == [pc : {"new", "held", "logged", "done"}, day : Days, logged : BOOLEAN, stored : BOOLEAN]
WalkStates == [pc : {"idle", "page"}, from : Days, to : Days, day : 0..LastDay + 1,
               matched : Seq(Wanted), offset : Nat, due : SUBSET Wanted]

\* TypeOK but for the client.
LogTypeOK ==
  /\ today \in Days
  /\ event \in [Records -> EventStates]
  /\ disk \in [Days -> FileStates]
  /\ payload \subseteq Records
  /\ cleanup \in [stage : {"idle", "metadata", "payloads"}, doomed : SUBSET Days, left : SUBSET Days]

LEMMA TypeParts == TypeOK <=> LogTypeOK /\ walk \in WalkStates
BY DEF TypeOK, LogTypeOK, EventStates, FileStates, WalkStates

LEMMA DaysAreNaturals ==
  /\ LastDay \in Nat /\ 0 \in Days /\ Days \subseteq Nat /\ MaxAge \in Nat
  /\ \A d \in Days : d <= LastDay
BY DaysAssumption DEF Days

LEMMA EarlierLines ==
  /\ [k \in DOMAIN Earlier |-> Line(Earlier[k])] \in Seq(Pieces)
  /\ ToSet(Earlier) \subseteq Records
<1>1. Earlier \in Seq(Records)
  BY RecordsAssumption
<1>2. \A k \in DOMAIN Earlier : Line(Earlier[k]) \in Pieces
  BY <1>1, PieceKinds
<1>3. DOMAIN Earlier = 1..Len(Earlier) /\ Len(Earlier) \in Nat
  BY <1>1
<1> HIDE DEF Line
<1>4. [k \in DOMAIN Earlier |-> Line(Earlier[k])] \in [1..Len(Earlier) -> Pieces]
  BY <1>2, <1>3
<1> QED
  BY <1>1, <1>3, <1>4 DEF ToSet

LEMMA NoWalkType == NoWalk \in WalkStates
<1>1. <<>> \in Seq(Wanted) /\ 0 \in 0..LastDay + 1 /\ {} \in SUBSET Wanted
  BY DaysAreNaturals
<1> QED
  BY <1>1, DaysAreNaturals DEF NoWalk, WalkStates

LEMMA InitialTypes == Init => TypeOK
<1> SUFFICES ASSUME Init PROVE TypeOK
  OBVIOUS
<1> USE DaysAreNaturals
<1>1. today \in Days
  BY DEF Init
<1>2. event \in [Records -> EventStates]
  BY DEF Init, EventStates
<1>3. disk \in [Days -> FileStates]
  <2>1. [Closed EXCEPT !.file = [k \in DOMAIN Earlier |-> Line(Earlier[k])]] \in FileStates
    BY EarlierLines DEF Closed, FileStates
  <2>2. [Closed EXCEPT !.file = @] \in FileStates
    <3>1. <<>> \in Seq(Pieces)
      OBVIOUS
    <3> QED
      BY <3>1 DEF Closed, FileStates
  <2>3. ASSUME NEW d \in Days
        PROVE  [Closed EXCEPT !.file = IF d = 0 THEN [k \in DOMAIN Earlier |-> Line(Earlier[k])] ELSE @] \in FileStates
    BY <2>1, <2>2
  <2> QED
    BY <2>3 DEF Init
<1>4. payload \subseteq Records
  BY EarlierLines DEF Init
<1>5. cleanup \in [stage : {"idle", "metadata", "payloads"}, doomed : SUBSET Days, left : SUBSET Days]
  BY DEF Init, NoCleanup
<1>6. walk \in WalkStates
  BY NoWalkType DEF Init
<1> QED
  BY <1>1, <1>2, <1>3, <1>4, <1>5, <1>6, TypeParts DEF LogTypeOK

LEMMA PageType ==
  ASSUME NEW w \in WalkStates, today \in Days, NEW offset \in Nat
  PROVE  /\ Page(w, offset) \in WalkStates
         /\ Page(w, offset).pc = "page" /\ Page(w, offset).from = w.from /\ Page(w, offset).to = today
         /\ Page(w, offset).day = w.from /\ Page(w, offset).matched = <<>>
         /\ Page(w, offset).offset = offset /\ Page(w, offset).due = w.due
<1>1. w.from \in 0..LastDay + 1 /\ <<>> \in Seq(Wanted)
  BY DaysAreNaturals DEF WalkStates, Days
<1> QED
  BY <1>1 DEF Page, WalkStates

\* A walk that is watched loses what is due at most.
LEMMA WatchType ==
  ASSUME NEW w \in WalkStates, Watch(w)
  PROVE  /\ walk' \in WalkStates
         /\ \/ walk' = w /\ (w.pc = "page" => Listed(disk, w.from) \subseteq Listed(disk', w.from))
            \/ /\ walk' = [w EXCEPT !.due = {}] /\ w.pc = "page"
BY DEF Watch, WalkStates

LEMMA InterruptedType ==
  ASSUME NEW w \in WalkStates, today \in Days
  PROVE  Interrupted(w) \in WalkStates
BY PageType DEF Interrupted, WalkStates

\* What a write leaves behind; the day of an event is a day.
LEMMA WriteType ==
  ASSUME LogTypeOK, NEW r \in Records, NEW out \in WriteOutcomes(disk[event[r].day], r)
  PROVE  /\ event[r] \in EventStates /\ event[r].day \in Days /\ disk[event[r].day] \in FileStates
         /\ out.disk \in FileStates /\ out.ok \in BOOLEAN
<1>1. event[r] \in EventStates /\ event[r].day \in Days /\ disk[event[r].day] \in FileStates
  BY DEF LogTypeOK, EventStates
<1> QED
  BY <1>1, WriteOutcome

\* The disk that a crash leaves: as it was, or with a write in progress.
LEMMA RestartDisk ==
  ASSUME LogTypeOK, Restart
  PROVE  /\ \/ disk' = [d \in Days |-> [disk[d] EXCEPT !.handle = "none"]]
            \/ \E r \in Records : \E out \in WriteOutcomes(disk[event[r].day], r) :
                 /\ event[r].pc = "held"
                 /\ disk' = [d \in Days |->
                               [[disk EXCEPT ![event[r].day] = out.disk][d] EXCEPT !.handle = "none"]]
         /\ disk' \in [Days -> FileStates]
<1> DEFINE Left == {[disk EXCEPT ![event[w[1]].day] = w[2].disk] :
                      w \in UNION {{r} \X WriteOutcomes(disk[event[r].day], r) :
                                     r \in {q \in Records : event[q].pc = "held"}}}
           After(files) == [d \in Days |-> [files[d] EXCEPT !.handle = "none"]]
<1>1. PICK written \in {disk} \cup Left : disk' = After(written)
  BY DEF Restart
<1>2. ASSUME NEW files \in [Days -> FileStates] PROVE After(files) \in [Days -> FileStates]
  BY DEF FileStates
<1>3. CASE written = disk
  BY <1>1, <1>2, <1>3 DEF LogTypeOK
<1>4. CASE written \in Left
  <2>1. PICK w \in UNION {{r} \X WriteOutcomes(disk[event[r].day], r) :
                            r \in {q \in Records : event[q].pc = "held"}} :
               written = [disk EXCEPT ![event[w[1]].day] = w[2].disk]
    BY <1>4
  <2>2. PICK r \in {q \in Records : event[q].pc = "held"} : w \in {r} \X WriteOutcomes(disk[event[r].day], r)
    BY <2>1
  <2> DEFINE out == w[2]
  <2>3. r \in Records /\ event[r].pc = "held" /\ w[1] = r /\ out \in WriteOutcomes(disk[event[r].day], r)
    BY <2>2
  <2>4. written = [disk EXCEPT ![event[r].day] = out.disk]
    BY <2>1, <2>3
  <2> HIDE DEF out
  <2>5. out.disk \in FileStates /\ event[r].day \in Days
    BY <2>3, WriteType
  <2>6. written \in [Days -> FileStates]
    BY <2>4, <2>5 DEF LogTypeOK
  <2>7. disk' = [d \in Days |-> [[disk EXCEPT ![event[r].day] = out.disk][d] EXCEPT !.handle = "none"]]
    BY <1>1, <2>4
  <2> QED
    BY <1>1, <1>2, <2>3, <2>6, <2>7
<1> QED
  BY <1>1, <1>3, <1>4

LEMMA LogTypes == LogTypeOK /\ [Next]_vars => LogTypeOK'
<1> SUFFICES ASSUME LogTypeOK, [Next]_vars PROVE LogTypeOK'
  OBVIOUS
<1> USE DaysAreNaturals
<1>1. CASE Tick
  BY <1>1 DEF Tick, LogTypeOK, Days
<1>2. ASSUME NEW r \in Records, Begin(r) PROVE LogTypeOK'
  <2>1. event' \in [Records -> EventStates]
    BY <1>2 DEF Begin, LogTypeOK, EventStates
  <2> QED
    BY <1>2, <2>1 DEF Begin, LogTypeOK
<1>3. ASSUME NEW r \in Records, WriteMetadata(r) PROVE LogTypeOK'
  <2>1. PICK out \in WriteOutcomes(disk[event[r].day], r) :
          /\ disk' = [disk EXCEPT ![event[r].day] = out.disk]
          /\ event' = [event EXCEPT ![r] = [@ EXCEPT !.pc = "logged", !.logged = out.ok]]
    BY <1>3 DEF WriteMetadata
  <2>2. out.disk \in FileStates /\ out.ok \in BOOLEAN
    BY WriteType
  <2>3. disk' \in [Days -> FileStates]
    BY <2>1, <2>2 DEF LogTypeOK
  <2>4. event' \in [Records -> EventStates]
    <3>1. event[r] \in EventStates
      BY DEF LogTypeOK
    <3>2. [event[r] EXCEPT !.pc = "logged", !.logged = out.ok] \in EventStates
      BY <2>2, <3>1 DEF EventStates
    <3> QED
      BY <2>1, <3>2 DEF LogTypeOK
  <2>5. UNCHANGED <<today, payload, cleanup>>
    BY <1>3 DEF WriteMetadata
  <2> QED
    BY <2>3, <2>4, <2>5 DEF LogTypeOK
<1>4. ASSUME NEW r \in Records, WritePayload(r) PROVE LogTypeOK'
  <2>1. PICK ok \in BOOLEAN :
          /\ payload' = IF ok THEN payload \cup {r} ELSE payload
          /\ event' = [event EXCEPT ![r] = [@ EXCEPT !.pc = "done", !.stored = ok]]
    BY <1>4 DEF WritePayload
  <2>2. event' \in [Records -> EventStates]
    <3>1. event[r] \in EventStates
      BY DEF LogTypeOK
    <3>2. [event[r] EXCEPT !.pc = "done", !.stored = ok] \in EventStates
      BY <3>1 DEF EventStates
    <3> QED
      BY <2>1, <3>2 DEF LogTypeOK
  <2>3. payload' \subseteq Records
    BY <2>1 DEF LogTypeOK
  <2> QED
    BY <1>4, <2>2, <2>3 DEF WritePayload, LogTypeOK
<1>5. CASE StartCleanup
  BY <1>5 DEF StartCleanup, LogTypeOK
<1>6. ASSUME NEW d \in Days, RemoveDay(d) PROVE LogTypeOK'
  <2>1. cleanup' \in [stage : {"idle", "metadata", "payloads"}, doomed : SUBSET Days, left : SUBSET Days]
    BY <1>6 DEF RemoveDay, LogTypeOK
  <2>2. payload' \subseteq Records
    BY <1>6 DEF RemoveDay, LogTypeOK
  <2>3. disk' \in [Days -> FileStates]
    <3>1. [file |-> <<>>, handle |-> IF disk[d].handle = "none" THEN "none" ELSE "stale"] \in FileStates
      BY DEF FileStates
    <3> QED
      BY <1>6, <3>1 DEF RemoveDay, LogTypeOK
  <2> QED
    BY <1>6, <2>1, <2>2, <2>3 DEF RemoveDay, LogTypeOK
<1>7. CASE NextStage
  BY <1>7 DEF NextStage, LogTypeOK, NoCleanup
<1>8. CASE Restart
  <2>1. disk' \in [Days -> FileStates]
    BY <1>8, RestartDisk
  <2>2. event' \in [Records -> EventStates]
    BY <1>8 DEF Restart, LogTypeOK, EventStates
  <2>3. payload' \subseteq Records
    BY <1>8 DEF Restart, LogTypeOK
  <2>4. cleanup' \in [stage : {"idle", "metadata", "payloads"}, doomed : SUBSET Days, left : SUBSET Days]
    BY <1>8 DEF Restart, NoCleanup
  <2> QED
    BY <1>8, <2>1, <2>2, <2>3, <2>4 DEF Restart, LogTypeOK
<1>9. CASE Read \/ UNCHANGED vars
  BY <1>9 DEF Read, BeginWalk, ScanDay, AnswerPage, vars, LogTypeOK
<1> QED
  BY <1>1, <1>2, <1>3, <1>4, <1>5, <1>6, <1>7, <1>8, <1>9 DEF Next, WriteEvent, Clean

\* The page that AnswerPage cuts out.
LEMMA PageBounds ==
  ASSUME NEW total \in Nat, NEW offset \in Nat
  PROVE  /\ PageRange(total, offset, Limit)[1] = IF offset > total THEN total ELSE offset
         /\ PageRange(total, offset, Limit)[2] =
              IF PageRange(total, offset, Limit)[1] + Limit > total THEN total
              ELSE PageRange(total, offset, Limit)[1] + Limit
BY DEF PageRange

LEMMA ListedWanted == \A files, from : Listed(files, from) \subseteq Wanted
BY DEF Listed

LEMMA ReadTypes ==
  ASSUME LogTypeOK, walk \in WalkStates, Read
  PROVE  walk' \in WalkStates
<1> USE DaysAreNaturals
<1>0. today \in Days
  BY DEF LogTypeOK
<1>1. CASE BeginWalk
  <2>1. PICK from \in 0..today : walk' = Page([NoWalk EXCEPT !.from = from, !.due = Listed(disk, from)], 0)
    BY <1>1 DEF BeginWalk
  <2>2. from \in Days
    BY <1>0 DEF Days
  <2>3. Listed(disk, from) \subseteq Wanted
    BY ListedWanted
  <2>4. [NoWalk EXCEPT !.from = from, !.due = Listed(disk, from)] \in WalkStates
    <3>1. [NoWalk EXCEPT !.from = from] \in WalkStates
      BY <2>2, NoWalkType DEF WalkStates
    <3> QED
      BY <2>3, <3>1 DEF WalkStates
  <2> QED
    BY <1>0, <2>1, <2>4, PageType
<1>2. CASE ScanDay
  <2>1. walk.day <= walk.to /\ walk' = [walk EXCEPT !.matched = @ \o Scan(disk[walk.day].file), !.day = @ + 1]
    BY <1>2 DEF ScanDay
  <2>2. walk.day \in Days /\ walk.day + 1 \in 0..LastDay + 1
    BY <2>1 DEF WalkStates, Days
  <2>3. Scan(disk[walk.day].file) \in Seq(Wanted)
    BY <2>2, ScanShows DEF LogTypeOK, FileStates
  <2>4. walk.matched \o Scan(disk[walk.day].file) \in Seq(Wanted)
    BY <2>3 DEF WalkStates
  <2> QED
    BY <2>1, <2>2, <2>4 DEF WalkStates
<1>3. CASE AnswerPage
  <2> DEFINE total == Len(walk.matched)
             range == PageRange(total, walk.offset, Limit)
             left  == walk.due \ ToSet(SubSeq(walk.matched, range[1] + 1, range[2]))
  <2>1. walk' = IF walk.offset + Limit < total
                THEN Page([walk EXCEPT !.due = left], walk.offset + Limit)
                ELSE [NoWalk EXCEPT !.due = left]
    BY <1>3 DEF AnswerPage
  <2>2. left \subseteq Wanted
    BY DEF WalkStates
  <2> HIDE DEF left, total
  <2>3. [walk EXCEPT !.due = left] \in WalkStates /\ [NoWalk EXCEPT !.due = left] \in WalkStates
    BY <2>2, NoWalkType DEF WalkStates
  <2>4. walk.offset + Limit \in Nat
    BY BoundsAssumption DEF WalkStates
  <2>5. Page([walk EXCEPT !.due = left], walk.offset + Limit) \in WalkStates
    BY <1>0, <2>3, <2>4, PageType
  <2> QED
    BY <2>1, <2>3, <2>5
<1> QED
  BY <1>1, <1>2, <1>3 DEF Read

\* Every other step watches the walk, or the one that was interrupted.
LEMMA Watches ==
  ASSUME [Next]_vars
  PROVE  \/ Read /\ UNCHANGED <<today, event, disk, payload, cleanup>>
         \/ UNCHANGED vars
         \/ Watch(walk) /\ ~ Restart
         \/ Watch(Interrupted(walk)) /\ Restart
BY DEF Next, Tick, WriteEvent, Begin, WriteMetadata, WritePayload, Clean, StartCleanup, RemoveDay,
       NextStage, Restart, Read, BeginWalk, ScanDay, AnswerPage

LEMMA WalkTypes == LogTypeOK /\ walk \in WalkStates /\ [Next]_vars => walk' \in WalkStates
<1> SUFFICES ASSUME LogTypeOK, walk \in WalkStates, [Next]_vars PROVE walk' \in WalkStates
  OBVIOUS
<1>1. today \in Days
  BY DEF LogTypeOK
<1>2. CASE Read
  BY <1>2, ReadTypes
<1>3. CASE UNCHANGED vars
  BY <1>3 DEF vars
<1>4. CASE Watch(walk)
  BY <1>4, WatchType
<1>5. CASE Watch(Interrupted(walk))
  BY <1>1, <1>5, WatchType, InterruptedType
<1> QED
  BY <1>2, <1>3, <1>4, <1>5, Watches

(* Every variable keeps its type.                                          *)
THEOREM TypeCorrect == Spec => []TypeOK
<1>1. TypeOK /\ [Next]_vars => TypeOK'
  <2> SUFFICES ASSUME TypeOK, [Next]_vars PROVE TypeOK'
    OBVIOUS
  <2>1. LogTypeOK' /\ walk' \in WalkStates
    BY TypeParts, LogTypes, WalkTypes
  <2> QED
    BY <2>1 DEF TypeOK, LogTypeOK, EventStates, FileStates, WalkStates
<1> QED
  BY InitialTypes, <1>1, PTL DEF Spec

-----------------------------------------------------------------------------
(* What one step does to the events and to the files.                      *)

\* The event keeps its day once it is held, and what is reported of its two
\* writes is so, unless its directory was removed under the open handle.
Progress(r) ==
  LET e == event[r]
      n == event'[r]
  IN  /\ e.pc = "new" => n.pc \in {"new", "held"} /\ n.logged = e.logged /\ n.stored = e.stored
                         /\ n.day \in {e.day, today}
      /\ e.pc # "new" => n.day = e.day /\ n.pc # "new"
      /\ e.pc \notin {"new", "held"} => n.pc \notin {"new", "held"} /\ n.logged = e.logged
      /\ n.pc = "held" => n.logged = e.logged
      /\ n.pc # "done" => n.stored = e.stored /\ e.pc # "done"
      /\ n.logged => e.logged \/ disk[e.day].handle = "stale" \/ Whole(disk'[e.day].file, r)
      /\ n.stored => e.stored \/ r \in payload'
      /\ r \in payload => r \in payload' \/ Expired(e.day)

\* A file stays, grows by the lines of one event, or is removed when expired.
FileMoves(d) ==
  /\ \/ disk'[d].file = disk[d].file
     \/ \E r \in Records : /\ event[r].pc = "held" /\ event[r].day = d
                           /\ event'[r].pc \in {"logged", "done"} /\ event'[r].day = d
                           /\ Grown(disk[d].file, disk'[d].file, r)
     \/ Expired(d) /\ disk'[d].file = <<>>
  /\ disk'[d].handle = "stale" => disk[d].handle = "stale" \/ Expired(d)

Moves == /\ today <= today'
         /\ \A r \in Records : Progress(r)
         /\ \A d \in Days : FileMoves(d)

\* Steps that leave the events and the files alone.
LEMMA NothingMoves ==
  ASSUME LogTypeOK, today <= today', UNCHANGED <<event, disk, payload>>
  PROVE  Moves
BY DEF Moves, Progress, FileMoves, LogTypeOK, EventStates

LEMMA BeginMoves ==
  ASSUME LogTypeOK, NEW r \in Records, Begin(r)
  PROVE  Moves
<1>1. /\ event[r].pc = "new" /\ today \in Nat
      /\ event' = [event EXCEPT ![r] = [@ EXCEPT !.pc = "held", !.day = today]]
      /\ UNCHANGED <<today, disk, payload>>
  BY DaysAreNaturals DEF Begin, LogTypeOK
<1>2. \A d \in Days : FileMoves(d)
  BY <1>1 DEF FileMoves
<1>3. ASSUME NEW q \in Records PROVE Progress(q)
  BY <1>1, <1>3 DEF Progress, LogTypeOK, EventStates
<1> QED
  BY <1>1, <1>2, <1>3 DEF Moves

LEMMA WriteMetadataMoves ==
  ASSUME LogTypeOK, NEW r \in Records, WriteMetadata(r)
  PROVE  Moves
<1>1. PICK out \in WriteOutcomes(disk[event[r].day], r) :
        /\ disk' = [disk EXCEPT ![event[r].day] = out.disk]
        /\ event' = [event EXCEPT ![r] = [@ EXCEPT !.pc = "logged", !.logged = out.ok]]
  BY DEF WriteMetadata
<1>2. event[r].pc = "held" /\ UNCHANGED <<today, payload>> /\ today \in Nat
  BY DaysAreNaturals DEF WriteMetadata, LogTypeOK
<1>3. /\ event[r] \in EventStates /\ event[r].day \in Days /\ disk[event[r].day] \in FileStates
      /\ out.disk \in FileStates /\ out.ok \in BOOLEAN
  BY WriteType
<1>4. /\ Grown(disk[event[r].day].file, out.disk.file, r)
      /\ out.disk.handle = "stale" => disk[event[r].day].handle = "stale"
      /\ out.ok => disk[event[r].day].handle = "stale" \/ Whole(out.disk.file, r)
  BY <1>3, WriteOutcome
<1>5. event'[r].pc = "logged" /\ event'[r].day = event[r].day /\ event'[r].logged = out.ok
      /\ event'[r].stored = event[r].stored
  BY <1>1, <1>3 DEF LogTypeOK, EventStates
<1>6. disk'[event[r].day] = out.disk /\ \A d \in Days : d # event[r].day => disk'[d] = disk[d]
  BY <1>1, <1>3 DEF LogTypeOK
<1>7. ASSUME NEW q \in Records PROVE Progress(q)
  <2>1. CASE q # r
    <3>1. event'[q] = event[q]
      BY <1>1, <2>1 DEF LogTypeOK
    <3> QED
      BY <1>2, <3>1 DEF Progress, LogTypeOK, EventStates
  <2>2. CASE q = r
    BY <1>2, <1>3, <1>4, <1>5, <1>6, <2>2 DEF Progress
  <2> QED
    BY <2>1, <2>2
<1>8. ASSUME NEW d \in Days PROVE FileMoves(d)
  BY <1>2, <1>4, <1>5, <1>6 DEF FileMoves
<1> QED
  BY <1>2, <1>7, <1>8 DEF Moves

LEMMA WritePayloadMoves ==
  ASSUME LogTypeOK, NEW r \in Records, WritePayload(r)
  PROVE  Moves
<1>1. PICK ok \in BOOLEAN :
        /\ payload' = IF ok THEN payload \cup {r} ELSE payload
        /\ event' = [event EXCEPT ![r] = [@ EXCEPT !.pc = "done", !.stored = ok]]
  BY DEF WritePayload
<1>2. event[r].pc = "logged" /\ UNCHANGED <<today, disk>> /\ today \in Nat
  BY DaysAreNaturals DEF WritePayload, LogTypeOK
<1>3. event'[r].pc = "done" /\ event'[r].day = event[r].day /\ event'[r].logged = event[r].logged
      /\ event'[r].stored = ok
  BY <1>1 DEF LogTypeOK, EventStates
<1>4. ASSUME NEW q \in Records PROVE Progress(q)
  <2>1. CASE q # r
    <3>1. event'[q] = event[q]
      BY <1>1, <2>1 DEF LogTypeOK
    <3> QED
      BY <1>1, <1>2, <3>1 DEF Progress, LogTypeOK, EventStates
  <2>2. CASE q = r
    BY <1>1, <1>2, <1>3, <2>2 DEF Progress
  <2> QED
    BY <2>1, <2>2
<1>5. \A d \in Days : FileMoves(d)
  BY <1>2 DEF FileMoves
<1> QED
  BY <1>2, <1>4, <1>5 DEF Moves

LEMMA RemoveDayMoves ==
  ASSUME LogTypeOK, OnlyExpiredGoes, NEW d \in Days, RemoveDay(d)
  PROVE  Moves
<1>1. Expired(d) /\ UNCHANGED <<today, event>> /\ today \in Nat
  BY DaysAreNaturals DEF RemoveDay, OnlyExpiredGoes, LogTypeOK
<1>2. \/ UNCHANGED <<disk, payload>>
      \/ /\ disk' = [disk EXCEPT ![d] =
                       [file |-> <<>>, handle |-> IF disk[d].handle = "none" THEN "none" ELSE "stale"]]
         /\ UNCHANGED payload
      \/ payload' = {r \in payload : event[r].day # d} /\ UNCHANGED disk
  BY DEF RemoveDay
<1>3. ASSUME NEW k \in Days PROVE FileMoves(k)
  <2>1. disk'[k] = disk[k] \/ (k = d /\ disk'[k].file = <<>>)
    BY <1>2 DEF LogTypeOK
  <2> QED
    BY <1>1, <2>1 DEF FileMoves
<1>4. ASSUME NEW r \in Records PROVE Progress(r)
  <2>1. event'[r] = event[r]
    BY <1>1
  <2>2. r \in payload => r \in payload' \/ Expired(event[r].day)
    BY <1>1, <1>2
  <2> QED
    BY <2>1, <2>2 DEF Progress, LogTypeOK, EventStates
<1> QED
  BY <1>1, <1>3, <1>4 DEF Moves

LEMMA RestartMoves ==
  ASSUME LogTypeOK, Restart
  PROVE  Moves
<1>1. /\ event' = [r \in Records |-> [event[r] EXCEPT !.pc = IF @ = "new" THEN "new" ELSE "done"]]
      /\ UNCHANGED today /\ today \in Nat /\ payload \subseteq payload'
  BY DaysAreNaturals DEF Restart, LogTypeOK
<1>2. ASSUME NEW r \in Records
      PROVE  /\ event[r] \in EventStates /\ event[r].day \in Days
             /\ event'[r].pc = (IF event[r].pc = "new" THEN "new" ELSE "done")
             /\ event'[r].day = event[r].day /\ event'[r].logged = event[r].logged
             /\ event'[r].stored = event[r].stored
  BY <1>1 DEF LogTypeOK, EventStates
<1>3. ASSUME NEW r \in Records PROVE Progress(r)
  BY <1>1, <1>2 DEF Progress, EventStates
<1>4. ASSUME NEW d \in Days PROVE FileMoves(d)
  <2>1. CASE disk' = [k \in Days |-> [disk[k] EXCEPT !.handle = "none"]]
    <3>1. disk'[d].file = disk[d].file /\ disk'[d].handle = "none"
      BY <2>1 DEF LogTypeOK, FileStates
    <3> QED
      BY <3>1 DEF FileMoves
  <2>2. ASSUME NEW r \in Records, NEW out \in WriteOutcomes(disk[event[r].day], r), event[r].pc = "held",
               disk' = [k \in Days |-> [[disk EXCEPT ![event[r].day] = out.disk][k] EXCEPT !.handle = "none"]]
        PROVE  FileMoves(d)
    <3>1. disk[event[r].day] \in FileStates /\ out.disk \in FileStates
      BY WriteType
    <3>2. Grown(disk[event[r].day].file, out.disk.file, r)
      BY <3>1, WriteOutcome
    <3>3. disk'[d].handle = "none"
          /\ disk'[d].file = IF d = event[r].day THEN out.disk.file ELSE disk[d].file
      BY <2>2, <3>1 DEF LogTypeOK, FileStates
    <3>4. event'[r].pc = "done" /\ event'[r].day = event[r].day
      BY <1>2, <2>2
    <3> QED
      BY <2>2, <3>2, <3>3, <3>4 DEF FileMoves
  <2> QED
    BY <2>1, <2>2, RestartDisk
<1> QED
  BY <1>1, <1>3, <1>4 DEF Moves

LEMMA StepMoves ==
  ASSUME LogTypeOK, OnlyExpiredGoes, [Next]_vars
  PROVE  Moves
<1>1. today \in Nat
  BY DaysAreNaturals DEF LogTypeOK
<1>2. CASE Tick
  BY <1>1, <1>2, NothingMoves DEF Tick
<1>3. ASSUME NEW r \in Records, WriteEvent(r) PROVE Moves
  BY <1>3, BeginMoves, WriteMetadataMoves, WritePayloadMoves DEF WriteEvent
<1>4. CASE StartCleanup \/ NextStage
  BY <1>1, <1>4, NothingMoves DEF StartCleanup, NextStage
<1>5. ASSUME NEW d \in Days, RemoveDay(d) PROVE Moves
  BY <1>5, RemoveDayMoves
<1>6. CASE Restart
  BY <1>6, RestartMoves
<1>7. CASE Read \/ UNCHANGED vars
  <2>1. UNCHANGED <<today, event, disk, payload>>
    BY <1>7 DEF Read, BeginWalk, ScanDay, AnswerPage, vars
  <2> QED
    BY <1>1, <2>1, NothingMoves
<1>8. CASE Clean
  BY <1>4, <1>5, <1>8 DEF Clean
<1> QED
  BY <1>2, <1>3, <1>6, <1>7, <1>8 DEF Next

-----------------------------------------------------------------------------
(* The invariant of the log.                                               *)

LogInv == LogTypeOK /\ EventsInTime /\ OnlyExpiredGoes /\ Lines /\ Written

LEMMA InitialLog == Init => LogInv
<1> SUFFICES ASSUME Init PROVE LogInv
  OBVIOUS
<1> USE DaysAreNaturals
<1>1. LogTypeOK
  BY InitialTypes, TypeParts
<1>2. EventsInTime
  BY DEF Init, EventsInTime
<1>3. OnlyExpiredGoes
  BY DEF Init, OnlyExpiredGoes, NoCleanup, Closed
<1>4. Earlier \in Seq(Records) /\ DOMAIN Earlier = 1..Len(Earlier)
  BY RecordsAssumption
<1>5. ASSUME NEW d \in Days
      PROVE  disk[d].file = IF d = 0 THEN [k \in DOMAIN Earlier |-> Line(Earlier[k])] ELSE <<>>
  BY DEF Init, Closed
<1>6. \A k \in DOMAIN Earlier : /\ Earlier[k] \in ToSet(Earlier)
                                /\ Line(Earlier[k]).rec = Earlier[k] /\ Line(Earlier[k]).part = "all"
  BY <1>4, PieceKinds DEF ToSet
<1>7. \A r \in ToSet(Earlier) : /\ r \in Records
                                /\ event[r].day = 0 /\ event[r].pc = "done"
                                /\ \E k \in DOMAIN Earlier : Earlier[k] = r
  BY <1>4, EarlierLines DEF Init, ToSet
<1>8. \A r \in Records : r \notin ToSet(Earlier) => ~ event[r].logged /\ ~ event[r].stored
  BY DEF Init
<1>9. payload = ToSet(Earlier)
  BY DEF Init
<1> HIDE DEF Line
<1>10. Lines
  <2>1. ASSUME NEW d \in Days, NEW i \in DOMAIN disk[d].file
        PROVE  /\ event[disk[d].file[i].rec].day = d /\ event[disk[d].file[i].rec].pc \notin {"new", "held"}
               /\ disk[d].file[i].part = "all"
    <3>1. d = 0 /\ i \in DOMAIN Earlier /\ disk[d].file[i] = Line(Earlier[i])
      <4>1. CASE d = 0
        BY <1>5, <4>1
      <4>2. CASE d # 0
        <5>1. disk[d].file = << >>
          BY <1>5, <4>2
        <5>2. i \in 1..Len(<< >>)
          BY <5>1
        <5> QED
          BY <5>2
      <4> QED
        BY <4>1, <4>2
    <3> QED
      BY <1>6, <1>7, <3>1
  <2> QED
    BY <2>1 DEF Lines
<1>11. Written
  <2>1. ASSUME NEW r \in Records, event[r].logged
        PROVE  \E i \in DOMAIN disk[event[r].day].file :
                 disk[event[r].day].file[i].rec = r /\ disk[event[r].day].file[i].part = "all"
    <3>1. r \in ToSet(Earlier) /\ event[r].day = 0
      BY <1>7, <1>8, <2>1
    <3>2. PICK k \in DOMAIN Earlier : Earlier[k] = r
      BY <1>7, <3>1
    <3>3. k \in DOMAIN disk[0].file /\ disk[0].file[k] = Line(Earlier[k])
      BY <1>5
    <3> QED
      BY <1>6, <3>1, <3>2, <3>3
  <2> QED
    BY <1>8, <1>9, <2>1 DEF Written
<1> QED
  BY <1>1, <1>2, <1>3, <1>10, <1>11 DEF LogInv

LEMMA TimeStep == LogTypeOK /\ LogTypeOK' /\ EventsInTime /\ Moves => EventsInTime'
<1> SUFFICES ASSUME LogTypeOK, LogTypeOK', EventsInTime, Moves, NEW r \in Records
             PROVE  /\ event'[r].day <= today'
                    /\ event'[r].pc \in {"new", "held"} => ~ event'[r].logged
                    /\ event'[r].pc # "done" => ~ event'[r].stored
  BY DEF EventsInTime
<1>1. /\ event[r].day <= today
      /\ event[r].pc \in {"new", "held"} => ~ event[r].logged
      /\ event[r].pc # "done" => ~ event[r].stored
  BY DEF EventsInTime
<1>2. event[r] \in EventStates /\ event[r].day \in Nat /\ today \in Nat /\ today' \in Nat
  BY DaysAreNaturals DEF LogTypeOK, EventStates
<1>3. today <= today' /\ Progress(r)
  BY DEF Moves
<1>4. event'[r].day <= today'
  <2>1. event'[r].day = event[r].day \/ event'[r].day = today
    BY <1>3 DEF Progress
  <2> QED
    BY <1>1, <1>2, <1>3, <2>1
<1>5. event'[r].pc \in {"new", "held"} => ~ event'[r].logged
  BY <1>1, <1>2, <1>3 DEF Progress, EventStates
<1>6. event'[r].pc # "done" => ~ event'[r].stored
  BY <1>1, <1>3 DEF Progress
<1> QED
  BY <1>4, <1>5, <1>6

LEMMA ExpiredStays ==
  ASSUME LogTypeOK, LogTypeOK', today <= today', NEW d \in Days
  PROVE  /\ Expired(d) => Expired(d)'
         /\ (today' < d + MaxAge) => (today < d + MaxAge) /\ ~ Expired(d)
BY DaysAreNaturals DEF LogTypeOK, Expired

LEMMA ExpiryStep == LogTypeOK /\ LogTypeOK' /\ OnlyExpiredGoes /\ Moves /\ [Next]_vars => OnlyExpiredGoes'
<1> SUFFICES ASSUME LogTypeOK, LogTypeOK', OnlyExpiredGoes, Moves, [Next]_vars PROVE OnlyExpiredGoes'
  OBVIOUS
<1>1. ASSUME NEW d \in Days, disk'[d].handle = "stale" PROVE Expired(d)'
  BY <1>1, ExpiredStays DEF Moves, FileMoves, OnlyExpiredGoes
<1>2. cleanup.left \subseteq cleanup.doomed /\ cleanup.doomed \subseteq Days
  BY DEF OnlyExpiredGoes, LogTypeOK
<1>3. \A d \in cleanup.doomed : Expired(d)'
  BY <1>2, ExpiredStays DEF Moves, OnlyExpiredGoes
<1>4. \/ cleanup' = cleanup
      \/ cleanup'.doomed = {d \in Days : Expired(d)} /\ cleanup'.left = cleanup'.doomed
      \/ cleanup'.doomed = cleanup.doomed /\ cleanup'.left \subseteq cleanup.doomed
      \/ cleanup' = NoCleanup
  <2>1. CASE StartCleanup
    BY <2>1 DEF StartCleanup
  <2>2. ASSUME NEW d \in Days, RemoveDay(d)
        PROVE  cleanup'.doomed = cleanup.doomed /\ cleanup'.left \subseteq cleanup.doomed
    BY <1>2, <2>2 DEF RemoveDay, LogTypeOK
  <2>3. CASE NextStage
    BY <2>3 DEF NextStage, LogTypeOK
  <2>4. CASE Restart
    BY <2>4 DEF Restart
  <2>5. CASE Read \/ UNCHANGED vars
    BY <2>5 DEF Read, BeginWalk, ScanDay, AnswerPage, vars
  <2>6. CASE Tick
    BY <2>6 DEF Tick
  <2>7. ASSUME NEW r \in Records, WriteEvent(r) PROVE cleanup' = cleanup
    BY <2>7 DEF WriteEvent, Begin, WriteMetadata, WritePayload
  <2>8. CASE Clean
    BY <2>1, <2>2, <2>3, <2>8 DEF Clean
  <2> QED
    BY <2>4, <2>5, <2>6, <2>7, <2>8 DEF Next
<1>5. \A d \in Days : Expired(d) => Expired(d)'
  BY ExpiredStays DEF Moves
<1>6. cleanup'.left \subseteq cleanup'.doomed /\ \A d \in cleanup'.doomed : Expired(d)'
  BY <1>2, <1>3, <1>4, <1>5 DEF NoCleanup
<1> QED
  BY <1>1, <1>6 DEF OnlyExpiredGoes

\* A piece of a file after a step was there before, or is of an event that was
\* held; what was there stays there unless the file is removed.
LEMMA PiecesStep ==
  ASSUME LogTypeOK, LogTypeOK', Lines, Moves, NEW d \in Days
  PROVE  /\ \A i \in DOMAIN disk'[d].file :
              \/ i \in DOMAIN disk[d].file /\ disk'[d].file[i] = disk[d].file[i]
              \/ \E r \in Records :
                   /\ event[r].pc = "held" /\ event'[r].pc \in {"logged", "done"} /\ event'[r].day = d
                   /\ disk'[d].file[i].rec = r
                   /\ \A j \in DOMAIN disk'[d].file :
                        \/ j \in DOMAIN disk[d].file /\ disk'[d].file[j] = disk[d].file[j]
                        \/ j > Len(disk[d].file) /\ disk'[d].file[j].rec = r
                           /\ (disk'[d].file[j].part = "all" => j = Len(disk'[d].file))
         /\ \/ Expired(d) /\ disk'[d].file = <<>>
            \/ \A i \in DOMAIN disk[d].file :
                 i \in DOMAIN disk'[d].file /\ disk'[d].file[i] = disk[d].file[i]
<1> DEFINE f == disk[d].file
           g == disk'[d].file
<1>1. f \in Seq(Pieces) /\ g \in Seq(Pieces)
  BY DEF LogTypeOK, FileStates
<1>2. DOMAIN f = 1..Len(f) /\ DOMAIN g = 1..Len(g) /\ Len(f) \in Nat /\ Len(g) \in Nat
  BY <1>1
<1>3. \/ g = f
      \/ \E r \in Records : /\ event[r].pc = "held" /\ event'[r].pc \in {"logged", "done"} /\ event'[r].day = d
                            /\ Grown(f, g, r)
      \/ Expired(d) /\ g = <<>>
  BY DEF Moves, FileMoves
<1> HIDE DEF f, g
<1>4. CASE g = f
  BY <1>4 DEF f, g
<1>5. ASSUME NEW r \in Records, event[r].pc = "held", event'[r].pc \in {"logged", "done"}, event'[r].day = d,
             Grown(f, g, r)
      PROVE  /\ \A i \in DOMAIN g :
                  \/ i \in DOMAIN f /\ g[i] = f[i]
                  \/ /\ g[i].rec = r
                     /\ \A j \in DOMAIN g : \/ j \in DOMAIN f /\ g[j] = f[j]
                                            \/ j > Len(f) /\ g[j].rec = r /\ (g[j].part = "all" => j = Len(g))
             /\ \A i \in DOMAIN f : i \in DOMAIN g /\ g[i] = f[i]
  <2>1. \A i \in DOMAIN f : i \in DOMAIN g /\ g[i] = f[i]
    BY <1>2, <1>5 DEF Grown
  <2>2. ASSUME NEW j \in DOMAIN g
        PROVE  \/ j \in DOMAIN f /\ g[j] = f[j]
               \/ j > Len(f) /\ g[j].rec = r /\ (g[j].part = "all" => j = Len(g))
    <3>1. j \in 1..Len(f) \/ j > Len(f)
      BY <1>2
    <3> QED
      BY <1>2, <1>5, <2>1, <3>1 DEF Grown
  <2> QED
    BY <2>1, <2>2
<1>6. CASE Expired(d) /\ g = <<>>
  BY <1>2, <1>6 DEF f, g
<1> QED
  BY <1>3, <1>4, <1>5, <1>6 DEF f, g

LEMMA LinesStep == LogTypeOK /\ LogTypeOK' /\ Lines /\ Moves => Lines'
<1> SUFFICES ASSUME LogTypeOK, LogTypeOK', Lines, Moves, NEW d \in Days
             PROVE  LET g == disk'[d].file
                    IN  /\ \A i \in DOMAIN g :
                             event'[g[i].rec].day = d /\ event'[g[i].rec].pc \notin {"new", "held"}
                        /\ \A i, j \in DOMAIN g :
                             g[i].rec = g[j].rec /\ g[i].part = "all" /\ g[j].part # "all" => j < i
  BY DEF Lines
<1> DEFINE f == disk[d].file
           g == disk'[d].file
           New(r) == /\ event[r].pc = "held" /\ event'[r].pc \in {"logged", "done"} /\ event'[r].day = d
                     /\ \A j \in DOMAIN g :
                          \/ j \in DOMAIN f /\ g[j] = f[j]
                          \/ j > Len(f) /\ g[j].rec = r /\ (g[j].part = "all" => j = Len(g))
<1>1. f \in Seq(Pieces) /\ g \in Seq(Pieces)
  BY DEF LogTypeOK, FileStates
<1>2. DOMAIN f = 1..Len(f) /\ DOMAIN g = 1..Len(g) /\ Len(f) \in Nat /\ Len(g) \in Nat
      /\ \A i \in DOMAIN f : f[i].rec \in Records
  <2> HIDE DEF f, g
  <2>1. \A i \in DOMAIN f : f[i] \in Pieces
    BY <1>1
  <2> QED
    BY <1>1, <2>1 DEF Pieces
<1>3. \A i \in DOMAIN g : \/ i \in DOMAIN f /\ g[i] = f[i]
                          \/ \E r \in Records : New(r) /\ g[i].rec = r
  BY PiecesStep
<1>4. /\ \A i \in DOMAIN f : event[f[i].rec].day = d /\ event[f[i].rec].pc \notin {"new", "held"}
      /\ \A i, j \in DOMAIN f :
           f[i].rec = f[j].rec /\ f[i].part = "all" /\ f[j].part # "all" => j < i
  BY DEF Lines
<1>5. \A i \in DOMAIN f : event'[f[i].rec].day = d /\ event'[f[i].rec].pc \notin {"new", "held"}
  <2> TAKE i \in DOMAIN f
  <2>1. Progress(f[i].rec) /\ event[f[i].rec].pc \notin {"new", "held"} /\ event[f[i].rec].day = d
    BY <1>2, <1>4 DEF Moves
  <2> QED
    BY <2>1 DEF Progress
<1> HIDE DEF f, g
<1>6. \A i \in DOMAIN g : event'[g[i].rec].day = d /\ event'[g[i].rec].pc \notin {"new", "held"}
  BY <1>3, <1>5
<1>7. ASSUME NEW i \in DOMAIN g, NEW j \in DOMAIN g, g[i].rec = g[j].rec, g[i].part = "all", g[j].part # "all"
      PROVE  j < i
  <2>1. CASE \E r \in Records : New(r)
    <3>1. PICK r \in Records : New(r)
      BY <2>1
    <3>2. \A k \in DOMAIN f : f[k].rec # r
      BY <1>4, <3>1
    <3> QED
      BY <1>2, <1>4, <1>7, <3>1, <3>2
  <2>2. CASE ~ \E r \in Records : New(r)
    BY <1>3, <1>4, <1>7, <2>2
  <2> QED
    BY <2>1, <2>2
<1> QED
  BY <1>6, <1>7 DEF f, g

LEMMA WrittenStep ==
  LogTypeOK /\ LogTypeOK' /\ EventsInTime /\ OnlyExpiredGoes /\ Lines /\ Written /\ Moves => Written'
<1> SUFFICES ASSUME LogTypeOK, LogTypeOK', EventsInTime, OnlyExpiredGoes, Lines, Written, Moves,
                    NEW r \in Records, today' < event'[r].day + MaxAge
             PROVE  LET g == disk'[event'[r].day].file
                    IN  /\ event'[r].logged => \E i \in DOMAIN g : g[i].rec = r /\ g[i].part = "all"
                        /\ event'[r].stored => r \in payload'
  BY DEF Written, Kept
<1>1. /\ Progress(r) /\ today <= today' /\ event[r].day \in Days /\ event'[r].day \in Days
      /\ event[r] \in EventStates
  BY DEF Moves, LogTypeOK, EventStates
<1>2. ASSUME event'[r].logged \/ event'[r].stored
      PROVE  event[r].pc # "new" /\ event'[r].day = event[r].day
  BY <1>1, <1>2 DEF Progress, EventsInTime
<1> DEFINE d == event[r].day
<1>3. ASSUME event'[r].logged \/ event'[r].stored
      PROVE  d \in Days /\ today < d + MaxAge /\ ~ Expired(d)
  BY <1>1, <1>2, <1>3, ExpiredStays
<1>4. ASSUME event'[r].logged
      PROVE  \E i \in DOMAIN disk'[d].file : disk'[d].file[i].rec = r /\ disk'[d].file[i].part = "all"
  <2>1. CASE event[r].logged
    <3>1. PICK i \in DOMAIN disk[d].file : disk[d].file[i].rec = r /\ disk[d].file[i].part = "all"
      BY <1>3, <1>4, <2>1 DEF Written, Kept
    <3>2. i \in DOMAIN disk'[d].file /\ disk'[d].file[i] = disk[d].file[i]
      BY <1>3, <1>4, PiecesStep
    <3> QED
      BY <3>1, <3>2
  <2>2. CASE disk[d].handle = "stale"
    BY <1>3, <1>4, <2>2 DEF OnlyExpiredGoes
  <2>3. CASE Whole(disk'[d].file, r)
    <3>1. disk'[d].file \in Seq(Pieces)
      BY <1>3, <1>4 DEF LogTypeOK, FileStates
    <3>2. Len(disk'[d].file) \in DOMAIN disk'[d].file
      BY <2>3, <3>1 DEF Whole
    <3> QED
      BY <2>3, <3>2 DEF Whole
  <2> QED
    BY <1>1, <1>4, <2>1, <2>2, <2>3 DEF Progress
<1>5. ASSUME event'[r].stored PROVE r \in payload'
  <2>1. CASE event[r].stored
    <3>1. r \in payload
      BY <1>3, <1>5, <2>1 DEF Written, Kept
    <3> QED
      BY <1>1, <1>3, <1>5, <3>1 DEF Progress
  <2> QED
    BY <1>1, <1>5, <2>1 DEF Progress
<1> QED
  BY <1>2, <1>4, <1>5

LEMMA LogStep == LogInv /\ [Next]_vars => LogInv'
<1> SUFFICES ASSUME LogInv, [Next]_vars PROVE LogInv'
  OBVIOUS
<1>1. LogTypeOK /\ EventsInTime /\ OnlyExpiredGoes /\ Lines /\ Written
  BY DEF LogInv
<1>2. LogTypeOK' /\ Moves
  BY <1>1, LogTypes, StepMoves
<1>3. EventsInTime' /\ OnlyExpiredGoes' /\ Lines' /\ Written'
  BY <1>1, <1>2, TimeStep, ExpiryStep, LinesStep, WrittenStep
<1> QED
  BY <1>2, <1>3 DEF LogInv

LEMMA LogInvariance == Spec => []LogInv
BY InitialLog, LogStep, PTL DEF Spec

-----------------------------------------------------------------------------
(* Every incomplete line on disk costs at most one event: an event whose   *)
(* line was written and cannot be read has that line after an incomplete   *)
(* one, and no other event has its line there.                             *)
LEMMA LostToTornLines ==
  ASSUME NEW f \in Seq(Pieces), NEW S,
         \A r \in S : \E i \in DOMAIN f : f[i].rec = r /\ f[i].part = "all"
  PROVE  Cardinality(S \ {f[i].rec : i \in Readable(f)}) <= Cardinality(Torn(f))
<1> DEFINE Lost == S \ {f[i].rec : i \in Readable(f)}
           at == [r \in Lost |-> CHOOSE i \in DOMAIN f : f[i].rec = r /\ f[i].part = "all"]
           before == [r \in Lost |-> at[r] - 1]
<1>1. DOMAIN f = 1..Len(f) /\ Len(f) \in Nat
  OBVIOUS
<1>2. ASSUME NEW r \in Lost
      PROVE  at[r] \in 1..Len(f) /\ f[at[r]].rec = r /\ f[at[r]].part = "all" /\ at[r] \notin Readable(f)
  <2>1. at[r] \in DOMAIN f /\ f[at[r]].rec = r /\ f[at[r]].part = "all"
    OBVIOUS
  <2>2. at[r] \notin Readable(f)
    BY <2>1
  <2> QED
    BY <1>1, <2>1, <2>2
<1> HIDE DEF at, Lost
<1>3. ASSUME NEW r \in Lost PROVE before[r] \in Torn(f)
  <2>1. at[r] # 1 /\ f[at[r] - 1].part # "all"
    BY <1>1, <1>2 DEF Readable
  <2>2. at[r] - 1 \in 1..Len(f)
    BY <1>1, <1>2, <2>1
  <2> QED
    BY <1>1, <2>1, <2>2 DEF Torn
<1>4. ASSUME NEW r \in Lost, NEW q \in Lost, before[r] = before[q] PROVE r = q
  BY <1>2, <1>4
<1>5. before \in Injection(Lost, Torn(f))
  BY <1>3, <1>4, Fun_IsInj
<1>6. IsFiniteSet(1..Len(f)) /\ Torn(f) \in SUBSET (1..Len(f))
  BY <1>1, FS_Interval DEF Torn
<1>7. IsFiniteSet(Torn(f))
  BY <1>6, FS_Subset
<1>8. Cardinality(Lost) <= Cardinality(Torn(f))
  BY <1>5, <1>7, FS_Injection
<1> QED
  BY <1>8 DEF Lost

LEMMA WrittenIsRetained == LogInv => RetainedUntilExpiry
<1> SUFFICES ASSUME LogInv, NEW d \in Days, Kept(d)
             PROVE  LET f    == disk[d].file
                        mine == {r \in Records : event[r].day = d}
                    IN  /\ Cardinality({r \in mine : event[r].logged} \ {f[i].rec : i \in Readable(f)})
                             <= Cardinality(Torn(f))
                        /\ \A r \in mine : event[r].stored => r \in payload
  BY DEF RetainedUntilExpiry
<1> DEFINE f == disk[d].file
           S == {r \in {q \in Records : event[q].day = d} : event[r].logged}
<1>1. f \in Seq(Pieces)
  BY DEF LogInv, LogTypeOK, FileStates
<1>2. \A r \in S : \E i \in DOMAIN f : f[i].rec = r /\ f[i].part = "all"
  BY DEF LogInv, Written
<1> HIDE DEF S, f
<1>3. Cardinality(S \ {f[i].rec : i \in Readable(f)}) <= Cardinality(Torn(f))
  BY <1>1, <1>2, LostToTornLines
<1>4. \A r \in Records : event[r].day = d /\ event[r].stored => r \in payload
  BY DEF LogInv, Written
<1> QED
  BY <1>3, <1>4 DEF S, f

(* While its day is kept, an event whose line was written is there and can *)
(* be read, but for one event per incomplete line, and so is its payload.  *)
THEOREM NothingIsLost == Spec => []RetainedUntilExpiry
BY LogInvariance, WrittenIsRetained, PTL

-----------------------------------------------------------------------------
(* A line that was written with success and can be read is a whole one, and *)
(* whole lines stay where they are.                                        *)
LEMMA WholeLineStays ==
  ASSUME LogInv, LogInv', Moves, NEW r \in Records, event[r].logged,
         r \in ListedOn(disk[event[r].day].file),
         today' < event'[r].day + MaxAge, ~ HasLongLine(disk'[event[r].day].file)
  PROVE  r \in ListedOn(disk'[event[r].day].file)
<1> DEFINE d == event[r].day
           f == disk[d].file
           g == disk'[d].file
<1>1. LogTypeOK /\ LogTypeOK' /\ Lines /\ Written /\ EventsInTime
  BY DEF LogInv
<1>2. d \in Days /\ event'[r].day = d /\ today <= today'
  <2>1. event[r].pc # "new" /\ Progress(r)
    BY <1>1 DEF EventsInTime, Moves
  <2> QED
    BY <1>1, <2>1 DEF Moves, Progress, LogTypeOK, EventStates
<1>3. today < d + MaxAge /\ ~ Expired(d)
  BY <1>1, <1>2, ExpiredStays
<1>4. f \in Seq(Pieces) /\ g \in Seq(Pieces)
  BY <1>1, <1>2 DEF LogTypeOK, FileStates
<1>5. DOMAIN f = 1..Len(f) /\ DOMAIN g = 1..Len(g) /\ Len(f) \in Nat
  <2> HIDE DEF f, g
  <2> QED
    BY <1>4
<1>6. \A i \in DOMAIN f : i \in DOMAIN g /\ g[i] = f[i]
  BY <1>1, <1>2, <1>3, PiecesStep
<1>7. PICK i \in Readable(f) : f[i].rec = r
  BY DEF ListedOn
<1>8. PICK j \in DOMAIN f : f[j].rec = r /\ f[j].part = "all"
  BY <1>1, <1>3 DEF Written, Kept
<1>9. \A k, m \in DOMAIN f : f[k].rec = f[m].rec /\ f[k].part = "all" /\ f[m].part # "all" => m < k
  BY <1>1, <1>2 DEF Lines
<1> HIDE DEF f, g
<1>10. i \in DOMAIN f /\ (i = 1 \/ f[i - 1].part = "all") /\ (f[i].part = "all" \/ i = Len(f))
  BY <1>7 DEF Readable
<1>11. f[i].part = "all"
  BY <1>5, <1>7, <1>8, <1>9, <1>10
<1>12. i \in Readable(g) /\ g[i].rec = r
  <2>1. i \in DOMAIN g /\ g[i].part = "all" /\ g[i].rec = r
    BY <1>6, <1>7, <1>10, <1>11
  <2>2. i # 1 => g[i - 1].part = "all"
    BY <1>5, <1>6, <1>10
  <2> QED
    BY <2>1, <2>2 DEF Readable
<1> QED
  BY <1>12 DEF ListedOn, g

(* No later write, failure, crash or reopening makes a scan lose an event  *)
(* that was written and could be read, while its day is kept and no line   *)
(* too long to be scanned is added to it.                                  *)
THEOREM NothingLeavesTheList == Spec => ListedStays
<1>1. LogInv /\ LogInv' /\ [Next]_vars =>
        [\A r \in Records :
           LET d == event[r].day
           IN  /\ event[r].logged /\ r \in ListedOn(disk[d].file)
               /\ Kept(d)' /\ ~ HasLongLine(disk'[d].file)
               => r \in ListedOn(disk'[d].file)]_vars
  <2> SUFFICES ASSUME LogInv, LogInv', [Next]_vars, NEW r \in Records, event[r].logged,
                      r \in ListedOn(disk[event[r].day].file),
                      today' < event'[r].day + MaxAge, ~ HasLongLine(disk'[event[r].day].file)
               PROVE  r \in ListedOn(disk'[event[r].day].file)
    BY DEF Kept
  <2>1. Moves
    BY StepMoves DEF LogInv
  <2> QED
    BY <2>1, WholeLineStays
<1> QED
  BY LogInvariance, <1>1, PTL DEF Spec, ListedStays

-----------------------------------------------------------------------------
(* Counting the lines before a line.                                       *)

LEMMA BeforeFinite ==
  ASSUME NEW files \in [Days -> FileStates], NEW a \in Nat, NEW d \in Nat, NEW i \in Nat
  PROVE  IsFiniteSet(Before(files, a, d, i)) /\ Cardinality(Before(files, a, d, i)) \in Nat
<1> DEFINE F == [x \in Days |-> {x} \X Shown(files[x].file)]
           T == {F[x] : x \in Days}
<1>1. IsFiniteSet(Days)
  BY DaysAssumption, FS_Interval DEF Days
<1>2. F \in Surjection(Days, T)
  BY Fun_IsSurj
<1>3. IsFiniteSet(T)
  BY <1>1, <1>2, FS_Surjection
<1>4. ASSUME NEW x \in Days PROVE IsFiniteSet(F[x])
  <2>1. files[x].file \in Seq(Pieces)
    BY DEF FileStates
  <2>2. IsFiniteSet({x}) /\ IsFiniteSet(Shown(files[x].file))
    BY <2>1, ShownLines, FS_Singleton
  <2> QED
    BY <2>2, FS_Product
<1>5. IsFiniteSet(UNION T)
  BY <1>3, <1>4, FS_UNION
<1>6. Before(files, a, d, i) \subseteq UNION T
  BY DEF Before
<1> QED
  BY <1>5, <1>6, FS_Subset, FS_CardinalityType

LEMMA BeforeSplit ==
  ASSUME NEW files \in [Days -> FileStates], NEW a \in Nat, NEW b \in Nat, NEW d \in Nat, NEW i \in Nat,
         a <= b, b <= d
  PROVE  Cardinality(Before(files, a, d, i)) =
           Cardinality(Before(files, a, b, 0)) + Cardinality(Before(files, b, d, i))
<1> DEFINE A == Before(files, a, b, 0)
           B == Before(files, b, d, i)
<1>1. IsFiniteSet(A) /\ IsFiniteSet(B) /\ Cardinality(A) \in Nat /\ Cardinality(B) \in Nat
  BY BeforeFinite
<1>2. \A x \in A : x[1] \in Nat /\ x[1] < b
  BY DaysAreNaturals DEF Before
<1>3. \A x \in B : x[1] \in Nat /\ x[1] >= b
  BY DaysAreNaturals DEF Before
<1>4. A \cap B = {}
  BY <1>2, <1>3
<1>5. Before(files, a, d, i) = A \cup B
  <2>1. ASSUME NEW x \in Before(files, a, d, i) PROVE x \in A \cup B
    <3>1. x \in Days \X Nat /\ x[1] \in Nat
      BY DaysAreNaturals DEF Before
    <3>2. CASE x[1] < b
      BY <3>1, <3>2 DEF Before
    <3>3. CASE x[1] >= b
      BY <3>1, <3>3 DEF Before
    <3> QED
      BY <3>1, <3>2, <3>3
  <2>2. ASSUME NEW x \in A PROVE x \in Before(files, a, d, i)
    <3>1. x \in Days \X Nat /\ x[1] \in Nat /\ x[1] < b
      BY <1>2, <2>2 DEF Before
    <3> QED
      BY <2>2, <3>1 DEF Before
  <2>3. ASSUME NEW x \in B PROVE x \in Before(files, a, d, i)
    <3>1. x \in Days \X Nat /\ x[1] \in Nat /\ x[1] >= b
      BY <1>3, <2>3 DEF Before
    <3> QED
      BY <2>3, <3>1 DEF Before
  <2> QED
    BY <2>1, <2>2, <2>3
<1> HIDE DEF A, B
<1>6. Cardinality(A \cup B) = Cardinality(A) + Cardinality(B)
  <2>1. Cardinality(A \cup B) = Cardinality(A) + Cardinality(B) - Cardinality(A \cap B)
    BY <1>1, FS_Union
  <2>2. Cardinality(A \cap B) = 0
    BY <1>4, FS_EmptySet
  <2> QED
    BY <1>1, <2>1, <2>2
<1> QED
  BY <1>1, <1>5, <1>6 DEF A, B

\* One day's lines.
LEMMA DayProduct ==
  ASSUME NEW S, IsFiniteSet(S), NEW d
  PROVE  Cardinality({d} \X S) = Cardinality(S)
<1>1. IsFiniteSet({d}) /\ Cardinality({d}) = 1 /\ Cardinality(S) \in Nat
  BY FS_Singleton, FS_CardinalityType
<1>2. Cardinality({d} \X S) = Cardinality({d}) * Cardinality(S)
  BY <1>1, FS_Product
<1> QED
  BY <1>1, <1>2

LEMMA BeforeOnDay ==
  ASSUME NEW files \in [Days -> FileStates], NEW d \in Days, NEW i \in Nat
  PROVE  /\ Cardinality(Before(files, d, d, i)) = Rank(Shown(files[d].file), i)
         /\ Cardinality(Before(files, d, d + 1, 0)) = Cardinality(Shown(files[d].file))
<1> DEFINE S == Shown(files[d].file)
           R == {j \in S : j < i}
<1>1. S \in SUBSET Nat /\ IsFiniteSet(S) /\ d \in Nat
  BY ShownLines, DaysAreNaturals DEF FileStates
<1>2. R \in SUBSET S /\ IsFiniteSet(R)
  BY <1>1, FS_Subset
<1>3. Before(files, d, d, i) = {d} \X R
  <2>1. \A x \in (Days \cap d..d) : x = d
    BY <1>1
  <2>2. d \in Days \cap d..d
    BY <1>1
  <2>3. ~ (d < d)
    BY <1>1
  <2> QED
    BY <1>1, <2>1, <2>2, <2>3 DEF Before
<1>4. Before(files, d, d + 1, 0) = {d} \X S
  <2>1. \A x \in (Days \cap d..d + 1) : x = d \/ (x = d + 1 /\ ~ (x < d + 1))
    BY <1>1
  <2>2. d \in Days \cap d..d + 1 /\ d < d + 1
    BY <1>1
  <2>3. \A k \in Nat : ~ (k < 0)
    OBVIOUS
  <2> QED
    BY <1>1, <2>1, <2>2, <2>3 DEF Before
<1> QED
  BY <1>1, <1>2, <1>3, <1>4, DayProduct DEF Rank

\* What is shown of the files from day a on is shown of the files more.
ShownStill(files, more, a) ==
  \A d \in Days : d >= a =>
    \A i \in Shown(files[d].file) : i \in Shown(more[d].file) /\ more[d].file[i].rec = files[d].file[i].rec

LEMMA BeforeGrows ==
  ASSUME NEW files \in [Days -> FileStates], NEW more \in [Days -> FileStates],
         NEW a \in Nat, NEW b \in Nat, NEW d \in Nat, NEW i \in Nat, a <= b, ShownStill(files, more, a)
  PROVE  Cardinality(Before(files, b, d, i)) <= Cardinality(Before(more, b, d, i))
<1>1. Before(files, b, d, i) \subseteq Before(more, b, d, i)
  BY DaysAreNaturals DEF Before, ShownStill
<1> QED
  BY <1>1, BeforeFinite, FS_Subset

-----------------------------------------------------------------------------
(* Paging.                                                                 *)

InBounds(w) == w.from <= w.to /\ w.to <= today /\ w.from <= w.day /\ w.day <= w.to + 1

LEMMA WalkNumbers ==
  ASSUME NEW w \in WalkStates
  PROVE  /\ w.from \in Days /\ w.to \in Days /\ w.from \in Nat /\ w.to \in Nat /\ w.day \in Nat /\ w.offset \in Nat
         /\ w.from..w.to \subseteq Days
         /\ w.matched \in Seq(Wanted) /\ Len(w.matched) \in Nat /\ DOMAIN w.matched = 1..Len(w.matched)
<1>1. /\ w.from \in Days /\ w.to \in Days /\ w.from \in Nat /\ w.to \in Nat /\ w.day \in Nat
      /\ w.offset \in Nat /\ w.matched \in Seq(Wanted)
  <2>1. /\ w.from \in Days /\ w.to \in Days /\ w.day \in 0..LastDay + 1
        /\ w.offset \in Nat /\ w.matched \in Seq(Wanted)
    BY DEF WalkStates
  <2>2. w.from \in Nat /\ w.to \in Nat
    BY <2>1, DaysAreNaturals
  <2>3. w.day \in Nat
    BY <2>1, DaysAreNaturals
  <2> QED
    BY <2>1, <2>2, <2>3
<1>2. w.from..w.to \subseteq Days
  BY <1>1, DaysAreNaturals DEF Days
<1> QED
  BY <1>1, <1>2

\* Lines that are shown as before leave everything due ahead.
LEMMA CompleteGrows ==
  ASSUME NEW files \in [Days -> FileStates], NEW more \in [Days -> FileStates],
         NEW w \in WalkStates, InBounds(w), ShownStill(files, more, w.from), Complete(files, w)
  PROVE  Complete(more, w)
<1> USE WalkNumbers
<1>1. ASSUME NEW r \in w.due, NEW d \in w.from..w.to, NEW i \in Nat, Ahead(files, w, r, d, i)
      PROVE  Ahead(more, w, r, d, i)
  <2>1. d \in Days /\ d \in Nat /\ d >= w.from
    BY DaysAreNaturals
  <2>2. i \in Shown(more[d].file) /\ more[d].file[i].rec = r
    BY <1>1, <2>1 DEF Ahead, ShownStill
  <2>3. Cardinality(Before(files, w.day, d, i)) <= Cardinality(Before(more, w.day, d, i))
    BY <2>1, BeforeGrows DEF InBounds
  <2>4. Cardinality(Before(files, w.from, d, i)) <= Cardinality(Before(more, w.from, d, i))
    BY <2>1, BeforeGrows
  <2>5. /\ Cardinality(Before(files, w.day, d, i)) \in Nat /\ Cardinality(Before(more, w.day, d, i)) \in Nat
        /\ Cardinality(Before(files, w.from, d, i)) \in Nat /\ Cardinality(Before(more, w.from, d, i)) \in Nat
    BY <2>1, BeforeFinite
  <2> QED
    BY <1>1, <2>2, <2>3, <2>4, <2>5 DEF Ahead
<1>2. ASSUME w.due # {}
      PROVE  Len(w.matched) <= Cardinality(Before(more, w.from, w.day, 0))
  <2>1. Cardinality(Before(files, w.from, w.day, 0)) <= Cardinality(Before(more, w.from, w.day, 0))
    BY BeforeGrows
  <2>2. Cardinality(Before(files, w.from, w.day, 0)) \in Nat /\ Cardinality(Before(more, w.from, w.day, 0)) \in Nat
    BY BeforeFinite
  <2> QED
    BY <1>2, <2>1, <2>2 DEF Complete
<1>3. \A r \in w.due : \E d \in w.from..w.to : \E i \in Nat : Ahead(more, w, r, d, i)
  BY <1>1 DEF Complete
<1> QED
  BY <1>2, <1>3 DEF Complete

\* What is ahead has at least as many lines before it as were passed over.
LEMMA AheadOfOffset ==
  ASSUME NEW files \in [Days -> FileStates], NEW w \in WalkStates, InBounds(w), Complete(files, w),
         NEW r \in w.due, NEW d \in w.from..w.to, NEW i \in Nat, Ahead(files, w, r, d, i)
  PROVE  Cardinality(Before(files, w.from, d, i)) >= w.offset
<1> USE WalkNumbers
<1>1. d \in Nat
  BY DaysAreNaturals
<1>2. Cardinality(Before(files, w.from, d, i)) \in Nat /\ Cardinality(Before(files, w.day, d, i)) \in Nat
      /\ Cardinality(Before(files, w.from, w.day, 0)) \in Nat
  BY <1>1, BeforeFinite
<1>3. CASE d >= w.day /\ Len(w.matched) + Cardinality(Before(files, w.day, d, i)) >= w.offset
  <2>1. Cardinality(Before(files, w.from, d, i)) =
          Cardinality(Before(files, w.from, w.day, 0)) + Cardinality(Before(files, w.day, d, i))
    <3>1. w.from \in Nat /\ w.day \in Nat /\ w.from <= w.day /\ w.day <= d
      BY <1>1, <1>3 DEF InBounds
    <3> QED
      BY <1>1, <3>1, BeforeSplit
  <2>2. Len(w.matched) <= Cardinality(Before(files, w.from, w.day, 0))
    BY DEF Complete
  <2> QED
    BY <1>2, <1>3, <2>1, <2>2
<1>4. CASE \E p \in DOMAIN w.matched : p > w.offset /\ p <= Cardinality(Before(files, w.from, d, i)) + 1
  BY <1>2, <1>4
<1> QED
  BY <1>3, <1>4 DEF Ahead

\* A page that is asked for from the start of its range.
LEMMA FreshPage ==
  ASSUME NEW files \in [Days -> FileStates], NEW w \in WalkStates, today \in Days, w.from <= today,
         NEW offset \in Nat,
         \A r \in w.due : \E d \in w.from..today : \E i \in Shown(files[d].file) :
           files[d].file[i].rec = r /\ Cardinality(Before(files, w.from, d, i)) >= offset
  PROVE  InBounds(Page(w, offset)) /\ Complete(files, Page(w, offset))
<1> DEFINE q == Page(w, offset)
<1>1. /\ q \in WalkStates /\ q.pc = "page" /\ q.from = w.from /\ q.to = today /\ q.day = w.from
      /\ q.matched = <<>> /\ q.offset = offset /\ q.due = w.due
  BY PageType
<1> HIDE DEF q
<1>2. w.from \in Nat /\ today \in Nat
  BY WalkNumbers, DaysAreNaturals
<1>3. InBounds(q)
  BY <1>1, <1>2 DEF InBounds
<1>4. ASSUME NEW r \in q.due PROVE \E d \in q.from..q.to : \E i \in Nat : Ahead(files, q, r, d, i)
  <2>1. PICK d \in w.from..today : \E i \in Shown(files[d].file) :
               files[d].file[i].rec = r /\ Cardinality(Before(files, w.from, d, i)) >= offset
    BY <1>1
  <2>2. PICK i \in Shown(files[d].file) :
               files[d].file[i].rec = r /\ Cardinality(Before(files, w.from, d, i)) >= offset
    BY <2>1
  <2>3. d \in Days /\ d \in Nat
    BY <1>2, DaysAreNaturals DEF Days
  <2>4. i \in Nat
    BY <2>3, ShownLines DEF FileStates
  <2>5. Cardinality(Before(files, w.from, d, i)) \in Nat
    BY <1>2, <2>3, <2>4, BeforeFinite
  <2>6. Len(q.matched) = 0
    BY <1>1
  <2>7. Ahead(files, q, r, d, i)
    BY <1>1, <1>2, <2>2, <2>3, <2>5, <2>6 DEF Ahead
  <2> QED
    BY <1>1, <2>4, <2>7
<1>5. Len(q.matched) <= Cardinality(Before(files, q.from, q.day, 0))
  <2>1. Cardinality(Before(files, q.from, q.day, 0)) \in Nat
    BY <1>1, <1>2, BeforeFinite
  <2>2. Len(q.matched) = 0
    BY <1>1
  <2> QED
    BY <2>1, <2>2
<1> QED
  BY <1>3, <1>4, <1>5 DEF Complete, q

LEMMA Repaged ==
  ASSUME NEW files \in [Days -> FileStates], NEW w \in WalkStates, today \in Days, InBounds(w),
         Complete(files, w)
  PROVE  InBounds(Page(w, w.offset)) /\ Complete(files, Page(w, w.offset))
<1> USE WalkNumbers
<1>1. ASSUME NEW r \in w.due
      PROVE  \E d \in w.from..today : \E i \in Shown(files[d].file) :
               files[d].file[i].rec = r /\ Cardinality(Before(files, w.from, d, i)) >= w.offset
  <2>1. PICK d \in w.from..w.to : \E i \in Nat : Ahead(files, w, r, d, i)
    BY DEF Complete
  <2>2. PICK i \in Nat : Ahead(files, w, r, d, i)
    BY <2>1
  <2>3. Cardinality(Before(files, w.from, d, i)) >= w.offset
    BY <2>2, AheadOfOffset
  <2>4. d \in w.from..today
    BY DaysAreNaturals DEF InBounds
  <2> QED
    BY <2>2, <2>3, <2>4 DEF Ahead
<1>2. w.from <= today
  BY DaysAreNaturals DEF InBounds
<1> QED
  BY <1>1, <1>2, FreshPage

\* When nothing leaves the list, no line that is shown moves or is hidden.
LEMMA ShownStays ==
  ASSUME LogInv, LogInv', Moves, NEW from \in Days, Listed(disk, from) \subseteq Listed(disk', from)
  PROVE  ShownStill(disk, disk', from)
<1> SUFFICES ASSUME NEW d \in Days, d >= from, NEW i \in Shown(disk[d].file)
             PROVE  i \in Shown(disk'[d].file) /\ disk'[d].file[i].rec = disk[d].file[i].rec
  BY DEF ShownStill
<1> DEFINE f == disk[d].file
           g == disk'[d].file
           r == f[i].rec
<1>1. LogTypeOK /\ LogTypeOK' /\ Lines /\ Lines'
  BY DEF LogInv
<1>2. f \in Seq(Pieces) /\ g \in Seq(Pieces)
  BY <1>1 DEF LogTypeOK, FileStates
<1>3. DOMAIN f = 1..Len(f) /\ DOMAIN g = 1..Len(g) /\ Len(f) \in Nat /\ Len(g) \in Nat
  <2> HIDE DEF f, g
  <2> QED
    BY <1>2
<1>4. i \in Readable(f) /\ r \in Wanted /\ ~ HasLongLine(f) /\ i \in DOMAIN f
  BY DEF Shown, Readable
<1>5. r \in Records /\ event[r].day = d /\ event[r].pc \notin {"new", "held"} /\ event'[r].day = d
  <2>1. r \in Records
    BY <1>4, RecordsAssumption
  <2>2. event[r].day = d /\ event[r].pc \notin {"new", "held"}
    BY <1>1, <1>4 DEF Lines
  <2>3. event'[r].day = event[r].day
    BY <2>1, <2>2 DEF Moves, Progress
  <2> QED
    BY <2>1, <2>2, <2>3
<1>6. r \in Listed(disk', from)
  <2>1. r \in ListedOn(f)
    BY <1>4 DEF ListedOn
  <2>2. d \in from..LastDay
    BY DaysAreNaturals DEF Days
  <2> QED
    BY <1>4, <2>1, <2>2 DEF Listed
<1>7. ~ HasLongLine(g) /\ \E k \in Readable(g) : g[k].rec = r
  <2>1. PICK y \in from..LastDay : r \in ListedOn(disk'[y].file)
    BY <1>6 DEF Listed
  <2>2. y \in Days
    BY DaysAreNaturals DEF Days
  <2>3. ~ HasLongLine(disk'[y].file) /\ \E k \in Readable(disk'[y].file) : disk'[y].file[k].rec = r
    BY <2>1 DEF ListedOn
  <2>4. \A k \in Readable(disk'[y].file) : k \in DOMAIN disk'[y].file
    BY DEF Readable
  <2>5. event'[r].day = y
    BY <1>1, <2>2, <2>3, <2>4 DEF Lines
  <2> QED
    BY <1>5, <2>3, <2>5
<1>8. PICK k \in Readable(g) : g[k].rec = r
  BY <1>7
<1>9. k \in DOMAIN g /\ (g[k].part = "all" \/ k = Len(g))
  BY <1>8 DEF Readable
<1>10. k \in DOMAIN f /\ g[k] = f[k]
  BY <1>1, <1>5, <1>8, <1>9, PiecesStep
<1>11. \A j \in DOMAIN f : j \in DOMAIN g /\ g[j] = f[j]
  <2>1. g # <<>>
    BY <1>9, <1>3
  <2> QED
    BY <1>1, <2>1, PiecesStep
<1>12. \A j, m \in DOMAIN f : f[j].rec = f[m].rec /\ f[j].part = "all" /\ f[m].part # "all" => m < j
  BY <1>1 DEF Lines
<1> HIDE DEF f, g
<1>13. (i = 1 \/ f[i - 1].part = "all") /\ (f[i].part = "all" \/ (f[i].part = "bare" /\ i = Len(f)))
  BY <1>4 DEF Readable
<1>14. i # 1 => i - 1 \in DOMAIN f
  BY <1>3, <1>4
<1>15. i \in Readable(g)
  <2>1. CASE f[i].part = "all"
    BY <1>4, <1>11, <1>13, <1>14, <2>1 DEF Readable
  <2>2. CASE f[i].part = "bare" /\ i = Len(f)
    <3>1. f[k].part # "all"
      BY <1>3, <1>4, <1>8, <1>10, <1>12, <2>2
    <3>2. i = Len(g)
      <4>1. k = Len(g)
        BY <1>9, <1>10, <3>1
      <4>2. k <= Len(f) /\ i <= Len(g) /\ i \in Nat /\ k \in Nat
        BY <1>3, <1>4, <1>10, <1>11
      <4> QED
        BY <2>2, <4>1, <4>2
    <3> QED
      BY <1>4, <1>11, <1>13, <1>14, <2>2, <3>2 DEF Readable
  <2> QED
    BY <1>13, <2>1, <2>2
<1>16. g[i] = f[i]
  BY <1>4, <1>11
<1>17. i \in Shown(g)
  BY <1>4, <1>7, <1>15, <1>16 DEF Shown
<1> QED
  BY <1>16, <1>17 DEF f, g

\* A file is scanned.
LEMMA ScanDayAhead ==
  ASSUME LogTypeOK, walk \in WalkStates, InBounds(walk), Complete(disk, walk), ScanDay
  PROVE  InBounds(walk)' /\ Complete(disk, walk')
<1> DEFINE w == walk
           n == walk'
           s == Scan(disk[w.day].file)
           S == Shown(disk[w.day].file)
<1>1. /\ w \in WalkStates /\ w.from \in Nat /\ w.to \in Nat /\ w.day \in Nat /\ w.offset \in Nat
      /\ w.matched \in Seq(Wanted) /\ Len(w.matched) \in Nat /\ DOMAIN w.matched = 1..Len(w.matched)
  BY WalkNumbers
<1>2. /\ w.day <= w.to /\ n = [w EXCEPT !.matched = @ \o s, !.day = @ + 1]
      /\ UNCHANGED <<today, event, disk, payload, cleanup>>
  BY DEF ScanDay
<1>3. /\ n.from = w.from /\ n.to = w.to /\ n.day = w.day + 1 /\ n.offset = w.offset /\ n.due = w.due
      /\ n.matched = w.matched \o s
  BY <1>1, <1>2 DEF WalkStates
<1>4. w.day \in Days
  BY <1>1, <1>2, WalkNumbers, DaysAreNaturals DEF Days
<1>5. disk \in [Days -> FileStates] /\ disk[w.day].file \in Seq(Pieces)
  BY <1>4 DEF LogTypeOK, FileStates
<1>6. /\ s \in Seq(Wanted) /\ Len(s) = Cardinality(S) /\ Cardinality(S) \in Nat
      /\ \A i \in S : /\ Rank(S, i) \in Nat /\ Rank(S, i) + 1 \in 1..Cardinality(S)
                      /\ s[Rank(S, i) + 1] = disk[w.day].file[i].rec
  BY <1>5, ScanShows, ShownLines
<1>7. InBounds(walk)'
  BY <1>1, <1>2, <1>3 DEF InBounds
<1> HIDE DEF s, S, w, n
<1>8. /\ Len(n.matched) = Len(w.matched) + Cardinality(S) /\ DOMAIN n.matched = 1..Len(n.matched)
      /\ \A p \in 1..Len(w.matched) : n.matched[p] = w.matched[p]
      /\ \A p \in 1..Cardinality(S) : n.matched[Len(w.matched) + p] = s[p]
  <2> DEFINE m == w.matched
             both == n.matched
  <2>1. m \in Seq(Wanted) /\ s \in Seq(Wanted) /\ both = m \o s
    BY <1>1, <1>3, <1>6
  <2> HIDE DEF m, both
  <2>2. /\ Len(both) = Len(m) + Len(s) /\ DOMAIN both = 1..Len(both)
        /\ \A p \in 1..Len(m) : both[p] = m[p]
        /\ \A p \in 1..Len(s) : both[Len(m) + p] = s[p]
    <3>0. Len(both) = Len(m) + Len(s)
      BY <2>1
    <3>1. both \in Seq(Wanted)
      BY <2>1
    <3>2. \A p \in 1..Len(m) : both[p] = m[p]
      BY <2>1
    <3>3. \A p \in 1..Len(s) : both[Len(m) + p] = s[p]
      BY <2>1
    <3> QED
      BY <3>0, <3>1, <3>2, <3>3
  <2> QED
    BY <1>6, <2>2 DEF m, both
<1>9. ASSUME NEW d \in Nat, NEW i \in Nat
      PROVE  /\ Cardinality(Before(disk, w.day, d, i)) \in Nat
             /\ Cardinality(Before(disk, w.day + 1, d, i)) \in Nat
             /\ Cardinality(Before(disk, w.from, d, i)) \in Nat
  <2>1. w.day + 1 \in Nat
    BY <1>1
  <2> QED
    BY <1>1, <1>5, <2>1, BeforeFinite
<1>10. Cardinality(Before(disk, w.day, w.day + 1, 0)) = Cardinality(S)
  BY <1>4, <1>5, BeforeOnDay DEF S
<1>11. w.from <= w.day
  BY DEF InBounds, w
<1>12. w.due # {} => Len(w.matched) <= Cardinality(Before(disk, w.from, w.day, 0))
  BY DEF Complete, w
<1>13. ASSUME NEW r \in w.due, NEW d \in w.from..w.to, NEW i \in Nat, Ahead(disk, w, r, d, i)
       PROVE  Ahead(disk, n, r, d, i)
  <2>1. d \in Nat
    BY <1>1
  <2>2. i \in Shown(disk[d].file) /\ disk[d].file[i].rec = r
    BY <1>13 DEF Ahead
  <2>3. CASE d > w.day
    <3>1. Len(w.matched) + Cardinality(Before(disk, w.day, d, i)) >= w.offset
      BY <1>1, <1>13, <2>1, <2>3 DEF Ahead
    <3>2. Cardinality(Before(disk, w.day, d, i)) =
            Cardinality(Before(disk, w.day, w.day + 1, 0)) + Cardinality(Before(disk, w.day + 1, d, i))
      <4>1. w.day + 1 \in Nat /\ w.day <= w.day + 1 /\ w.day + 1 <= d
        BY <1>1, <2>1, <2>3
      <4> QED
        BY <1>1, <1>5, <2>1, <4>1, BeforeSplit
    <3>3. Len(n.matched) + Cardinality(Before(disk, n.day, d, i)) >= n.offset
      <4> DEFINE a == Cardinality(Before(disk, w.day, d, i))
                 b == Cardinality(Before(disk, w.day + 1, d, i))
                 c == Cardinality(S)
                 m == Len(w.matched)
                 o == w.offset
      <4>1. a \in Nat /\ b \in Nat /\ c \in Nat /\ m \in Nat /\ o \in Nat
        BY <1>1, <1>6, <1>9, <2>1
      <4>2. m + a >= o
        BY <3>1
      <4>3. a = c + b
        BY <1>10, <3>2
      <4> HIDE DEF a, b, c, m, o
      <4>4. m + c + b >= o
        BY <4>1, <4>2, <4>3
      <4> QED
        BY <1>3, <1>8, <4>4 DEF b, c, m, o
    <3> QED
      BY <1>1, <1>3, <2>1, <2>2, <2>3, <3>3 DEF Ahead
  <2>4. CASE d = w.day
    <3> DEFINE p == Len(w.matched) + (Rank(S, i) + 1)
    <3>1. i \in S /\ r = disk[w.day].file[i].rec
      BY <2>2, <2>4 DEF S
    <3>2. Rank(S, i) \in Nat /\ Rank(S, i) + 1 \in 1..Cardinality(S) /\ s[Rank(S, i) + 1] = r
      BY <1>6, <3>1
    <3>3. Cardinality(Before(disk, w.day, d, i)) = Rank(S, i)
      BY <1>4, <1>5, <2>4, BeforeOnDay DEF S
    <3>4. Len(w.matched) + Rank(S, i) >= w.offset
      BY <1>1, <1>13, <2>1, <2>4, <3>3 DEF Ahead
    <3>5. Cardinality(Before(disk, w.from, d, i)) = Cardinality(Before(disk, w.from, w.day, 0)) + Rank(S, i)
      <4>1. w.day <= d
        BY <1>1, <2>4
      <4> QED
        BY <1>1, <1>5, <1>11, <2>1, <3>3, <4>1, BeforeSplit
    <3>6. p \in DOMAIN n.matched /\ n.matched[p] = r
      <4>1. Len(w.matched) \in Nat /\ Cardinality(S) \in Nat
        BY <1>1, <1>6
      <4>2. p \in 1..Len(w.matched) + Cardinality(S)
        BY <3>2, <4>1
      <4>3. n.matched[Len(w.matched) + (Rank(S, i) + 1)] = s[Rank(S, i) + 1]
        BY <1>8, <3>2
      <4> QED
        BY <1>8, <3>2, <4>2, <4>3
    <3>7. p > n.offset /\ p <= Cardinality(Before(disk, n.from, d, i)) + 1
      <4> DEFINE a == Cardinality(Before(disk, w.from, w.day, 0))
                 k == Rank(S, i)
      <4>1. a \in Nat /\ k \in Nat /\ Len(w.matched) <= a /\ Len(w.matched) + k >= w.offset
        <5>1. a \in Nat
          BY <1>1, <1>9
        <5>2. Len(w.matched) <= a
          BY <1>12, <1>13
        <5> QED
          BY <3>2, <3>4, <5>1, <5>2
      <4>2. Cardinality(Before(disk, n.from, d, i)) = a + k /\ n.offset = w.offset
        BY <1>3, <3>5
      <4> HIDE DEF a
      <4> QED
        BY <1>1, <4>1, <4>2
    <3> QED
      BY <1>1, <1>3, <2>2, <2>4, <3>6, <3>7 DEF Ahead
  <2>5. CASE d < w.day
    <3>1. PICK p \in DOMAIN w.matched : /\ p > w.offset /\ w.matched[p] = r
                                        /\ p <= Cardinality(Before(disk, w.from, d, i)) + 1
      BY <1>1, <1>13, <2>1, <2>5 DEF Ahead
    <3>2. p \in DOMAIN n.matched /\ n.matched[p] = r
      BY <1>1, <1>6, <1>8, <3>1
    <3> QED
      BY <1>1, <1>3, <2>1, <2>2, <2>5, <3>1, <3>2 DEF Ahead
  <2> QED
    BY <1>1, <2>1, <2>3, <2>4, <2>5
<1>14. ASSUME w.due # {} PROVE Len(n.matched) <= Cardinality(Before(disk, n.from, n.day, 0))
  <2>1. Cardinality(Before(disk, w.from, w.day + 1, 0)) =
          Cardinality(Before(disk, w.from, w.day, 0)) + Cardinality(Before(disk, w.day, w.day + 1, 0))
    <3>1. w.day + 1 \in Nat /\ w.day <= w.day + 1
      BY <1>1
    <3> QED
      BY <1>1, <1>5, <1>11, <3>1, BeforeSplit
  <2> QED
    <3> DEFINE a == Cardinality(Before(disk, w.from, w.day, 0))
    <3>1. a \in Nat /\ Len(w.matched) <= a
      BY <1>1, <1>9, <1>12, <1>14
    <3>2. Cardinality(Before(disk, n.from, n.day, 0)) = a + Cardinality(S)
      BY <1>3, <1>10, <2>1
    <3> HIDE DEF a
    <3> QED
      BY <1>1, <1>6, <1>8, <3>1, <3>2
<1>15. \A r \in w.due : \E d \in w.from..w.to : \E i \in Nat : Ahead(disk, w, r, d, i)
  BY DEF Complete, w
<1>16. Complete(disk, n)
  BY <1>3, <1>13, <1>14, <1>15 DEF Complete
<1> QED
  BY <1>7, <1>16 DEF n

\* A walk begins: everything that is listed is of a day that has begun.
LEMMA BeginWalkAhead ==
  ASSUME LogInv, BeginWalk
  PROVE  walk'.pc = "page" /\ InBounds(walk)' /\ Complete(disk, walk')
<1>1. LogTypeOK /\ EventsInTime /\ Lines /\ today \in Days /\ disk \in [Days -> FileStates]
  BY DEF LogInv, LogTypeOK
<1>2. PICK from \in 0..today : walk' = Page([NoWalk EXCEPT !.from = from, !.due = Listed(disk, from)], 0)
  BY DEF BeginWalk
<1>3. from \in Days /\ from <= today /\ from \in Nat /\ today \in Nat /\ today' = today
  BY <1>1, DaysAreNaturals DEF Days, BeginWalk
<1> DEFINE w == [NoWalk EXCEPT !.from = from, !.due = Listed(disk, from)]
<1>4. w \in WalkStates /\ w.from = from /\ w.due = Listed(disk, from)
  <2>1. [NoWalk EXCEPT !.from = from] \in WalkStates
    BY <1>3, NoWalkType DEF WalkStates
  <2>2. w = [[NoWalk EXCEPT !.from = from] EXCEPT !.due = Listed(disk, from)]
    BY DEF NoWalk
  <2> QED
    BY <2>1, <2>2, ListedWanted DEF WalkStates, NoWalk
<1> HIDE DEF w
<1>5. ASSUME NEW r \in w.due
      PROVE  \E d \in w.from..today : \E i \in Shown(disk[d].file) :
               disk[d].file[i].rec = r /\ Cardinality(Before(disk, w.from, d, i)) >= 0
  <2>1. PICK d \in from..LastDay : r \in ListedOn(disk[d].file) /\ r \in Wanted
    BY <1>4 DEF Listed
  <2>2. d \in Days /\ d \in Nat /\ d >= from
    BY <1>3, DaysAreNaturals DEF Days
  <2>3. PICK i \in Readable(disk[d].file) : disk[d].file[i].rec = r /\ ~ HasLongLine(disk[d].file)
    BY <2>1 DEF ListedOn
  <2>4. i \in Shown(disk[d].file)
    BY <2>1, <2>3 DEF Shown
  <2>5. event[r].day = d
    BY <1>1, <2>2, <2>3 DEF Lines, Readable
  <2>6. d \in from..today
    <3>1. r \in Records
      BY <2>1, RecordsAssumption
    <3>2. d <= today
      BY <1>1, <2>5, <3>1 DEF EventsInTime
    <3> QED
      BY <1>3, <2>2, <3>2
  <2>7. i \in Nat
    BY <1>1, <2>2, <2>4, ShownLines DEF FileStates
  <2>8. Cardinality(Before(disk, from, d, i)) \in Nat
    BY <1>1, <1>3, <2>2, <2>7, BeforeFinite
  <2> QED
    BY <1>4, <2>3, <2>4, <2>6, <2>8
<1>6. InBounds(Page(w, 0)) /\ Complete(disk, Page(w, 0))
  BY <1>1, <1>3, <1>4, <1>5, FreshPage
<1>7. Page(w, 0).pc = "page" /\ walk' = Page(w, 0)
  BY <1>1, <1>2, <1>4, PageType DEF w
<1> QED
  BY <1>3, <1>6, <1>7 DEF InBounds

\* A page is answered: what is due still was beyond it.
LEMMA AnswerPageAhead ==
  ASSUME LogInv, walk \in WalkStates, InBounds(walk), Complete(disk, walk), AnswerPage
  PROVE  \/ walk'.pc = "idle" /\ walk'.due = {}
         \/ walk'.pc = "page" /\ InBounds(walk)' /\ Complete(disk, walk')
<1> DEFINE total == Len(walk.matched)
           range == PageRange(total, walk.offset, Limit)
           page  == SubSeq(walk.matched, range[1] + 1, range[2])
           left  == walk.due \ ToSet(page)
           next  == walk.offset + Limit
           w     == [walk EXCEPT !.due = left]
<1>1. /\ walk.from \in Nat /\ walk.to \in Nat /\ walk.day \in Nat /\ walk.offset \in Nat
      /\ walk.matched \in Seq(Wanted) /\ total \in Nat /\ DOMAIN walk.matched = 1..total
  BY WalkNumbers
<1>2. Limit \in Nat /\ Limit > 0 /\ next \in Nat
  BY <1>1, BoundsAssumption
<1>3. /\ walk.day > walk.to /\ UNCHANGED <<today, disk>>
      /\ walk' = IF next < total THEN Page(w, next) ELSE [NoWalk EXCEPT !.due = left]
  BY DEF AnswerPage
<1>4. disk \in [Days -> FileStates] /\ today \in Days /\ today \in Nat
  BY DaysAreNaturals DEF LogInv, LogTypeOK
<1>5. walk.from <= today /\ walk.to <= today /\ walk.from <= walk.to
  BY <1>1, <1>4 DEF InBounds
<1>6. w \in WalkStates /\ w.from = walk.from /\ w.due = left
  BY DEF WalkStates
<1>7. ASSUME NEW r \in left, NEW d \in walk.from..walk.to, NEW i \in Nat, Ahead(disk, walk, r, d, i)
      PROVE  next < total /\ Cardinality(Before(disk, walk.from, d, i)) >= next
  <2>1. d \in Nat /\ d < walk.day
    BY <1>1, <1>3
  <2>2. PICK p \in DOMAIN walk.matched : /\ p > walk.offset /\ walk.matched[p] = r
                                         /\ p <= Cardinality(Before(disk, walk.from, d, i)) + 1
    BY <1>1, <1>7, <2>1 DEF Ahead
  <2>3. p \in Nat /\ p <= total /\ p >= 1 /\ Cardinality(Before(disk, walk.from, d, i)) \in Nat
    <3>1. p \in 1..total
      BY <1>1, <2>2
    <3>2. Cardinality(Before(disk, walk.from, d, i)) \in Nat
      BY <1>1, <1>4, <2>1, BeforeFinite
    <3> QED
      BY <1>1, <3>1, <3>2
  <2>4. range[1] = walk.offset /\ range[2] = IF walk.offset + Limit > total THEN total ELSE walk.offset + Limit
    <3> DEFINE o == walk.offset
    <3>1. total \in Nat /\ o \in Nat /\ ~ o > total
      BY <1>1, <2>2, <2>3
    <3> HIDE DEF total, o
    <3>2. PageRange(total, o, Limit)[1] = o
      BY <3>1, PageBounds
    <3>3. PageRange(total, o, Limit)[2] = IF o + Limit > total THEN total ELSE o + Limit
      BY <3>1, <3>2, PageBounds
    <3> QED
      BY <3>2, <3>3 DEF o
  <2>5. ~ p <= range[2]
    <3> SUFFICES ASSUME p <= range[2] PROVE FALSE
      OBVIOUS
    <3>1. range[1] \in Nat /\ range[2] \in Nat /\ range[2] <= total
      BY <1>1, <1>2, <2>4
    <3>2. p \in range[1] + 1..range[2]
      BY <1>1, <2>2, <2>3, <2>4, <3>1
    <3> DEFINE k == p - range[1]
    <3>3. k \in 1..range[2] - range[1]
      BY <2>3, <3>1, <3>2
    <3>4. page[k] = walk.matched[p] /\ k \in DOMAIN page
      <4> DEFINE m == walk.matched
                 a == range[1]
                 b == range[2]
      <4>1. /\ m \in Seq(Wanted) /\ a \in Nat /\ b \in Nat /\ b <= Len(m)
            /\ p \in Nat /\ k \in 1..b - a /\ p = a + k
        BY <1>1, <2>3, <3>1, <3>3
      <4> HIDE DEF m, a, b, k
      <4>2. SubSeq(m, a + 1, b)[k] = m[p] /\ k \in DOMAIN SubSeq(m, a + 1, b)
        BY <4>1
      <4> QED
        BY <4>2 DEF m, a, b
    <3>5. r \in ToSet(page)
      BY <2>2, <3>4 DEF ToSet
    <3> QED
      BY <3>5
  <2>6. range[2] = next /\ next < total /\ p > next
    BY <1>1, <1>2, <2>3, <2>4, <2>5
  <2> QED
    BY <1>2, <2>2, <2>3, <2>6
<1>8. ASSUME NEW r \in left
      PROVE  next < total /\ \E d \in walk.from..today : \E i \in Shown(disk[d].file) :
               disk[d].file[i].rec = r /\ Cardinality(Before(disk, walk.from, d, i)) >= next
  <2>1. PICK d \in walk.from..walk.to : \E i \in Nat : Ahead(disk, walk, r, d, i)
    BY DEF Complete
  <2>2. PICK i \in Nat : Ahead(disk, walk, r, d, i)
    BY <2>1
  <2>3. next < total /\ Cardinality(Before(disk, walk.from, d, i)) >= next
    BY <1>7, <2>2
  <2>4. d \in walk.from..today
    BY <1>1, <1>4, <1>5
  <2> QED
    BY <2>2, <2>3, <2>4 DEF Ahead
<1> HIDE DEF left, total, next, w
<1>9. CASE next < total
  <2>1. InBounds(Page(w, next)) /\ Complete(disk, Page(w, next))
    BY <1>2, <1>4, <1>5, <1>6, <1>8, FreshPage
  <2>2. walk' = Page(w, next) /\ Page(w, next).pc = "page"
    BY <1>2, <1>3, <1>4, <1>6, <1>9, PageType
  <2> QED
    BY <1>3, <2>1, <2>2 DEF InBounds
<1>10. CASE ~ next < total
  <2>1. left = {}
    BY <1>8, <1>10
  <2> QED
    BY <1>3, <1>10, <2>1 DEF NoWalk
<1> QED
  BY <1>9, <1>10

\* A step that is only watched leaves everything due ahead, or nothing due.
LEMMA WatchedAhead ==
  ASSUME LogInv, LogInv', Moves, NEW w \in WalkStates, Watch(w),
         w.pc = "page" => InBounds(w) /\ Complete(disk, w)
  PROVE  /\ walk'.pc = w.pc /\ walk'.due \subseteq w.due
         /\ w.pc = "page" => InBounds(walk)' /\ Complete(disk', walk')
<1>1. /\ disk \in [Days -> FileStates] /\ disk' \in [Days -> FileStates] /\ today <= today'
      /\ today \in Nat /\ today' \in Nat
  BY DaysAreNaturals DEF LogInv, LogTypeOK, Moves
<1>2. w.from \in Days /\ w.from \in Nat /\ w.to \in Nat
  BY WalkNumbers
<1>3. CASE walk' = w /\ (w.pc = "page" => Listed(disk, w.from) \subseteq Listed(disk', w.from))
  <2>1. ASSUME w.pc = "page" PROVE InBounds(walk)' /\ Complete(disk', walk')
    <3>1. ShownStill(disk, disk', w.from)
      BY <1>2, <1>3, <2>1, ShownStays
    <3>2. Complete(disk', w)
      BY <1>1, <2>1, <3>1, CompleteGrows
    <3>3. w.to <= today'
      BY <1>1, <1>2, <2>1 DEF InBounds
    <3> QED
      BY <1>3, <2>1, <3>2, <3>3 DEF InBounds
  <2> QED
    BY <1>3, <2>1
<1>4. CASE walk' = [w EXCEPT !.due = {}] /\ w.pc = "page"
  <2>1. /\ walk'.pc = w.pc /\ walk'.due = {} /\ walk'.from = w.from /\ walk'.to = w.to /\ walk'.day = w.day
    BY <1>4 DEF WalkStates
  <2>2. w.to <= today'
    BY <1>1, <1>2, <1>4 DEF InBounds
  <2>3. InBounds(walk)'
    BY <1>4, <2>1, <2>2 DEF InBounds
  <2>4. Complete(disk', walk')
    BY <2>1 DEF Complete
  <2> QED
    BY <2>1, <2>3, <2>4
<1> QED
  BY <1>3, <1>4, WatchType

Walks == walk \in WalkStates /\ Walking

LEMMA WalkingBounds ==
  Walking <=> /\ walk.pc = "idle" => walk.due = {}
              /\ walk.pc = "page" => InBounds(walk) /\ Complete(disk, walk)
BY DEF Walking, InBounds

LEMMA WalkingStep == LogInv /\ LogInv' /\ Walks /\ [Next]_vars => Walks'
<1> SUFFICES ASSUME LogInv, LogInv', Walks, [Next]_vars PROVE Walks'
  OBVIOUS
<1>1. LogTypeOK /\ OnlyExpiredGoes /\ Moves /\ today \in Days /\ disk \in [Days -> FileStates]
  BY StepMoves DEF LogInv, LogTypeOK
<1>2. /\ walk \in WalkStates /\ walk' \in WalkStates
      /\ walk.pc = "idle" => walk.due = {}
      /\ walk.pc = "page" => InBounds(walk) /\ Complete(disk, walk)
  BY <1>1, WalkTypes, WalkingBounds DEF Walks
<1>3. walk.pc \in {"idle", "page"} /\ walk'.pc \in {"idle", "page"}
  BY <1>2 DEF WalkStates
<1> SUFFICES /\ walk'.pc = "idle" => walk'.due = {}
             /\ walk'.pc = "page" => InBounds(walk)' /\ Complete(disk', walk')
  BY <1>2 DEF Walks, Walking, InBounds
<1>4. CASE BeginWalk
  <2>1. disk' = disk
    BY <1>4 DEF BeginWalk
  <2> QED
    BY <1>4, <2>1, BeginWalkAhead
<1>5. CASE ScanDay
  <2>1. disk' = disk /\ walk.pc = "page" /\ walk' = [walk EXCEPT !.matched = @ \o Scan(disk[walk.day].file), !.day = @ + 1]
    BY <1>5 DEF ScanDay
  <2>2. InBounds(walk)' /\ Complete(disk, walk')
    BY <1>1, <1>2, <1>5, <2>1, ScanDayAhead
  <2>3. walk'.pc = "page"
    BY <1>2, <2>1 DEF WalkStates
  <2> QED
    BY <2>1, <2>2, <2>3
<1>6. CASE AnswerPage
  <2>1. disk' = disk /\ walk.pc = "page"
    BY <1>6 DEF AnswerPage
  <2>2. \/ walk'.pc = "idle" /\ walk'.due = {}
        \/ walk'.pc = "page" /\ InBounds(walk)' /\ Complete(disk, walk')
    BY <1>2, <1>6, <2>1, AnswerPageAhead
  <2> QED
    BY <2>1, <2>2
<1>7. CASE UNCHANGED vars
  <2>1. disk' = disk /\ walk' = walk /\ today' = today
    BY <1>7 DEF vars
  <2> QED
    BY <1>2, <2>1 DEF InBounds
<1>8. CASE Watch(walk)
  <2>1. /\ walk'.pc = walk.pc /\ walk'.due \subseteq walk.due
        /\ walk.pc = "page" => InBounds(walk)' /\ Complete(disk', walk')
    BY <1>1, <1>2, <1>8, WatchedAhead
  <2> QED
    BY <1>2, <2>1
<1>9. CASE Watch(Interrupted(walk))
  <2> DEFINE w == Interrupted(walk)
  <2>1. w \in WalkStates /\ (w.pc = "page" => InBounds(w) /\ Complete(disk, w))
        /\ (w.pc = "idle" => w.due = {})
    <3>1. CASE walk.pc = "page"
      <4>1. w = Page(walk, walk.offset) /\ walk.offset \in Nat
        BY <1>2, <3>1, WalkNumbers DEF Interrupted
      <4>2. Page(walk, walk.offset) \in WalkStates /\ Page(walk, walk.offset).pc = "page"
        BY <1>1, <1>2, <4>1, PageType
      <4>3. InBounds(Page(walk, walk.offset)) /\ Complete(disk, Page(walk, walk.offset))
        BY <1>1, <1>2, <3>1, Repaged
      <4> QED
        BY <4>1, <4>2, <4>3
    <3>2. CASE walk.pc = "idle"
      BY <1>2, <3>2 DEF Interrupted
    <3> QED
      BY <1>3, <3>1, <3>2
  <2> HIDE DEF w
  <2>2. Watch(w)
    BY <1>9 DEF w
  <2>3. /\ walk'.pc = w.pc /\ walk'.due \subseteq w.due
        /\ w.pc = "page" => InBounds(walk)' /\ Complete(disk', walk')
    BY <1>1, <2>1, <2>2, WatchedAhead
  <2> QED
    BY <2>1, <2>3
<1> QED
  BY <1>4, <1>5, <1>6, <1>7, <1>8, <1>9, Watches DEF Read

(* The client that asks for page after page sees every event that was      *)
(* listed when it began, for every number of events, days and lines per    *)
(* page, whatever is written, cut short, restarted or paged anew meanwhile, *)
(* as long as nothing leaves the list.                                     *)
THEOREM EveryPageIsSeen == Spec => []PagesMissNothing
<1>1. Init => Walks
  <2> SUFFICES ASSUME Init PROVE Walks
    OBVIOUS
  <2>1. walk = NoWalk
    BY DEF Init
  <2> QED
    BY <2>1, NoWalkType DEF Walks, Walking, NoWalk
<1>2. Walks => PagesMissNothing
  BY DEF Walks, Walking, PagesMissNothing
<1> QED
  BY <1>1, <1>2, LogInvariance, WalkingStep, PTL DEF Spec

=============================================================================
