------------------------------ MODULE AuditFile ------------------------------
(***************************************************************************)
(* The audit files (audit/file): request goroutines append metadata lines  *)
(* to one file per day and write a payload file each, retention removes    *)
(* whole days, the process crashes and starts again, and a client of the   *)
(* admin endpoint pages through what is listed meanwhile.                  *)
(*                                                                         *)
(* One kind of event is modelled (the other one has its own files).  The   *)
(* writer's lock covers a whole metadata write, reopening included; the    *)
(* payloads, retention and the reader do not take it.  Time is counted in  *)
(* days; an event keeps the day on which its request started.              *)
(***************************************************************************)
EXTENDS Naturals, FiniteSets, SequencesExt

CONSTANTS Records,              \* the events, one per request
          Earlier,              \* the sequence of those written by an earlier process
          Long,                 \* those whose line exceeds the scanner's buffer
          LastDay,              \* bound: the clock stops here
          MaxAge,               \* MaxAgeDays
          MaxTorn,              \* bound: incomplete lines on disk
          Wanted,               \* what the filters of the client let through
          Limit                 \* the client's page size

ASSUME RecordsAssumption == Long \subseteq Records /\ Wanted \subseteq Records /\ Earlier \in Seq(Records)
ASSUME DaysAssumption == LastDay \in Nat /\ MaxAge \in Nat \ {0}
ASSUME BoundsAssumption == MaxTorn \in Nat /\ Limit \in Nat \ {0}

Days == 0..LastDay

VARIABLES today,
          event,                \* the goroutine of each event
          disk,                 \* per day, the metadata file and its handle
          payload,              \* the events whose payload file is whole
          cleanup,              \* runCleanup
          walk                  \* the client

vars == <<today, event, disk, payload, cleanup, walk>>

\* What one write leaves in the file: a whole line, or after a failure some
\* of it, or all of it but the line feed.
Pieces == [rec : Records, part : {"all", "some", "bare"}, long : BOOLEAN]
Piece(r, part, long) == [rec |-> r, part |-> part, long |-> long]
Line(r) == Piece(r, "all", r \in Long)
Cuts(r) == {Piece(r, "bare", r \in Long)} \cup {Piece(r, "some", l) : l \in {FALSE, (r \in Long)}}

Closed == [file |-> <<>>, handle |-> "none"]
NoWalk == [pc |-> "idle", from |-> 0, to |-> 0, day |-> 0, matched |-> <<>>, offset |-> 0, due |-> {}]
NoCleanup == [stage |-> "idle", doomed |-> {}, left |-> {}]

\* The clock starts on the day on which the earlier events were written.
Init ==
  /\ today = 0
  /\ event = [r \in Records |->
                IF r \in ToSet(Earlier) THEN [pc |-> "done", day |-> 0, logged |-> TRUE, stored |-> TRUE]
                ELSE [pc |-> "new", day |-> 0, logged |-> FALSE, stored |-> FALSE]]
  /\ disk = [d \in Days |-> [Closed EXCEPT !.file = IF d = 0 THEN [k \in DOMAIN Earlier |-> Line(Earlier[k])] ELSE @]]
  /\ payload = ToSet(Earlier)
  /\ cleanup = NoCleanup
  /\ walk = NoWalk

-----------------------------------------------------------------------------
\* A file whose directory was removed keeps taking what is written to it.
Put(fs, piece) == IF fs.handle = "live" THEN [fs EXCEPT !.file = Append(@, piece)] ELSE fs

\* Fault: opened without O_APPEND, a file is written from its start.
OpenTruncating(fs) == [fs EXCEPT !.handle = "live", !.file = <<>>]

Open(fs) == [fs EXCEPT !.handle = "live"]
Handle(fs) == IF fs.handle = "none" THEN Open(fs) ELSE fs

\* A write that fails, after nothing or after a part.
Failed(fs, r) == {fs} \cup {Put(fs, c) : c \in Cuts(r)}

\* writeMetadata: write; when that fails, close, open again and write once
\* more; a handle whose second write fails is kept.
WriteOutcomes(fs, r) ==
  LET shut   == {[f EXCEPT !.handle = "none"] : f \in Failed(Handle(fs), r)}
      result(ok, S) == {[disk |-> f, ok |-> ok] : f \in S}
  IN  result(TRUE, {Put(Handle(fs), Line(r))})
        \cup result(FALSE, IF fs.handle = "none" THEN {fs} ELSE {})
        \cup result(FALSE, shut)
        \cup result(TRUE, {Put(Open(f), Line(r)) : f \in shut})
        \cup result(FALSE, UNION {Failed(Open(f), r) : f \in shut})

Torn(f) == {i \in DOMAIN f : f[i].part # "all"}
WithinBound == Cardinality(UNION {{d} \X Torn(disk'[d].file) : d \in Days}) <= MaxTorn

-----------------------------------------------------------------------------
\* Reader.  A piece can be read when it has its line to itself.
Readable(f) ==
  {i \in DOMAIN f :
     /\ i = 1 \/ f[i - 1].part = "all"
     /\ f[i].part = "all" \/ (f[i].part = "bare" /\ i = Len(f))}

\* scanVerifyFile: a line longer than the buffer hides its whole file.
HasLongLine(f) == \E i \in DOMAIN f : f[i].long

\* The k-th of the lines at.
Nth(at, k) == CHOOSE i \in at : Cardinality({j \in at : j < i}) = k - 1

\* Fault: the filters are not applied.
ScanUnfiltered(f) ==
  LET at == IF HasLongLine(f) THEN {} ELSE Readable(f)
  IN  [k \in 1..Cardinality(at) |-> f[Nth(at, k)].rec]

\* The lines that pass the filters, in the order of the file.
Shown(f) == IF HasLongLine(f) THEN {} ELSE {i \in Readable(f) : f[i].rec \in Wanted}
Scan(f) == [k \in 1..Cardinality(Shown(f)) |-> f[Nth(Shown(f), k)].rec]

ListedOn(f) == IF HasLongLine(f) THEN {} ELSE {f[i].rec : i \in Readable(f)}

\* All that the client can be shown from a day on.
Listed(files, from) == Wanted \cap UNION {ListedOn(files[d].file) : d \in from..LastDay}

\* The client asks for page after page; without "to" a page ends today.  due
\* is not in the code: what was listed when the walk began and was not shown
\* yet.
Page(w, offset) == [w EXCEPT !.pc = "page", !.to = today, !.day = w.from, !.matched = <<>>, !.offset = offset]

\* When something leaves the list the later pages move up, and nothing is
\* due any more.
Watch(w) ==
  walk' = IF w.pc = "page" /\ ~ Listed(disk, w.from) \subseteq Listed(disk', w.from)
          THEN [w EXCEPT !.due = {}] ELSE w

\* A page that was being read when the process ended is asked for again.
Interrupted(w) == IF w.pc = "page" THEN Page(w, w.offset) ELSE w

-----------------------------------------------------------------------------
Tick ==
  /\ today < LastDay
  /\ today' = today + 1
  /\ UNCHANGED <<event, disk, payload, cleanup>> /\ Watch(walk)

Begin(r) ==
  /\ event[r].pc = "new"
  /\ event' = [event EXCEPT ![r] = [@ EXCEPT !.pc = "held", !.day = today]]
  /\ UNCHANGED <<today, disk, payload, cleanup>> /\ Watch(walk)

WriteMetadata(r) ==
  /\ event[r].pc = "held"
  /\ \E out \in WriteOutcomes(disk[event[r].day], r) :
       /\ disk' = [disk EXCEPT ![event[r].day] = out.disk]
       /\ event' = [event EXCEPT ![r] = [@ EXCEPT !.pc = "logged", !.logged = out.ok]]
  /\ WithinBound
  /\ UNCHANGED <<today, payload, cleanup>> /\ Watch(walk)

\* The payload is written, or not, or in part, whatever became of the line.
WritePayload(r) ==
  /\ event[r].pc = "logged"
  /\ \E ok \in BOOLEAN :
       /\ payload' = IF ok THEN payload \cup {r} ELSE payload
       /\ event' = [event EXCEPT ![r] = [@ EXCEPT !.pc = "done", !.stored = ok]]
  /\ UNCHANGED <<today, disk, cleanup>> /\ Watch(walk)

\* Fault: a day is removed one day early.
ExpiredEarly(d) == d + MaxAge <= today + 1

\* The midnight a day began at is before the cutoff.
Expired(d) == d + MaxAge <= today

\* runCleanup: the days to remove are those expired when it starts, the
\* metadata before the payloads.
StartCleanup ==
  LET doomed == {d \in Days : Expired(d)}
  IN  /\ cleanup.stage = "idle" /\ doomed # {}
      /\ cleanup' = [stage |-> "metadata", doomed |-> doomed, left |-> doomed]
      /\ UNCHANGED <<today, event, disk, payload>> /\ Watch(walk)

\* cleanDateDirs: the directory of a day is removed, or cannot be.
RemoveDay(d) ==
  /\ d \in cleanup.left
  /\ cleanup' = [cleanup EXCEPT !.left = @ \ {d}]
  /\ \/ /\ cleanup.stage = "metadata"
        /\ disk' = [disk EXCEPT ![d] =
                      [file |-> <<>>, handle |-> IF disk[d].handle = "none" THEN "none" ELSE "stale"]]
        /\ UNCHANGED payload
     \/ /\ cleanup.stage = "payloads"
        /\ payload' = {r \in payload : event[r].day # d}
        /\ UNCHANGED disk
     \/ UNCHANGED <<disk, payload>>
  /\ UNCHANGED <<today, event>> /\ Watch(walk)

NextStage ==
  /\ cleanup.stage # "idle" /\ cleanup.left = {}
  /\ cleanup' = IF cleanup.stage = "metadata"
                THEN [cleanup EXCEPT !.stage = "payloads", !.left = cleanup.doomed]
                ELSE NoCleanup
  /\ UNCHANGED <<today, event, disk, payload>> /\ Watch(walk)

\* A crash, or Close and the end of the process, and a new start: handles
\* and requests are gone, the files are what was written so far.
Restart ==
  /\ \E written \in {disk} \cup {[disk EXCEPT ![event[w[1]].day] = w[2].disk] :
                                w \in UNION {{r} \X WriteOutcomes(disk[event[r].day], r) :
                                             r \in {q \in Records : event[q].pc = "held"}}} :
       disk' = [d \in Days |-> [written[d] EXCEPT !.handle = "none"]]
  /\ WithinBound
  /\ payload' \in {payload} \cup {payload \cup {r} : r \in {q \in Records : event[q].pc = "logged"}}
  /\ event' = [r \in Records |-> [event[r] EXCEPT !.pc = IF @ = "new" THEN "new" ELSE "done"]]
  /\ cleanup' = NoCleanup
  /\ UNCHANGED today /\ Watch(Interrupted(walk))

-----------------------------------------------------------------------------
BeginWalk ==
  /\ walk.pc = "idle"
  /\ \E from \in 0..today :
       walk' = Page([NoWalk EXCEPT !.from = from, !.due = Listed(disk, from)], 0)
  /\ UNCHANGED <<today, event, disk, payload, cleanup>>

\* List: the files are read one after the other.
ScanDay ==
  /\ walk.pc = "page" /\ walk.day <= walk.to
  /\ walk' = [walk EXCEPT !.matched = @ \o Scan(disk[walk.day].file), !.day = @ + 1]
  /\ UNCHANGED <<today, event, disk, payload, cleanup>>

\* Fault: the page ends one short.
PageRangeShort(total, offset, limit) ==
  LET start == IF offset > total THEN total ELSE offset
  IN  <<start, IF start + limit > total THEN total ELSE start + limit - 1>>

PageRange(total, offset, limit) ==
  LET start == IF offset > total THEN total ELSE offset
  IN  <<start, IF start + limit > total THEN total ELSE start + limit>>

AnswerPage ==
  LET total == Len(walk.matched)
      range == PageRange(total, walk.offset, Limit)
      left  == walk.due \ ToSet(SubSeq(walk.matched, range[1] + 1, range[2]))
  IN  /\ walk.pc = "page" /\ walk.day > walk.to
      /\ walk' = IF walk.offset + Limit < total
                 THEN Page([walk EXCEPT !.due = left], walk.offset + Limit)
                 ELSE [NoWalk EXCEPT !.due = left]
      /\ UNCHANGED <<today, event, disk, payload, cleanup>>

WriteEvent(r) == Begin(r) \/ WriteMetadata(r) \/ WritePayload(r)
Clean == StartCleanup \/ (\E d \in Days : RemoveDay(d)) \/ NextStage
Read == BeginWalk \/ ScanDay \/ AnswerPage

Next == Tick \/ (\E r \in Records : WriteEvent(r)) \/ Clean \/ Restart \/ Read

Spec == Init /\ [][Next]_vars

-----------------------------------------------------------------------------
TypeOK ==
  /\ today \in Days
  /\ event \in [Records -> [pc : {"new", "held", "logged", "done"}, day : Days,
                            logged : BOOLEAN, stored : BOOLEAN]]
  /\ disk \in [Days -> [file : Seq(Pieces), handle : {"none", "live", "stale"}]]
  /\ payload \subseteq Records
  /\ cleanup \in [stage : {"idle", "metadata", "payloads"}, doomed : SUBSET Days, left : SUBSET Days]
  /\ walk \in [pc : {"idle", "page"}, from : Days, to : Days, day : 0..LastDay + 1,
               matched : Seq(Wanted), offset : Nat, due : SUBSET Wanted]

\* A day lasts MaxAge days from its beginning.
Kept(d) == today < d + MaxAge

(* While its day is kept, what was written is there: each incomplete line  *)
(* on disk costs at most one event whose own write succeeded (the one that *)
(* was appended to it, be it by the second attempt of the same write), and *)
(* a payload whose write succeeded is whole.  It rests on failed writes,   *)
(* crashes, reopened files and retention of other days never cutting into  *)
(* a file, and on no write going to the file of a removed directory.       *)
RetainedUntilExpiry ==
  \A d \in {k \in Days : Kept(k)} :
    LET f    == disk[d].file
        mine == {r \in Records : event[r].day = d}
    IN  /\ Cardinality({r \in mine : event[r].logged} \ {f[i].rec : i \in Readable(f)}) <= Cardinality(Torn(f))
        /\ \A r \in mine : event[r].stored => r \in payload

(* An event that was written and can be listed stays so until its day      *)
(* expires or a line too long to be scanned hides the day: no later write, *)
(* failure, crash or reopening makes the scan lose a line it could read.   *)
ListedStays ==
  [][\A r \in Records :
       LET d == event[r].day
       IN  /\ event[r].logged /\ r \in ListedOn(disk[d].file)
           /\ Kept(d)' /\ ~ HasLongLine(disk'[d].file)
           => r \in ListedOn(disk'[d].file)]_vars

(* Paging misses nothing: when the client has asked for every page, one    *)
(* after the other, it has seen every event that was listed when it began, *)
(* although every page is read anew, file by file, while events are        *)
(* written, also to earlier days; provided that nothing left the list.     *)
PagesMissNothing == walk.pc = "idle" => walk.due = {}
=============================================================================
