------------------------------ MODULE Storage ------------------------------
(* The record store: segment files and their manager (storage/segment.go),   *)
(* the scanners (storage/scanner.go), the record layout                      *)
(* (storage/serializer.go), WriteRecord and UpdateEventFlags                 *)
(* (store/eventstore.go), the append loop of a batch and RunCompaction       *)
(* (eventstore/eventstore_impl.go), the compactor                            *)
(* (compaction/compaction_impl.go) and the scan that rebuilds the event map  *)
(* (recovery/recovery.go).                                                   *)
(*                                                                           *)
(* A file is its pages and its size in bytes.  Every record starts on a page *)
(* of its own, so an offset is a page number; lengths stay in bytes because  *)
(* every limit in the code compares bytes.  What is not synced may be lost   *)
(* by a crash, page by page.                                                 *)
EXTENDS Integers, Sequences, FiniteSets, FiniteSetsExt

CONSTANTS
  Events,            \* the events written
  Payload,           \* bytes of an event's tags and content
  Malformed,         \* events with an empty tag among their tags
  Writers,           \* goroutines that write
  Singles,           \* the events given to WriteEvent
  Batches,           \* the batches (sequences of events) given to WriteEvents
  PageSize, MaxSegmentSize,
  MaxRecord,         \* the largest record length a reader accepts
  FragPercent,       \* CompactionConfig.FragmentationThreshold, in percent
  MaxSegments,       \* bound: segments created
  MaxDeletes,        \* bound: flag updates
  MaxFlushes,        \* bound: Flush calls
  MaxStops,          \* bound: crashes and closes
  MaxCompactions,    \* bound: compactions
  MaxTurns           \* bound: stops and compactions together

None == "none"

ASSUME StorageConstants ==
  /\ Payload \in [Events -> Nat] /\ Malformed \subseteq Events
  /\ Singles \subseteq Events /\ Batches \subseteq Seq(Events)
  /\ PageSize \in Nat /\ MaxSegmentSize \in Nat /\ MaxRecord \in Nat
  /\ PageSize > 148 /\ MaxSegmentSize > PageSize
  /\ MaxSegments \in Nat /\ None \notin Events

(* The log is written first and refuses an entry above the same limit.      *)
ASSUME RecordsWithinLimit == \A e \in Events : 150 + Payload[e] <= MaxRecord

VARIABLES
  file,        \* segment files as the process sees them
  disk,        \* segment files as of their last sync
  segs,        \* the FileSegment objects; the manager lists those that are open
  current,     \* FileSegmentManager.currentSegID
  up,          \* is the store open
  call,        \* the write each goroutine is in
  comp,        \* the compaction in progress
  written,     \* events given to a write so far
  acked,       \* history: event and location of every write that returned
  gone,        \* history: locations whose deletion returned
  kept,        \* history: what of acked and gone a Flush has covered
  stops, flushes, compactions, deletes

vars == <<file, disk, segs, current, up, call, comp, written, acked, gone, kept,
          stops, flushes, compactions, deletes>>

CeilDiv(a, b) == (a + b - 1) \div b
Larger(a, b) == IF a >= b THEN a ELSE b

-----------------------------------------------------------------------------
(* The layout of a record *)

Base == 4 + 1 + 32 + 32 + 4 + 2 + 4 + 4 + 64 + 1

(* A record that would fill a page gets two more bytes and the continued flag. *)
Serialize(e) ==
  LET plain == Base + Payload[e] IN
  IF plain >= PageSize
  THEN [ev |-> e, len |-> plain + 2, flags |-> {"continued"},
        cc |-> CeilDiv(plain + 2 - 7 - (PageSize - 7), PageSize - 6)]
  ELSE [ev |-> e, len |-> plain, flags |-> {}, cc |-> 0]

(* The tag count includes the empty tags that serializeTags skips, so        *)
(* deserializeTags looks for more tags than there are.  Nothing in a record   *)
(* tells a wrong continuation page: there is no checksum.                     *)
Deserialize(r) == IF r.ev \in Malformed THEN None ELSE r.ev

ZeroPage == [t |-> "zero"]
HeadPage(next, count) == [t |-> "head", next |-> next, count |-> count]
FirstPage(r) == [t |-> "first", ev |-> r.ev, len |-> r.len, cc |-> r.cc, flags |-> r.flags]
ContPage(r, i) ==
  LET left == r.len - PageSize - (i - 1) * (PageSize - 6) IN
  [t |-> "cont", ev |-> r.ev, part |-> i,
   chunk |-> IF PageSize - 6 > left THEN left ELSE PageSize - 6]

-----------------------------------------------------------------------------
(* A file and its segment *)

NoFile == [page |-> << >>, size |-> 0]
Pages(f) == Len(f.page)
PageAt(f, p) == f.page[p + 1]
HasPage(f, p) == p < Pages(f)

(* WriteAt: the file grows, with zeros in between, up to the byte `end`. *)
WriteAt(f, p, pages, end) ==
  LET n == Larger(Pages(f), p + Len(pages)) IN
  [page |-> [i \in 1..n |-> IF i > p /\ i <= p + Len(pages) THEN pages[i - p]
                            ELSE IF i <= Pages(f) THEN f.page[i] ELSE ZeroPage],
   size |-> Larger(f.size, end)]

persistHeaderLocked(f, s) ==
  WriteAt(f, 0, <<HeadPage(s.next, s.count)>>, PageSize)

initHeaderPage == [page |-> <<HeadPage(1, 0)>>, size |-> PageSize]

(* NewFileSegment: an empty file gets a header, another one gives its next    *)
(* offset and its count; the size is the size of the file.                    *)
OpenedFile(f) == IF f.size = 0 THEN initHeaderPage ELSE f
OpenedSegment(f) ==
  IF f.size = 0 THEN [open |-> TRUE, cur |-> PageSize, next |-> 1, count |-> 0]
  ELSE [open |-> TRUE, cur |-> f.size, next |-> PageAt(f, 0).next,
        count |-> PageAt(f, 0).count]

IsFull(s) == s.cur >= MaxSegmentSize

estimatedSize(r) == r.len + (IF "continued" \in r.flags THEN r.cc * 6 ELSE 0)
Fits(s, r) == s.cur + estimatedSize(r) <= MaxSegmentSize

(* writeSinglePageRecord, writeMultiPageRecord: the pages, the offsets and   *)
(* then the header.                                                          *)
WriteRecordPages(f, s, r) ==
  LET single == "continued" \notin r.flags
      used   == 1 + r.cc
      pages  == <<FirstPage(r)>> \o [i \in 1..r.cc |-> ContPage(r, i)]
      end    == IF single THEN s.next * PageSize + r.len ELSE (s.next + used) * PageSize
      next   == s.next + used
      seg    == [open |-> TRUE, cur |-> next * PageSize, next |-> next, count |-> s.count + 1]
  IN [file |-> persistHeaderLocked(WriteAt(f, s.next, pages, end), seg), seg |-> seg]

-----------------------------------------------------------------------------
(* Reading a record *)

(* The bytes in the first n continuation pages after page p. *)
ChunksUpTo(f, p, n) ==
  LET sum[i \in 0..n] == IF i = 0 THEN 0 ELSE sum[i - 1] + PageAt(f, p + i).chunk
  IN  sum[n]

(* The continuation pages are there and carry the magic, and no chunk runs   *)
(* past the record.                                                          *)
Continued(f, p, first) ==
  \A i \in 1..first.cc :
    /\ HasPage(f, p + i) /\ (p + i + 1) * PageSize <= f.size
    /\ PageAt(f, p + i).t = "cont"
    /\ PageSize + ChunksUpTo(f, p, i) <= first.len

(* Do the pages hold the parts of this one record. *)
Whole(f, p, first) ==
  \A i \in 1..first.cc : /\ PageAt(f, p + i).ev = first.ev
                         /\ PageAt(f, p + i).part = i

RecordAt(f, p) ==
  LET first == PageAt(f, p)
  IN [ev |-> first.ev, flags |-> first.flags, cc |-> first.cc,
      whole |-> Whole(f, p, first)]

(* A page of zeros is a record of length 0; the magic of a continuation page *)
(* is a length above the limit.                                              *)
StartsRecord(f, p) == PageAt(f, p).t = "first" /\ PageAt(f, p).len <= MaxRecord

(* FileSegment.Read: the record, or NoRecord for an error. *)
NoRecord == [ev |-> None, flags |-> {}, cc |-> 0, whole |-> FALSE]

Read(f, s, p) ==
  IF /\ p * PageSize < s.cur /\ p * PageSize + 7 <= s.cur
     /\ HasPage(f, p) /\ StartsRecord(f, p)
     /\ p * PageSize + PageAt(f, p).len <= s.cur
     /\ "continued" \in PageAt(f, p).flags => Continued(f, p, PageAt(f, p))
  THEN RecordAt(f, p)
  ELSE NoRecord

(* Scanner.Next at page p of a segment that had `size` bytes when the scan   *)
(* began.                                                                    *)
ScanNext(f, size, p) ==
  IF p * PageSize >= size \/ ~HasPage(f, p) THEN [at |-> "eof"]
  ELSE LET first == PageAt(f, p) IN
       IF \/ ~StartsRecord(f, p)
          \/ p * PageSize + first.len > size
          \/ /\ "continued" \in first.flags
             /\ ~ /\ Continued(f, p, first)
                  /\ PageSize + ChunksUpTo(f, p, first.cc) = first.len
       THEN [at |-> "error"]
       ELSE [at |-> "record", rec |-> RecordAt(f, p), loc |-> p, next |-> p + 1 + first.cc]

(* The records a scan reaches from page p, up to the end or the first error. *)
ScanFrom(f, size, p) ==
  LET from[q \in Nat] ==
        LET n == ScanNext(f, size, q) IN
        IF n.at = "record" THEN <<n>> \o from[n.next] ELSE <<n>>
  IN  from[p]
ScanAll(f, s) == ScanFrom(f, s.cur, 1)

Dead(r) == r.flags \cap {"deleted", "replaced"} # {}

(* What the recovery scan notes at page p: a live record it can parse. *)
Noted(n, p) ==
  IF Dead(n.rec) \/ Deserialize(n.rec) = None THEN {} ELSE {[ev |-> n.rec.ev, page |-> p]}

(* rebuildEventIDMap over one segment: an error is skipped to the next page. *)
RebuildFrom_Stops(f, size) ==
  [q \in Nat |-> UNION {Noted(n, n.loc) :
                  n \in {m \in Range(ScanFrom(f, size, q)) : m.at = "record"}}]

RebuildFrom(f, size) ==
  LET from[q \in Nat] ==
        LET n == ScanNext(f, size, q) IN
        IF n.at = "eof" THEN {}
        ELSE IF n.at = "error" THEN from[q + 1]
        ELSE Noted(n, q) \cup from[n.next]
  IN  from

Loc(s, p) == [seg |-> s, page |-> p]
ListSegments == {s \in DOMAIN segs : segs[s].open}

(* The locations the entry of event e may have, none if there is no entry:    *)
(* later occurrences overwrite it, so in one segment the last one stays, and  *)
(* the segments are scanned in the order a Go map yields them.                *)
rebuildEventIDMap(e) ==
  LET pages(s) == {r.page : r \in {x \in RebuildFrom(file[s], segs[s].cur)[1] : x.ev = e}}
  IN  {Loc(s, Max(pages(s))) : s \in {x \in ListSegments : pages(x) # {}}}

-----------------------------------------------------------------------------
(* Writing: WriteRecord of the store, and the append loop of a batch *)

Idle == [pc |-> "idle", op |-> None, evs |-> << >>, todo |-> << >>, seg |-> 0, locs |-> << >>]

(* NewFileSegment on the path of segment id, as RotateSegment calls it. *)
CreateSegment(id) ==
  /\ file' = [s \in DOMAIN file \cup {id} |-> IF s = id THEN initHeaderPage ELSE file[s]]
  /\ disk' = [s \in DOMAIN disk \cup {id} |-> IF s = id THEN NoFile ELSE disk[s]]
  /\ segs' = [s \in DOMAIN segs \cup {id} |-> IF s = id THEN OpenedSegment(NoFile) ELSE segs[s]]
  /\ current' = id

(* FileSegment.AppendBatch: as many records as fit, in order. *)
AppendOne(a, id, r) ==
  LET w == WriteRecordPages(a.file, a.seg, r)
  IN  [file |-> w.file, seg |-> w.seg, locs |-> Append(a.locs, Loc(id, a.seg.next))]

(* The file, the segment and the locations after n of the records. *)
Appending(f, s, id, recs) ==
  LET after[n \in 0..Len(recs)] ==
        IF n = 0 THEN [file |-> f, seg |-> s, locs |-> << >>]
        ELSE AppendOne(after[n - 1], id, recs[n])
  IN  after

AppendBatch(f, s, id, recs) ==
  LET after == Appending(f, s, id, recs)
      fit == {n \in 0..Len(recs) : \A i \in 1..n : Fits(after[i - 1].seg, recs[i])}
  IN  [done |-> after[Max(fit)], full |-> Max(fit) < Len(recs)]

(* writeEventsBatch gives up on a record that no segment can hold. *)
TooLarge_Length(r) == r.len > MaxSegmentSize

TooLarge(r) ==
  PageSize * (2 + (IF "continued" \in r.flags THEN r.cc ELSE 0)) > MaxSegmentSize

Begin(w, op, evs) ==
  /\ up /\ call[w].pc = "idle"
  /\ written' = written \cup Range(evs)
  /\ call' = [call EXCEPT ![w] = [Idle EXCEPT !.pc = "current", !.op = op, !.evs = evs,
                                    !.todo = [i \in 1..Len(evs) |-> Serialize(evs[i])]]]
  /\ UNCHANGED <<file, disk, segs, current, up, comp, acked, gone, kept,
                 stops, flushes, compactions, deletes>>

WriteEvent(w) == \E e \in Singles \ written : Begin(w, "record", <<e>>)
WriteEvents(w) ==
  \E b \in Batches : Range(b) \cap written = {} /\ Begin(w, "batch", b)

(* CurrentSegment, and IsFull of what it returned. *)
CurrentSegment(w) ==
  /\ call[w].pc = "current"
  /\ call' = [call EXCEPT ![w].pc = "check", ![w].seg = current]
  /\ UNCHANGED <<file, disk, segs, current, up, comp, written, acked, gone, kept,
                 stops, flushes, compactions, deletes>>

CheckFull(w) ==
  /\ call[w].pc = "check"
  /\ call' = [call EXCEPT ![w].pc =
        IF IsFull(segs[call[w].seg]) THEN "rotate" ELSE "append"]
  /\ UNCHANGED <<file, disk, segs, current, up, comp, written, acked, gone, kept,
                 stops, flushes, compactions, deletes>>

(* RotateSegment: the next number after the current one, whoever made that   *)
(* current.  After "segment full" the batch loop starts over.                *)
RotateSegment(w) ==
  /\ call[w].pc \in {"rotate", "rotateFull"} /\ current < MaxSegments
  /\ CreateSegment(current + 1)
  /\ call' = [call EXCEPT ![w].pc = IF @ = "rotate" THEN "append" ELSE "current",
                           ![w].seg = current + 1]
  /\ UNCHANGED <<up, comp, written, acked, gone, kept, stops, flushes, compactions, deletes>>

Return(w, locs) ==
  /\ call' = [call EXCEPT ![w] = Idle]
  /\ acked' = acked \cup {[ev |-> call[w].evs[i], loc |-> locs[i]] : i \in 1..Len(locs)}

AppendRecords(w) ==
  LET c == call[w]
      r == AppendBatch(file[c.seg], segs[c.seg], c.seg, c.todo)
      n == Len(r.done.locs)
  IN /\ c.pc = "append" /\ segs[c.seg].open
     /\ file' = [file EXCEPT ![c.seg] = r.done.file]
     /\ segs' = [segs EXCEPT ![c.seg] = r.done.seg]
     /\ \/ /\ ~r.full
           /\ Return(w, c.locs \o r.done.locs)
        \/ /\ r.full /\ (c.op = "record" \/ (n = 0 /\ TooLarge(Head(c.todo))))
           /\ Return(w, << >>)
        \/ /\ r.full /\ c.op = "batch" /\ ~(n = 0 /\ TooLarge(Head(c.todo)))
           /\ call' = [call EXCEPT ![w].pc = IF n > 0 THEN "current" ELSE "rotateFull",
                                    ![w].todo = SubSeq(@, n + 1, Len(@)),
                                    ![w].locs = @ \o r.done.locs]
           /\ UNCHANGED acked
     /\ UNCHANGED <<disk, current, up, comp, written, gone, kept, stops, flushes,
                    compactions, deletes>>

(* The segment was deleted, and its file closed, since it was looked up: it  *)
(* may still answer that it is full, and no write to it succeeds.            *)
AppendClosed(w) ==
  LET c == call[w] IN
  /\ c.pc = "append" /\ ~segs[c.seg].open
  /\ IF c.op = "batch" /\ ~Fits(segs[c.seg], Head(c.todo)) /\ ~TooLarge(Head(c.todo))
     THEN call' = [call EXCEPT ![w].pc = "rotateFull"] /\ UNCHANGED acked
     ELSE Return(w, << >>)
  /\ UNCHANGED <<file, disk, segs, current, up, comp, written, gone, kept,
                 stops, flushes, compactions, deletes>>

(* UpdateEventFlags: the flags are added to those in the record. *)
UpdateRecordFlags_Overwrite(f, p, flags) ==
  [f EXCEPT !.page[p + 1].flags = flags]

UpdateRecordFlags(f, p, flags) ==
  [f EXCEPT !.page[p + 1].flags = @ \cup flags]

UpdateEventFlags ==
  \E a \in acked :
    LET l == a.loc IN
    /\ up /\ deletes < MaxDeletes /\ l \notin gone /\ l.seg \in ListSegments
    /\ l.page * PageSize + 7 <= segs[l.seg].cur
    /\ file' = [file EXCEPT ![l.seg] = UpdateRecordFlags(file[l.seg], l.page, {"deleted"})]
    /\ gone' = gone \cup {l}
    /\ deletes' = deletes + 1
    /\ UNCHANGED <<disk, segs, current, up, call, comp, written, acked, kept,
                   stops, flushes, compactions>>

-----------------------------------------------------------------------------
(* Flush, Close, a crash, and Open *)

Flush ==
  /\ up /\ flushes < MaxFlushes
  /\ disk' = file
  /\ kept' = [acked |-> acked, gone |-> gone]
  /\ flushes' = flushes + 1
  /\ UNCHANGED <<file, segs, current, up, call, comp, written, acked, gone,
                 stops, compactions, deletes>>

NoCompaction == [pc |-> "idle", todo |-> {}, from |-> {}, new |-> 0, seg |-> 0,
                 page |-> 0, size |-> 0]

Down ==
  /\ segs' = [s \in {} |-> 0] /\ current' = 0 /\ up' = FALSE
  /\ stops' = stops + 1

(* Close waits for no one: it is called when no write is in progress. *)
Close ==
  /\ up /\ stops < MaxStops /\ stops + compactions < MaxTurns /\ comp.pc = "idle"
  /\ \A w \in Writers : call[w].pc = "idle"
  /\ disk' = file /\ kept' = [acked |-> acked, gone |-> gone]
  /\ Down
  /\ UNCHANGED <<file, call, comp, written, acked, gone, flushes, compactions, deletes>>

Dirty(s) == {p \in 0..(Pages(file[s]) - 1) :
               ~HasPage(disk[s], p) \/ PageAt(disk[s], p) # PageAt(file[s], p)}

(* The end of page p in bytes: a single-page record does not fill its page. *)
EndOf(pg, p) == IF pg.t = "first" /\ "continued" \notin pg.flags
                THEN p * PageSize + pg.len ELSE (p + 1) * PageSize

(* What is left of a file when of its unsynced pages only those in keep      *)
(* reached the disk.                                                         *)
Survivor(s, keep) ==
  LET last == Max(keep \cup {Pages(disk[s]) - 1})
      page(p) == IF p \in keep THEN PageAt(file[s], p)
                 ELSE IF HasPage(disk[s], p) THEN PageAt(disk[s], p) ELSE ZeroPage
  IN [page |-> [i \in 1..(last + 1) |-> page(i - 1)],
      size |-> IF last < 0 THEN 0 ELSE EndOf(page(last), last)]

(* Any of the unsynced pages may be lost, the header of a new file too. *)
Crash ==
  /\ up /\ stops < MaxStops /\ stops + compactions < MaxTurns
  /\ \E keep \in SUBSET UNION {{s} \X Dirty(s) : s \in DOMAIN file} :
       /\ file' = [s \in DOMAIN file |-> Survivor(s, {k[2] : k \in {x \in keep : x[1] = s}})]
       /\ disk' = file'
  /\ acked' = {a \in kept.acked : a.loc \notin gone \ kept.gone}
  /\ gone' = kept.gone
  /\ kept' = [acked |-> acked', gone |-> gone']
  /\ call' = [w \in Writers |-> Idle] /\ comp' = NoCompaction
  /\ Down
  /\ UNCHANGED <<written, flushes, compactions, deletes>>

(* FileSegmentManager.Open; it fails if a file has bytes but no header. *)
Open ==
  /\ ~up
  /\ \A s \in DOMAIN file : file[s].size > 0 => PageAt(file[s], 0).t = "head"
  /\ LET ids == IF DOMAIN file = {} THEN {0} ELSE DOMAIN file
         old(s) == IF s \in DOMAIN file THEN file[s] ELSE NoFile
     IN /\ file' = [s \in ids |-> OpenedFile(old(s))]
        /\ disk' = [s \in ids |-> IF s \in DOMAIN disk THEN disk[s] ELSE NoFile]
        /\ segs' = [s \in ids |-> OpenedSegment(old(s))]
        /\ current' = Max(ids)
  /\ up' = TRUE
  /\ UNCHANGED <<call, comp, written, acked, gone, kept, stops, flushes, compactions, deletes>>

-----------------------------------------------------------------------------
(* RunCompactionOnce: SelectCompactionCandidates and DoCompact *)

(* AnalyzeSegments over one segment: a scan error does not advance the       *)
(* scanner, so the count ends at the first one.                              *)
Scanned(s) == SelectSeq(ScanAll(file[s], segs[s]), LAMBDA n : n.at = "record")
Fragmented(s) ==
  LET recs == Scanned(s)
      dead == Len(SelectSeq(recs, LAMBDA n : Dead(n.rec)))
  IN Len(recs) > 0 /\ dead * 100 >= FragPercent * Len(recs)

StartCompaction ==
  LET cands == {s \in ListSegments : Fragmented(s)} IN
  /\ up /\ comp.pc = "idle" /\ compactions < MaxCompactions
  /\ stops + compactions < MaxTurns /\ cands # {}
  /\ current < MaxSegments
  /\ CreateSegment(current + 1)
  /\ comp' = [NoCompaction EXCEPT !.pc = "next", !.todo = cands, !.from = cands,
                                  !.new = current + 1]
  /\ compactions' = compactions + 1
  /\ UNCHANGED <<up, call, written, acked, gone, kept, stops, flushes, deletes>>

(* NewScanner takes the size of the segment. *)
NextSegment ==
  /\ comp.pc = "next"
  /\ IF comp.todo = {} THEN comp' = [comp EXCEPT !.pc = "delete"]
     ELSE \E s \in comp.todo :
            comp' = [comp EXCEPT !.pc = "copy", !.todo = @ \ {s}, !.seg = s,
                                 !.page = 1, !.size = segs[s].cur]
  /\ UNCHANGED <<file, disk, segs, current, up, call, written, acked, gone, kept,
                 stops, flushes, compactions, deletes>>

(* One turn of the copy loop.  After a scan error the loop goes on without   *)
(* moving.  A record that cannot be read, or does not fit, is dropped.       *)
CopyRecord ==
  LET n == ScanNext(file[comp.seg], comp.size, comp.page)
      t == comp.new
  IN /\ comp.pc = "copy"
     /\ CASE n.at = "eof"   -> comp' = [comp EXCEPT !.pc = "next"] /\ UNCHANGED <<file, segs>>
          [] n.at = "error" -> UNCHANGED <<comp, file, segs>>
          [] OTHER ->
               /\ comp' = [comp EXCEPT !.page = n.next]
               /\ IF Dead(n.rec) \/ Deserialize(n.rec) = None
                     \/ ~Fits(segs[t], Serialize(n.rec.ev))
                  THEN UNCHANGED <<file, segs>>
                  ELSE LET w == WriteRecordPages(file[t], segs[t], Serialize(n.rec.ev))
                       IN /\ file' = [file EXCEPT ![t] = w.file]
                          /\ segs' = [segs EXCEPT ![t] = w.seg]
     /\ UNCHANGED <<disk, current, up, call, written, acked, gone, kept,
                    stops, flushes, compactions, deletes>>

(* DeleteSegment of one source: close, remove the file, forget it. *)
DeleteSegment ==
  /\ comp.pc = "delete"
  /\ IF comp.from = {} THEN comp' = NoCompaction /\ UNCHANGED <<file, disk, segs>>
     ELSE \E s \in comp.from :
            /\ comp' = [comp EXCEPT !.from = @ \ {s}]
            /\ segs' = [segs EXCEPT ![s].open = FALSE]
            /\ file' = [x \in DOMAIN file \ {s} |-> file[x]]
            /\ disk' = [x \in DOMAIN disk \ {s} |-> disk[x]]
  /\ UNCHANGED <<current, up, call, written, acked, gone, kept,
                 stops, flushes, compactions, deletes>>

-----------------------------------------------------------------------------

Init ==
  /\ file = [s \in {0} |-> initHeaderPage] /\ disk = [s \in {0} |-> NoFile]
  /\ segs = [s \in {0} |-> OpenedSegment(NoFile)] /\ current = 0 /\ up = TRUE
  /\ call = [w \in Writers |-> Idle] /\ comp = NoCompaction
  /\ written = {} /\ acked = {} /\ gone = {} /\ kept = [acked |-> {}, gone |-> {}]
  /\ stops = 0 /\ flushes = 0 /\ compactions = 0 /\ deletes = 0

Step(w) ==
  CurrentSegment(w) \/ CheckFull(w) \/ RotateSegment(w) \/ AppendRecords(w) \/ AppendClosed(w)
Compact == NextSegment \/ CopyRecord \/ DeleteSegment

Next ==
  \/ \E w \in Writers : WriteEvent(w) \/ WriteEvents(w) \/ Step(w)
  \/ UpdateEventFlags \/ Flush \/ Close \/ Crash \/ Open
  \/ StartCompaction \/ Compact

Spec == Init /\ [][Next]_vars

-----------------------------------------------------------------------------
(* Properties *)

(* FileSegment.Append returns a location; as long as the segment exists,     *)
(* Read there returns that event whole, with the deleted flag if             *)
(* UpdateEventFlags returned, and multi-page records keep their continued    *)
(* flag, whatever other writers and the compactor do.  After a crash it      *)
(* holds for the writes a Flush has covered, whatever unsynced pages were    *)
(* lost and whatever was written over the remains.                           *)
AckedReadable ==
  up => \A a \in acked :
    a.loc.seg \in ListSegments =>
      LET r == Read(file[a.loc.seg], segs[a.loc.seg], a.loc.page) IN
      /\ r.ev = a.ev /\ r.whole
      /\ a.loc \in gone => "deleted" \in r.flags
      /\ ("continued" \in r.flags) = (Serialize(a.ev).cc > 0)

(* The scan of the recovery manager skips a page it cannot read, and keeps   *)
(* one location per event.  Every acknowledged event that has a record not   *)
(* deleted is in the map, whatever garbage a crash left between the records; *)
(* and whichever of its records the map ends up with (the compactor makes    *)
(* second ones), that record is not a deleted one and reads back as this     *)
(* event.  (That its later pages are its own is promised for acknowledged    *)
(* records, AckedReadable, not for a copy: pages carry no checksum.)         *)
RecoveryFinds ==
  up => \A a \in acked :
    a.loc.seg \in ListSegments /\ a.ev \notin Malformed =>
      LET entry == rebuildEventIDMap(a.ev) IN
      /\ a.loc \notin gone => entry # {}
      /\ \A l \in entry : /\ l \notin gone
                          /\ Read(file[l.seg], segs[l.seg], l.page).ev = a.ev

(* The rotate-and-retry loop of a batch does not run away, whatever other     *)
(* writers put into the segment it has just made: there is at most one        *)
(* segment per event written, one per compaction, and one more for each       *)
(* writer that found the same segment full.                                   *)
RotationsBounded ==
  current <= Cardinality(written) + compactions + Cardinality(Writers) - 1
=============================================================================
