--------------------------- MODULE BusGenerations ---------------------------
(***************************************************************************)
(* The daily generations of a transcript Bus                               *)
(* (src/app/presentation/bus_generation.rs): one append-only journal of    *)
(* rows whose bytes live in a chain of files.  A manifest names the closed *)
(* segments and the active one, the file at the Bus path.  The first       *)
(* append of a new day closes the active file and puts an empty one in its *)
(* place; archive threads replace closed files by compressed copies;       *)
(* readers follow the chain without a lock.                                *)
(*                                                                         *)
(* Appenders of all processes exclude each other with an OS lease on a     *)
(* lock file, which the death of its holder releases.  Everything else     *)
(* (readers, staging of a compressed copy, deaths, failing writes, a power *)
(* loss, the local date) interleaves between two effects on the disk.      *)
(*                                                                         *)
(* A file is an inode number with its rows; a position in the stream       *)
(* counts rows where the code counts bytes.  The row Torn is what a write  *)
(* cut short leaves at the end of a file: bytes without a newline.         *)
(***************************************************************************)
EXTENDS Naturals, Sequences

CONSTANTS
    Procs,          \* the processes that append to this Bus
    MaxIno,         \* bound: inodes ever allocated
    MaxRows,        \* bound: rows ever written
    MaxDay,         \* bound: local dates are 1..MaxDay
    Reading,        \* whether a reader takes part
    DateMayReturn,  \* whether the local date may move back (travel, a reset)
    MaxFaults       \* bound: deaths, failing calls and power losses

ASSUME BusAssumption ==
    /\ MaxIno \in Nat \ {0}
    /\ MaxRows \in Nat
    /\ MaxDay \in Nat \ {0}
    /\ Reading \in BOOLEAN
    /\ DateMayReturn \in BOOLEAN
    /\ MaxFaults \in Nat
    /\ 0 \notin Procs

VARIABLES
    content,    \* the rows of each inode
    synced,     \* how many of them have reached the disk
    named,      \* the inodes that have a name under events/
    top,        \* the last inode allocated
    bus,        \* the inode at the Bus path
    manifest,   \* the generation manifest on disk
    today,      \* the local date, as an appender last read it
    fd,         \* the inode each process has open for appending, 0 for none
    holder,     \* the process that holds the lease, 0 for none
    phase,      \* where the holder is
    job,        \* what the holder keeps in memory
    arch,       \* the archive queue and thread of each process
    rd,         \* a reader
    log,        \* history: the rows of the stream in the order of the writes
    receipts,   \* history: durable append receipts, a position and its row
    rows,       \* rows written so far
    faults      \* faults so far

vars == <<content, synced, named, top, bus, manifest, today, fd, holder,
          phase, job, arch, rd, log, receipts, rows, faults>>

disk    == <<content, synced, named, top, bus, manifest>>
history == <<log, receipts, rows>>

-----------------------------------------------------------------------------
Torn    == 0
Undated == 0
NoIno   == 0
NoProc  == 0

Inodes == 1..MaxIno
Days   == 1..MaxDay

\* A segment of the chain.  Its id is the inode it was created with; ino is
\* the file that holds its rows now; old is a superseded copy still named.
Segment == [id : Nat, ino : Nat, start : Nat, length : Nat, day : 0..MaxDay,
            compressed : BOOLEAN, settled : BOOLEAN, old : Nat]

Blank == [id |-> 0, ino |-> 0, start |-> 0, length |-> 0, day |-> Undated,
          compressed |-> FALSE, settled |-> FALSE, old |-> NoIno]

\* managed is whether the manifest exists, swap whether it has a pending swap
\* of the active file (closed, next).  The length of an active segment is
\* always read from its file; the checkpoint on disk is left out (0).
Manifest == [managed : BOOLEAN, segments : Seq(Segment), active : Segment,
             swap : BOOLEAN, closed : Segment, next : Segment]

Unmanaged == [managed |-> FALSE, segments |-> <<>>, active |-> Blank,
              swap |-> FALSE, closed |-> Blank, next |-> Blank]

new_segment(ino, start, day) ==
    [Blank EXCEPT !.id = ino, !.ino = ino, !.start = start, !.day = day]

-----------------------------------------------------------------------------
(* resolved: a pending swap whose rename happened is complete.             *)

\* Mutant: the file at the Bus path is not looked at.
SwappedAssumed(m) == m.swap

Swapped(m) == m.swap /\ bus = m.next.ino

Completed(m) ==
    [m EXCEPT !.segments = Append(m.segments, m.closed), !.active = m.next,
              !.swap = FALSE, !.closed = Blank, !.next = Blank]

Effective(m) == IF Swapped(m) THEN Completed(m) ELSE m

End(s) == s.start + s.length

\* The chain check: contiguous starts, and every closed file still there
\* under its name with the recorded length.
ChainChecks(m) ==
    LET s == m.segments IN
    /\ \A k \in 1..Len(s) :
         /\ s[k].start = IF k = 1 THEN 0 ELSE End(s[k - 1])
         /\ s[k].ino \in named
         /\ Len(content[s[k].ino]) = s[k].length
    /\ m.active.start = IF s = <<>> THEN 0 ELSE End(s[Len(s)])
    /\ m.active.ino = bus

Resolves(m) == ChainChecks(Effective(m))

\* The position at which the file at the Bus path begins.
ActiveStart == Effective(manifest).active.start

-----------------------------------------------------------------------------
(* The memory of the lease holder, of the archive threads, of the reader.  *)

NoJob == [m |-> Unmanaged, done |-> 0, durable |-> FALSE, pos |-> 0]

Idle == [queue |-> {}, batch |-> {}, failed |-> {}, inspected |-> FALSE,
         backoff |-> FALSE, running |-> FALSE, at |-> "loop", id |-> 0,
         ino |-> NoIno, stage |-> NoIno]

NoReader == [at |-> "closed", m |-> Unmanaged, segs |-> <<>>, length |-> 0,
             want |-> Blank]

Init ==
    /\ content \in [Inodes -> {<<>>, <<1>>}]
    /\ \A i \in Inodes \ {1} : content[i] = <<>>
    /\ synced = [i \in Inodes |-> Len(content[i])]
    /\ named = {}
    /\ top = 1
    /\ bus = 1
    /\ manifest = Unmanaged
    /\ today = 1
    /\ fd = [p \in Procs |-> NoIno]
    /\ holder = NoProc
    /\ phase = "free"
    /\ job = NoJob
    /\ arch = [p \in Procs |-> Idle]
    /\ rd = NoReader
    /\ log = content[1]
    /\ receipts = {}
    /\ rows = Len(content[1])
    /\ faults = 0

Release == holder' = NoProc /\ phase' = "free" /\ job' = NoJob

Fault == faults < MaxFaults /\ faults' = faults + 1

-----------------------------------------------------------------------------
(* append and append_durable, by process p under the lease.                *)

\* The shared descriptor's mutex, the OS lease and the local date, which may
\* have passed midnight, or moved with the clock or the time zone.
Acquire(p) ==
    /\ holder = NoProc
    /\ rows < MaxRows /\ top < MaxIno
    /\ holder' = p
    /\ phase' = "prepare"
    /\ today' \in Days
    /\ DateMayReturn \/ today' >= today
    /\ \E durable \in BOOLEAN : job' = [NoJob EXCEPT !.durable = durable]
    /\ UNCHANGED <<disk, fd, arch, rd, history, faults>>

\* What prepare_append finds or writes: a resolved manifest, or a first one.
\* Rows that predate the manifest have no date.
Prepared ==
    IF manifest.managed
    THEN Effective(manifest)
    ELSE [Unmanaged EXCEPT
            !.managed = TRUE,
            !.active = new_segment(bus, 0, IF content[bus] = <<>>
                                           THEN today ELSE Undated)]

TailIsTorn(i) == content[i] # <<>> /\ content[i][Len(content[i])] = Torn

\* prepare_append up to the decision to roll over: resolve and persist the
\* manifest, refresh the descriptor, refuse to close a file with a torn tail.
\* A chain that does not resolve refuses the append too: AlwaysResolves says
\* that no chain does.  (Device renumbering, the one recovery the code tries
\* here, needs another device number.)
PrepareAppend(p) ==
    /\ holder = p /\ phase = "prepare"
    /\ manifest.managed => Resolves(manifest)
    /\ manifest' = Prepared
    /\ fd' = [fd EXCEPT ![p] = bus]
    /\ \/ /\ Prepared.active.day = today
          /\ phase' = "write"
          /\ job' = [job EXCEPT !.m = Prepared]
          /\ UNCHANGED holder
       \/ /\ Prepared.active.day # today /\ ~TailIsTorn(bus)
          /\ phase' = "roll"
          /\ job' = [job EXCEPT !.m = Prepared]
          /\ UNCHANGED holder
       \/ Prepared.active.day # today /\ TailIsTorn(bus) /\ Release
    /\ UNCHANGED <<content, synced, named, top, bus, today, arch, rd,
                   history, faults>>

\* Mutant: the final newline is not counted.
ClosedNowShort == [job.m.active EXCEPT
                     !.length = Len(content[job.m.active.ino]) - 1]

ClosedNow == [job.m.active EXCEPT !.length = Len(content[job.m.active.ino])]

\* Sync the file to close.  Without a pending swap create its empty
\* replacement and link the closed file under events/.
Stage(p) ==
    /\ holder = p /\ phase = "roll"
    /\ ~job.m.swap
    /\ top < MaxIno
    /\ top' = top + 1
    /\ synced' = [synced EXCEPT ![job.m.active.ino] =
                                  Len(content[job.m.active.ino])]
    /\ named' = named \cup {job.m.active.ino, top'}
    /\ job' = [job EXCEPT
                 !.m.swap = TRUE,
                 !.m.closed = ClosedNow,
                 !.m.next = new_segment(top', End(ClosedNow), today)]
    /\ phase' = "pend"
    /\ UNCHANGED <<content, bus, manifest, today, fd, holder, arch, rd,
                   history, faults>>

\* A pending swap is reused only while its pinned identity still matches.
PendingMatches ==
    /\ job.m.closed = ClosedNow
    /\ job.m.closed.ino \in named
    /\ job.m.next.ino \in named
    /\ content[job.m.next.ino] = <<>>
    /\ job.m.next.start = End(ClosedNow)

StagePending(p) ==
    /\ holder = p /\ phase = "roll"
    /\ job.m.swap
    /\ synced' = [synced EXCEPT ![job.m.active.ino] =
                                  Len(content[job.m.active.ino])]
    /\ \/ PendingMatches /\ phase' = "rename" /\ UNCHANGED <<holder, job>>
       \/ ~PendingMatches /\ Release
    /\ UNCHANGED <<content, named, top, bus, manifest, today, fd, arch, rd, history, faults>>

\* Mutant: the active segment is dated today before it is replaced.
WritePendingDated(p) ==
    /\ holder = p /\ phase = "pend"
    /\ manifest' = [job.m EXCEPT !.active.day = today]
    /\ phase' = "rename"
    /\ UNCHANGED <<content, synced, named, top, bus, today, fd, holder, job,
                   arch, rd, history, faults>>

WritePending(p) ==
    /\ holder = p /\ phase = "pend"
    /\ manifest' = job.m
    /\ phase' = "rename"
    /\ UNCHANGED <<content, synced, named, top, bus, today, fd, holder, job,
                   arch, rd, history, faults>>

\* The replacement takes the Bus path.
RenameNext(p) ==
    /\ holder = p /\ phase = "rename"
    /\ bus' = job.m.next.ino
    /\ named' = named \ {job.m.next.ino}
    /\ phase' = "final"
    /\ UNCHANGED <<content, synced, top, manifest, today, fd, holder, job,
                   arch, rd, history, faults>>

\* The descriptor moves to the replacement and the manifest completes the
\* swap.  Only a dated segment is handed to the archive.
WriteFinal(p) ==
    /\ holder = p /\ phase = "final"
    /\ fd' = [fd EXCEPT ![p] = job.m.next.ino]
    /\ manifest' = Completed(job.m)
    /\ job' = [job EXCEPT
                 !.m = Completed(job.m),
                 !.done = IF job.m.closed.day = Undated
                          THEN 0 ELSE job.m.closed.id]
    /\ phase' = "write"
    /\ UNCHANGED <<content, synced, named, top, bus, today, holder, arch, rd, history, faults>>

\* Mutant: a write is repeated although it had succeeded.
AppendRowTwice(p, row) ==
    /\ content' = [content EXCEPT ![fd[p]] = content[fd[p]] \o <<row, row>>]
    /\ log' = log \o <<row, row>>
    /\ rows' = rows + 1

AppendRow(p, row) ==
    /\ content' = [content EXCEPT ![fd[p]] = Append(content[fd[p]], row)]
    /\ log' = Append(log, row)
    /\ rows' = rows + 1

(* schedule_archives: the closed segment joins the queue, the first call   *)
(* of a process adds the backlog, and a thread starts unless one runs, the *)
(* queue is empty or the back-off of a failure has not run out.            *)
NeedsArchive(s) == s.day # Undated /\ (~s.settled \/ s.old # NoIno)

Backlog(m) == {m.segments[k].id : k \in
                 {j \in 1..Len(m.segments) : NeedsArchive(m.segments[j])}}

schedule_archives(a, done) ==
    LET queue   == a.queue \cup (IF done = 0 THEN {} ELSE {done})
                     \cup (IF a.inspected THEN {}
                           ELSE Backlog(Effective(manifest)))
        waiting == [a EXCEPT !.queue = queue, !.inspected = TRUE]
        started == [waiting EXCEPT !.running = TRUE, !.backoff = FALSE]
    IN  IF a.running \/ queue = {} THEN {waiting}
        ELSE IF a.backoff THEN {waiting, started} ELSE {started}

Finish(p) ==
    /\ Release
    /\ \E a \in schedule_archives(arch[p], job.done) :
         arch' = [arch EXCEPT ![p] = a]

\* append: write_all and flush, then release the lease and schedule.
WriteRow(p) ==
    /\ holder = p /\ phase = "write"
    /\ AppendRow(p, rows + 1)
    /\ \/ ~job.durable /\ Finish(p)
       \/ /\ job.durable
          /\ phase' = "sync"
          /\ job' = [job EXCEPT !.pos = job.m.active.start
                                          + Len(content[fd[p]]) + 1]
          /\ UNCHANGED <<holder, arch>>
    /\ UNCHANGED <<synced, named, top, bus, manifest, today, fd, rd,
                   receipts, faults>>

\* Mutant: the receipt is given without the sync.
SyncRowFlushed(p) ==
    /\ holder = p /\ phase = "sync"
    /\ receipts' = receipts \cup {<<job.pos, rows>>}
    /\ Finish(p)
    /\ UNCHANGED <<disk, today, fd, rd, log, rows, faults>>

\* append_durable: the receipt names the position once the row is synced.
SyncRow(p) ==
    /\ holder = p /\ phase = "sync"
    /\ synced' = [synced EXCEPT ![fd[p]] = Len(content[fd[p]])]
    /\ receipts' = receipts \cup {<<job.pos, rows>>}
    /\ Finish(p)
    /\ UNCHANGED <<content, named, top, bus, manifest, today, fd, rd,
                   log, rows, faults>>

-----------------------------------------------------------------------------
(* A call of the holder fails and the operation returns the error.  The    *)
(* write of a manifest (a staged file, a rename, a directory sync) may     *)
(* have replaced the file or not.                                          *)

PrepareFails(p) ==
    /\ holder = p /\ phase = "prepare"
    /\ manifest.managed => Resolves(manifest)
    /\ manifest' \in {manifest, Prepared}
    /\ Fault /\ Release
    /\ UNCHANGED <<content, synced, named, top, bus, today, fd, arch, rd,
                   history>>

\* After the link: the replacement and the link stay behind.
PendingFails(p) ==
    /\ holder = p /\ phase = "pend"
    /\ manifest' \in {manifest, job.m}
    /\ Fault /\ Release
    /\ UNCHANGED <<content, synced, named, top, bus, today, fd, arch, rd,
                   history>>

\* The rename failed, or the directory sync after it did: the descriptor
\* still is the closed file's.
RenameFails(p) ==
    /\ holder = p /\ phase \in {"rename", "final"}
    /\ Fault /\ Release
    /\ UNCHANGED <<disk, today, fd, arch, rd, history>>

\* The closed segment is not handed to the archive.
FinalFails(p) ==
    /\ holder = p /\ phase = "final"
    /\ fd' = [fd EXCEPT ![p] = job.m.next.ino]
    /\ manifest' \in {manifest, Completed(job.m)}
    /\ Fault /\ Release
    /\ UNCHANGED <<content, synced, named, top, bus, today, arch, rd,
                   history>>

\* write_all stops inside the row.
WriteTears(p) ==
    /\ holder = p /\ phase = "write"
    /\ AppendRow(p, Torn)
    /\ Fault /\ Release
    /\ UNCHANGED <<synced, named, top, bus, manifest, today, fd, arch, rd, receipts>>

\* The row is written and no receipt is given.
SyncFails(p) ==
    /\ holder = p /\ phase = "sync"
    /\ Fault /\ Release
    /\ UNCHANGED <<disk, today, fd, arch, rd, history>>

\* Process p dies anywhere: its descriptor, its archive queue and thread go,
\* and the system releases its lease.  A write in progress may be torn.
Die(p) ==
    /\ Fault
    /\ fd' = [fd EXCEPT ![p] = NoIno]
    /\ arch' = [arch EXCEPT ![p] = Idle]
    /\ IF holder = p THEN Release ELSE UNCHANGED <<holder, phase, job>>
    /\ \/ UNCHANGED <<content, log, rows>>
       \/ holder = p /\ phase = "write" /\ AppendRow(p, Torn)
    /\ UNCHANGED <<synced, named, top, bus, manifest, today, rd,
                   receipts>>

\* The machine stops: every process dies, and a file keeps its synced rows
\* and any number of the later ones.
PowerLoss ==
    /\ Fault
    /\ \E i \in Inodes : \E n \in synced[i]..Len(content[i]) :
         /\ content' = [content EXCEPT ![i] = SubSeq(content[i], 1, n)]
         /\ synced' = [synced EXCEPT ![i] = n]
         /\ log' = IF i = bus THEN SubSeq(log, 1, ActiveStart + n) ELSE log
    /\ fd' = [p \in Procs |-> NoIno]
    /\ arch' = [p \in Procs |-> Idle]
    /\ rd' = NoReader
    /\ Release
    /\ UNCHANGED <<named, top, bus, manifest, today, receipts, rows>>

-----------------------------------------------------------------------------
(* The archive thread of process p: schedule_archives, compress_segment.   *)

\* Mutant: a failed id is forgotten.
SettledForgotten(a, ok) ==
    [a EXCEPT !.batch = a.batch \ {a.id},
              !.at = "loop", !.id = 0, !.ino = NoIno, !.stage = NoIno]

\* One more id of the batch is done, successfully or not.
Settled(a, ok) ==
    [a EXCEPT !.batch = a.batch \ {a.id},
              !.failed = IF ok THEN a.failed ELSE a.failed \cup {a.id},
              !.at = "loop", !.id = 0, !.ino = NoIno, !.stage = NoIno]

Entries(m, id) == {k \in 1..Len(m.segments) : m.segments[k].id = id}

\* Drain the queue, or stop: failed ids go back to the queue and wait.
ArchiveLoop(p) ==
    LET a == arch[p] IN
    /\ a.running /\ a.at = "loop" /\ a.batch = {}
    /\ arch' = [arch EXCEPT ![p] =
         IF a.failed # {}
         THEN [a EXCEPT !.queue = a.queue \cup a.failed, !.failed = {},
                        !.backoff = TRUE, !.running = FALSE]
         ELSE IF a.queue = {} THEN [a EXCEPT !.running = FALSE]
         ELSE [a EXCEPT !.batch = a.queue, !.queue = {}]]
    /\ UNCHANGED <<disk, today, fd, holder, phase, job, rd, history,
                   faults>>

\* compress_segment looks the segment up without the lease.
ArchiveLook(p, id) ==
    LET a  == arch[p]
        m  == Effective(manifest)
        ks == {k \in Entries(m, id) : m.segments[k].day # Undated}
    IN
    /\ a.running /\ a.at = "loop" /\ id \in a.batch
    /\ \/ /\ Resolves(manifest)
          /\ \E k \in ks :
               LET s == m.segments[k] IN
               arch' = [arch EXCEPT ![p] =
                 IF s.compressed THEN [a EXCEPT !.at = "retire", !.id = id]
                 ELSE IF s.settled THEN Settled([a EXCEPT !.id = id], TRUE)
                 ELSE [a EXCEPT !.at = "compress", !.id = id, !.ino = s.ino]]
       \/ /\ ~Resolves(manifest) \/ ks = {}
          /\ arch' = [arch EXCEPT ![p] = Settled([a EXCEPT !.id = id], FALSE)]
    /\ UNCHANGED <<disk, today, fd, holder, phase, job, rd, history,
                   faults>>

\* compress_prepared: ditto makes a synced copy of the same rows, or the
\* filesystem keeps the bytes as they are, or the command fails.
Compress(p) ==
    LET a == arch[p] IN
    /\ a.at = "compress"
    /\ \/ /\ top + 1 < MaxIno /\ a.ino \in named  \* one inode is left for Stage
          /\ top' = top + 1
          /\ content' = [content EXCEPT ![top'] = content[a.ino]]
          /\ synced' = [synced EXCEPT ![top'] = Len(content[a.ino])]
          /\ named' = named \cup {top'}
          /\ arch' = [arch EXCEPT ![p].at = "publish", ![p].stage = top']
          /\ UNCHANGED faults
       \/ /\ a.ino \in named
          /\ arch' = [arch EXCEPT ![p].at = "settle"]
          /\ UNCHANGED <<content, synced, named, top, faults>>
       \/ /\ a.ino \notin named
          /\ arch' = [arch EXCEPT ![p] = Settled(a, FALSE)]
          /\ UNCHANGED <<content, synced, named, top, faults>>
       \/ /\ Fault
          /\ arch' = [arch EXCEPT ![p] = Settled(a, FALSE)]
          /\ UNCHANGED <<content, synced, named, top>>
    /\ UNCHANGED <<bus, manifest, today, fd, holder, phase, job, rd,
                   history>>

\* The entry the thread may still change: same file, not yet replaced.
Replaceable(a) ==
    {k \in Entries(Effective(manifest), a.id) :
       LET s == Effective(manifest).segments[k]
       IN  s.ino = a.ino /\ ~s.compressed}

WithEntry(k, s) == [Effective(manifest) EXCEPT !.segments[k] = s]

\* Under the lease: the manifest points at the copy and keeps the original
\* as superseded, or records that the bytes stay as they are.
Publish(p) ==
    LET a == arch[p]
        m == Effective(manifest)
    IN
    /\ holder = NoProc
    /\ a.at \in {"publish", "settle"}
    /\ \/ /\ Resolves(manifest)
          /\ \E k \in Replaceable(a) :
               LET s   == m.segments[k]
                   new == IF a.at = "settle" THEN [s EXCEPT !.settled = TRUE]
                          ELSE [s EXCEPT !.ino = a.stage, !.settled = TRUE,
                                         !.compressed = TRUE, !.old = s.ino]
               IN  \/ /\ manifest' = WithEntry(k, new)
                      /\ arch' = [arch EXCEPT ![p] =
                           IF a.at = "settle" THEN Settled(a, TRUE)
                           ELSE [a EXCEPT !.at = "retire"]]
                      /\ UNCHANGED faults
                   \/ /\ manifest' \in {manifest, WithEntry(k, new)}
                      /\ Fault
                      /\ arch' = [arch EXCEPT ![p] = Settled(a, FALSE)]
       \/ /\ ~Resolves(manifest) \/ Replaceable(a) = {}
          /\ arch' = [arch EXCEPT ![p] = Settled(a, FALSE)]
          /\ UNCHANGED <<manifest, faults>>
    /\ UNCHANGED <<content, synced, named, top, bus, today, fd, holder, phase,
                   job, rd, history>>

Retirable(a) == {k \in Entries(Effective(manifest), a.id) :
                   Effective(manifest).segments[k].compressed}

\* retire_copy: take the lease and delete the superseded original ...
Retire(p) ==
    LET a == arch[p]
        m == Effective(manifest)
    IN
    /\ holder = NoProc
    /\ a.at = "retire"
    /\ \/ /\ Resolves(manifest)
          /\ \E k \in Retirable(a) :
               \/ /\ m.segments[k].old # NoIno
                  /\ named' = named \ {m.segments[k].old}
                  /\ holder' = p /\ phase' = "unlinked"
                  /\ UNCHANGED arch
               \/ /\ m.segments[k].old = NoIno
                  /\ arch' = [arch EXCEPT ![p] = Settled(a, TRUE)]
                  /\ UNCHANGED <<named, holder, phase>>
       \/ /\ ~Resolves(manifest) \/ Retirable(a) = {}
          /\ arch' = [arch EXCEPT ![p] = Settled(a, FALSE)]
          /\ UNCHANGED <<named, holder, phase>>
    /\ UNCHANGED <<content, synced, top, bus, manifest, today, fd, job, rd, history, faults>>

\* ... then forget it.
Forget(p) ==
    LET a == arch[p] IN
    /\ holder = p /\ phase = "unlinked"
    /\ \E k \in Retirable(a) :
         LET new == WithEntry(k, [Effective(manifest).segments[k]
                                    EXCEPT !.old = NoIno])
         IN  \/ /\ manifest' = new
                /\ arch' = [arch EXCEPT ![p] = Settled(a, TRUE)]
                /\ UNCHANGED faults
             \/ /\ manifest' \in {manifest, new}
                /\ Fault
                /\ arch' = [arch EXCEPT ![p] = Settled(a, FALSE)]
    /\ Release
    /\ UNCHANGED <<content, synced, named, top, bus, today, fd, rd,
                   history>>

-----------------------------------------------------------------------------
(* Reader, without the lease.                                              *)

\* Reader::open reads the manifest; without one the Bus file is the stream.
ReaderOpens ==
    /\ Reading
    /\ rd.at \in {"closed", "again"}
    /\ rd.at = "again" => holder = NoProc
    /\ rd' = IF manifest.managed
             THEN [rd EXCEPT !.at = IF rd.at = "closed" THEN "check"
                                    ELSE "recheck", !.m = manifest]
             ELSE [rd EXCEPT !.at = "open",
                     !.segs = <<[new_segment(bus, 0, Undated)
                                   EXCEPT !.length = Len(content[bus])]>>,
                     !.length = Len(content[bus])]
    /\ UNCHANGED <<disk, today, fd, holder, phase, job, arch, history,
                   faults>>

\* resolved: the identities are compared ...  A failing view waits for the
\* lease (recover_device_number), then looks again, once.
ReaderChecks ==
    /\ rd.at \in {"check", "recheck"}
    /\ rd' = IF Resolves(rd.m)
             THEN [rd EXCEPT !.at = "stat", !.m = Effective(rd.m)]
             ELSE IF rd.at = "check" /\ rd.segs = <<>>
                  THEN [NoReader EXCEPT !.at = "again"]
             ELSE NoReader
    /\ UNCHANGED <<disk, today, fd, holder, phase, job, arch, history,
                   faults>>

\* ... and only then the length of whatever file is at the Bus path is read.
\* A rebinding reader keeps its length and needs its segment in the new view.
ReaderStats ==
    /\ rd.at = "stat"
    /\ LET active == [rd.m.active EXCEPT !.length = Len(content[bus])]
           segs   == Append(rd.m.segments, active)
           same   == {k \in 1..Len(rd.m.segments) :
                        /\ rd.m.segments[k].id = rd.want.id
                        /\ rd.m.segments[k].start = rd.want.start
                        /\ rd.m.segments[k].length = rd.want.length
                        /\ rd.m.segments[k].ino \in named}
       IN  rd' = IF rd.segs = <<>>
                 THEN [rd EXCEPT !.at = "open", !.segs = segs,
                                 !.length = End(active), !.m = Unmanaged]
                 ELSE IF same = {} THEN NoReader
                 ELSE [rd EXCEPT !.at = "open", !.segs = segs,
                                 !.m = Unmanaged, !.want = Blank]
    /\ UNCHANGED <<disk, today, fd, holder, phase, job, arch, history,
                   faults>>

\* read at position q (0 is the first row): the file of the segment that
\* covers q is opened; the last segment is the one at the Bus path.
Covers(k, q) == rd.segs[k].start <= q /\ q < End(rd.segs[k])

FileOf(k) == IF k = Len(rd.segs) THEN bus ELSE rd.segs[k].ino

Missing(k) == k # Len(rd.segs) /\ rd.segs[k].ino \notin named

\* Mutant: the identity of the opened file is not compared.
GivesAnyFile(k) == ~Missing(k) /\ Len(content[FileOf(k)]) >= rd.segs[k].length

\* The opened file is the recorded one and long enough: the row is given.
Gives(k) == /\ ~Missing(k)
            /\ FileOf(k) = rd.segs[k].ino
            /\ Len(content[FileOf(k)]) >= rd.segs[k].length

\* A missing file sends the reader to the latest manifest, any other
\* disagreement is an error, and a row that is given changes nothing.
ReaderReads(q) ==
    /\ rd.at = "open"
    /\ q < rd.length
    /\ \E k \in 1..Len(rd.segs) :
         /\ Covers(k, q)
         /\ ~Gives(k)
         /\ rd' = IF Missing(k)
                  THEN [rd EXCEPT !.at = "check", !.m = manifest,
                                  !.want = rd.segs[k]]
                  ELSE NoReader
    /\ UNCHANGED <<disk, today, fd, holder, phase, job, arch, history, faults>>

ReaderCloses ==
    /\ rd.at = "open"
    /\ rd' = NoReader
    /\ UNCHANGED <<disk, today, fd, holder, phase, job, arch, history,
                   faults>>

-----------------------------------------------------------------------------
Append_(p) ==
    \/ Acquire(p)       \/ PrepareAppend(p) \/ Stage(p)
    \/ StagePending(p)  \/ WritePending(p)  \/ RenameNext(p)
    \/ WriteFinal(p)    \/ WriteRow(p)      \/ SyncRow(p)

Fails(p) ==
    \/ PrepareFails(p)  \/ PendingFails(p)  \/ RenameFails(p)
    \/ FinalFails(p)    \/ WriteTears(p)    \/ SyncFails(p) \/ Die(p)

Archive(p) ==
    \/ ArchiveLoop(p)   \/ Compress(p)      \/ Publish(p)
    \/ Retire(p)        \/ Forget(p)
    \/ \E id \in Inodes : ArchiveLook(p, id)

Read ==
    \/ ReaderOpens      \/ ReaderChecks     \/ ReaderStats \/ ReaderCloses
    \/ \E q \in 0..MaxRows : ReaderReads(q)

Next ==
    \/ \E p \in Procs : Append_(p) \/ Fails(p) \/ Archive(p)
    \/ PowerLoss
    \/ Read

\* An operation that holds the lease goes on, and so does an archive thread:
\* each is a running thread of its process.  Nothing forces an append to
\* begin, a fault to happen or the date to change.
Fairness ==
    \A p \in Procs :
      /\ WF_vars(\/ PrepareAppend(p) \/ Stage(p)
                 \/ StagePending(p) \/ WritePending(p) \/ RenameNext(p)
                 \/ WriteFinal(p) \/ WriteRow(p) \/ SyncRow(p))
      /\ WF_vars(Archive(p))

Spec == Init /\ [][Next]_vars

FairSpec == Spec /\ Fairness

-----------------------------------------------------------------------------
Phases == {"free", "prepare", "roll", "pend", "rename", "final", "write",
           "sync", "unlinked"}

Job == [m : Manifest, done : Nat, durable : BOOLEAN, pos : Nat]

Archiver == [queue : SUBSET Nat, batch : SUBSET Nat, failed : SUBSET Nat,
             inspected : BOOLEAN, backoff : BOOLEAN, running : BOOLEAN,
             at : {"loop", "compress", "publish", "settle", "retire"},
             id : Nat, ino : Nat, stage : Nat]

ReaderState == [at : {"closed", "check", "again", "recheck", "stat", "open"},
                m : Manifest, segs : Seq(Segment), length : Nat,
                want : Segment]

\* Inodes, segments, the manifest and every thread's memory have their shape;
\* no length or position that prepare_append computes goes below zero.
TypeOK ==
    /\ content \in [Inodes -> Seq(Nat)]
    /\ synced \in [Inodes -> Nat]
    /\ named \in SUBSET Inodes
    /\ top \in Inodes
    /\ bus \in Inodes
    /\ manifest \in Manifest
    /\ today \in Days
    /\ fd \in [Procs -> Nat]
    /\ holder \in Procs \cup {NoProc}
    /\ phase \in Phases
    /\ job \in Job
    /\ arch \in [Procs -> Archiver]
    /\ rd \in ReaderState
    /\ log \in Seq(Nat)
    /\ receipts \in SUBSET (Nat \X Nat)
    /\ rows \in Nat
    /\ faults \in Nat

-----------------------------------------------------------------------------
(* The stream, as the chain on disk gives it: the row at position n is in  *)
(* the segment that covers n (Reader::read).                               *)

Length == ActiveStart + Len(content[bus])

RowAt(n) ==
    LET m == Effective(manifest) IN
    IF n > ActiveStart THEN content[bus][n - ActiveStart]
    ELSE LET k == CHOOSE j \in 1..Len(m.segments) :
                    m.segments[j].start < n /\ n <= End(m.segments[j])
         IN  content[m.segments[k].ino][n - m.segments[k].start]

Stream == [n \in 1..Length |-> RowAt(n)]

\* The chain always resolves: no death, no failing write and no power loss
\* between the effects of a rollover or of an archive replacement leaves a
\* manifest that resolved() refuses.  (A torn tail still refuses a rollover,
\* and a stale pending swap an append: PendingIsReusable is about the latter.)
AlwaysResolves == manifest.managed => Resolves(manifest)

\* A durable receipt keeps naming its row: rollovers, archiving, deaths and
\* a power loss after append_durable returned never move, change or lose it.
ReceiptsHold ==
    \A r \in receipts : r[1] \in 1..Length /\ Stream[r[1]] = r[2]

\* A lock-free reader, however old its view, is given only rows of the
\* stream at their own positions, and never thinks the stream longer than it
\* is; it errs or sees a shorter stream instead.
ReaderIsFaithful ==
    rd.at = "open" =>
      /\ rd.length <= Length
      /\ \A q \in 0..(rd.length - 1) : \A k \in 1..Len(rd.segs) :
           Covers(k, q) /\ Gives(k) =>
             content[FileOf(k)][q - rd.segs[k].start + 1] = RowAt(q + 1)

\* The files and the manifest together are one append-only log: seen through
\* the chain, every step of every process appends one row, or makes rows
\* durable, or changes nothing; only a power loss takes rows away, and only
\* rows that were not durable.
Log == INSTANCE BusLog WITH stream <- Stream,
                            durable <- ActiveStart + synced[bus]

ImplementsLog == Log!Spec

\* While the local date does not return to an earlier day, an interrupted
\* rollover can always be completed: the pending swap still names the exact
\* active file and an empty replacement (prepare_append refuses every append
\* otherwise).
PendingIsReusable ==
    manifest.swap /\ ~Swapped(manifest) =>
      /\ manifest.closed.ino = bus
      /\ manifest.closed.length = Len(content[bus])
      /\ manifest.next.ino \in named
      /\ content[manifest.next.ino] = <<>>

Archived(id) ==
    \E k \in Entries(Effective(manifest), id) :
      LET s == Effective(manifest).segments[k]
      IN  s.settled /\ s.old = NoIno

\* Archive work is never dropped: a segment a thread has taken up ends
\* archived with its superseded copy deleted, or goes back to the queue, or
\* the process died (and will look at the backlog again).
WorkIsKept ==
    \A p \in Procs, id \in Inodes :
      id \in arch[p].batch ~>
        \/ Archived(id)
        \/ id \in arch[p].queue
        \/ ~arch[p].inspected

=============================================================================
