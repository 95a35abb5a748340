------------------------ MODULE BusGenerationsProofs ------------------------
(***************************************************************************)
(* The generations of a Bus keep every row: proofs for any number of       *)
(* processes, rows, days and faults.                                       *)
(***************************************************************************)
EXTENDS BusGenerations, TLAPS

-----------------------------------------------------------------------------
(* The inductive invariant.                                                *)

\* An inode whose rows never change again: it is not at the Bus path and no
\* pending swap will put it there.
Frozen(i) ==
    /\ i \in 1..top
    /\ i # bus
    /\ manifest.swap => i # manifest.next.ino
    /\ job.m.swap => i # job.m.next.ino

\* The file of a closed segment holds the rows of the log it stands for.
Holds(s) ==
    /\ Frozen(s.ino)
    /\ Len(content[s.ino]) = s.length
    /\ End(s) <= Len(log)
    /\ \A i \in 1..s.length : content[s.ino][i] = log[s.start + i]

Alloc ==
    /\ named \subseteq 1..top
    /\ bus <= top
    /\ \A i \in Inodes : i > top => content[i] = <<>>
    /\ \A i \in Inodes : i # bus => synced[i] = Len(content[i])
    /\ synced[bus] <= Len(content[bus])
    /\ \A p \in Procs : fd[p] <= top

Eff == Effective(manifest)

\* The file at the Bus path holds the end of the log.
ActiveInv ==
    /\ ~manifest.managed => manifest = Unmanaged
    /\ manifest.managed => Eff.active.ino = bus
    /\ Eff.active.old = NoIno
    /\ ActiveStart + Len(content[bus]) = Len(log)
    /\ \A i \in 1..Len(content[bus]) : content[bus][i] = log[ActiveStart + i]

\* A closed segment of the chain.
Closed(s) ==
    /\ Holds(s)
    /\ End(s) <= ActiveStart
    /\ s.ino \in named
    /\ s.old # NoIno => Frozen(s.old)

\* The starts are contiguous, and every position has its segment.
Contiguous ==
    LET s == Eff.segments IN
    /\ ActiveStart = IF s = <<>> THEN 0 ELSE End(s[Len(s)])
    /\ \A k \in 1..Len(s) : s[k].start = IF k = 1 THEN 0 ELSE End(s[k - 1])
    /\ \A n \in 1..ActiveStart : \E k \in 1..Len(s) :
         s[k].start < n /\ n <= End(s[k])

\* No file serves two segments, and none is also a superseded copy.
Distinct ==
    LET s == Eff.segments IN
    \A k, l \in 1..Len(s) :
      /\ k # l => s[k].ino # s[l].ino
      /\ s[k].old # s[l].ino

ChainInv ==
    /\ ActiveInv /\ Contiguous /\ Distinct
    /\ \A k \in 1..Len(Eff.segments) : Closed(Eff.segments[k])

\* What a pending swap of m names.
Pinned(m) ==
    /\ m.closed.ino = m.active.ino
    /\ m.closed.start = m.active.start
    /\ m.closed.old = NoIno
    /\ m.next.old = NoIno
    /\ m.next.ino \in 1..top

\* Such a swap can happen now.
Ready(m) ==
    /\ Pinned(m)
    /\ m.next.ino # bus
    /\ m.closed.length = Len(content[bus])
    /\ m.closed.ino \in named
    /\ content[m.next.ino] = <<>>
    /\ m.next.start = End(m.closed)
    /\ synced[bus] = Len(content[bus])

PhaseInv ==
    /\ (holder = NoProc) <=> (phase = "free")
    /\ phase \in {"free", "prepare", "unlinked"} => job.m = Unmanaged
    /\ phase \in {"roll", "rename", "final", "write", "sync"} =>
         job.m = manifest /\ manifest.managed
    /\ phase \in {"roll", "rename", "write", "sync"} => ~Swapped(manifest)
    /\ phase \in {"write", "sync"} => fd[holder] = bus
    /\ manifest.swap => Pinned(manifest)
    /\ phase = "pend" =>
         /\ manifest.managed /\ ~manifest.swap
         /\ job.m = [manifest EXCEPT !.swap = TRUE, !.closed = job.m.closed,
                                     !.next = job.m.next]
         /\ Ready(job.m)
    /\ phase = "rename" => manifest.swap /\ Ready(manifest)
    /\ phase = "final" => Swapped(manifest)
    /\ phase = "sync" =>
         job.pos = Len(log) /\ log # <<>> /\ log[Len(log)] = rows

ReceiptInv ==
    \A r \in receipts :
      r[1] \in 1..(ActiveStart + synced[bus]) /\ log[r[1]] = r[2]

ArchInv ==
    /\ \A p \in Procs : arch[p].at \in {"compress", "publish", "settle"} =>
         Frozen(arch[p].ino)
    /\ \A p \in Procs : arch[p].at = "publish" =>
         /\ Frozen(arch[p].stage)
         /\ arch[p].stage \in named
         /\ content[arch[p].stage] = content[arch[p].ino]
         /\ \A k \in 1..Len(Eff.segments) :
              /\ arch[p].stage # Eff.segments[k].ino
              /\ arch[p].stage # Eff.segments[k].old
    /\ \A p, q \in Procs :
         p # q /\ arch[p].at = "publish" /\ arch[q].at = "publish" =>
           arch[p].stage # arch[q].stage

\* A segment some reader takes for the active one.
WasActive(s) ==
    /\ s.start <= ActiveStart
    /\ \/ Frozen(s.ino)
       \/ s.ino = bus /\ s.start = ActiveStart

ReadInv ==
    /\ rd.at \in {"check", "recheck", "stat"} =>
         /\ \A k \in 1..Len(rd.m.segments) : Holds(rd.m.segments[k])
         /\ WasActive(rd.m.active)
    /\ rd.at \in {"check", "recheck"} /\ rd.m.swap =>
         \/ Frozen(rd.m.next.ino)
         \/ /\ bus = rd.m.next.ino
            /\ Holds(rd.m.closed)
            /\ rd.m.next.start = ActiveStart
         \/ /\ manifest.swap /\ ~Swapped(manifest)
            /\ rd.m.next = manifest.next /\ rd.m.closed = manifest.closed
    /\ rd.segs # <<>> =>
         /\ rd.length <= Len(log)
         /\ \A k \in 1..(Len(rd.segs) - 1) : Holds(rd.segs[k])
         /\ WasActive(rd.segs[Len(rd.segs)])
    /\ rd.at = "open" => rd.segs # <<>>
    /\ rd.at \in {"check", "recheck", "stat"} \/ Len(rd.segs) > 1 =>
         manifest.managed

IInv ==
    /\ TypeOK /\ Alloc /\ ChainInv /\ PhaseInv
    /\ ReceiptInv /\ ArchInv /\ ReadInv

-----------------------------------------------------------------------------
(* Types.                                                                  *)

USE DEF NoIno, NoProc, Undated, Torn

LEMMA CompletedType ==
    ASSUME NEW m \in Manifest
    PROVE  /\ Completed(m) \in Manifest
           /\ Completed(m).managed = m.managed
           /\ Completed(m).segments = Append(m.segments, m.closed)
           /\ Completed(m).active = m.next
           /\ Completed(m).swap = FALSE
  <1>1. Blank \in Segment
    BY BusAssumption DEF Blank, Segment
  <1>2. Append(m.segments, m.closed) \in Seq(Segment)
    BY DEF Manifest
  <1> QED BY <1>1, <1>2 DEF Completed, Manifest

LEMMA EffectiveType ==
    ASSUME NEW m \in Manifest
    PROVE  /\ Effective(m) \in Manifest
           /\ Effective(m).managed = m.managed
  BY CompletedType DEF Effective

LEMMA NewSegmentType ==
    ASSUME NEW i \in Nat, NEW start \in Nat, NEW day \in 0..MaxDay
    PROVE  /\ new_segment(i, start, day) \in Segment
           /\ new_segment(i, start, day).id = i
           /\ new_segment(i, start, day).ino = i
           /\ new_segment(i, start, day).start = start
           /\ new_segment(i, start, day).length = 0
           /\ new_segment(i, start, day).old = NoIno
           /\ new_segment(i, start, day).day = day
  BY BusAssumption DEF new_segment, Segment, Blank

LEMMA BlankTypes ==
    /\ Blank \in Segment
    /\ Unmanaged \in Manifest
    /\ NoJob \in Job /\ NoJob.m = Unmanaged
    /\ Idle \in Archiver
    /\ NoReader \in ReaderState
  <1>1. Blank \in Segment
    BY BusAssumption DEF Blank, Segment
  <1>2. Unmanaged \in Manifest
    BY <1>1 DEF Unmanaged, Manifest
  <1>3. NoJob \in Job /\ NoJob.m = Unmanaged
    BY <1>2 DEF NoJob, Job
  <1>4. Idle \in Archiver
    BY DEF Idle, Archiver
  <1>5. NoReader \in ReaderState
    BY <1>1, <1>2 DEF NoReader, ReaderState
  <1> QED BY <1>1, <1>2, <1>3, <1>4, <1>5

LEMMA EndType == ASSUME NEW s \in Segment PROVE End(s) \in Nat
  BY DEF End, Segment

LEMMA InitTyped == Init => TypeOK
  <1> SUFFICES ASSUME Init PROVE TypeOK
    OBVIOUS
  <1>1. content \in [Inodes -> Seq(Nat)]
    <2>1. <<>> \in Seq(Nat) /\ <<1>> \in Seq(Nat)
      OBVIOUS
    <2>2. {<<>>, <<1>>} \subseteq Seq(Nat)
      BY <2>1
    <2>3. content \in [Inodes -> {<<>>, <<1>>}]
      BY DEF Init
    <2> QED BY <2>2, <2>3
  <1>2. 1 \in Inodes /\ 1 \in Days
    BY BusAssumption DEF Inodes, Days
  <1>3. synced \in [Inodes -> Nat] /\ log \in Seq(Nat) /\ rows \in Nat
    BY <1>1, <1>2 DEF Init
  <1> QED
    BY <1>1, <1>2, <1>3, BlankTypes DEF Init, TypeOK, Phases

\* What every action needs of the types.
LEMMA PreparedType ==
    ASSUME TypeOK
    PROVE  /\ Prepared \in Manifest
           /\ Prepared.managed
           /\ Eff \in Manifest
  <1>1. Eff \in Manifest /\ Eff.managed = manifest.managed
    BY EffectiveType DEF Eff, TypeOK
  <1>2. CASE manifest.managed
    BY <1>1, <1>2 DEF Prepared, Eff
  <1>3. CASE ~manifest.managed
    <2>1. bus \in Nat /\ today \in 0..MaxDay
      BY BusAssumption DEF TypeOK, Inodes, Days
    <2> DEFINE day == IF content[bus] = <<>> THEN today ELSE Undated
    <2>2. new_segment(bus, 0, day) \in Segment
      BY <2>1, NewSegmentType, BusAssumption
    <2>3. Prepared = [Unmanaged EXCEPT !.managed = TRUE,
                                       !.active = new_segment(bus, 0, day)]
      BY <1>3 DEF Prepared
    <2> QED BY <1>1, <2>2, <2>3, BlankTypes DEF Unmanaged, Manifest
  <1> QED BY <1>2, <1>3

LEMMA ClosedNowType ==
    ASSUME TypeOK, job.m.active.ino \in Inodes
    PROVE  /\ ClosedNow \in Segment
           /\ ClosedNow.ino = job.m.active.ino
           /\ ClosedNow.start = job.m.active.start
           /\ ClosedNow.old = job.m.active.old
           /\ ClosedNow.length = Len(content[job.m.active.ino])
  <1>1. job.m.active \in Segment /\ content[job.m.active.ino] \in Seq(Nat)
    BY DEF TypeOK, Job, Manifest
  <1>2. Len(content[job.m.active.ino]) \in Nat
    BY <1>1
  <1>3. PICK n : n = Len(content[job.m.active.ino])
    OBVIOUS
  <1>4. ClosedNow = [job.m.active EXCEPT !.length = n] /\ n \in Nat
    BY <1>2, <1>3 DEF ClosedNow
  <1>5. job.m.active \in Segment
    BY <1>1
  <1> QED BY <1>3, <1>4, <1>5 DEF Segment

LEMMA ScheduleType ==
    ASSUME TypeOK, NEW p \in Procs, NEW a \in schedule_archives(arch[p], job.done)
    PROVE  /\ a \in Archiver
           /\ a.at = arch[p].at /\ a.ino = arch[p].ino
           /\ a.stage = arch[p].stage
  <1>1. arch[p] \in Archiver /\ job.done \in Nat
    BY DEF TypeOK, Job
  <1>2. Backlog(Effective(manifest)) \in SUBSET Nat
    <2>1. Effective(manifest) \in Manifest
      BY EffectiveType DEF TypeOK
    <2> DEFINE t == Effective(manifest).segments
    <2>2. t \in Seq(Segment)
      BY <2>1 DEF Manifest
    <2> HIDE DEF t
    <2>3. \A k \in 1..Len(t) : t[k] \in Segment
      BY <2>2
    <2>4. \A k \in 1..Len(t) : t[k].id \in Nat
      BY <2>3 DEF Segment
    <2> USE DEF t
    <2> QED BY <2>4 DEF Backlog
  <1> DEFINE queue == arch[p].queue
                     \cup (IF job.done = 0 THEN {} ELSE {job.done})
                     \cup (IF arch[p].inspected THEN {}
                           ELSE Backlog(Effective(manifest)))
             waiting == [arch[p] EXCEPT !.queue = queue, !.inspected = TRUE]
             started == [waiting EXCEPT !.running = TRUE, !.backoff = FALSE]
  <1>3. queue \in SUBSET Nat
    BY <1>1, <1>2 DEF Archiver
  <1>4. waiting \in Archiver /\ started \in Archiver
    BY <1>1, <1>3 DEF Archiver
  <1>5. a = waiting \/ a = started
    BY DEF schedule_archives
  <1>6. /\ waiting.at = arch[p].at /\ waiting.ino = arch[p].ino
        /\ waiting.stage = arch[p].stage
        /\ started.at = arch[p].at /\ started.ino = arch[p].ino
        /\ started.stage = arch[p].stage
    BY <1>1 DEF Archiver
  <1> QED BY <1>4, <1>5, <1>6

LEMMA SettledType ==
    ASSUME NEW a \in Archiver, NEW ok \in BOOLEAN
    PROVE  Settled(a, ok) \in Archiver /\ Settled(a, ok).at = "loop"
  BY DEF Settled, Archiver
\* Every step keeps the types.
LEMMA StepTyped == IInv /\ [Next]_vars => TypeOK'
  <1> SUFFICES ASSUME IInv, [Next]_vars PROVE TypeOK'
    OBVIOUS
  <1> USE BlankTypes
  <1>0. TypeOK /\ PhaseInv /\ Alloc /\ ArchInv /\ ChainInv
    BY DEF IInv
  <1>r. Release => job' \in Job /\ holder' = NoProc /\ phase' = "free"
    BY DEF Release
  <1>m. manifest \in Manifest /\ Eff \in Manifest /\ job \in Job /\ job.m \in Manifest
    BY <1>0, PreparedType DEF TypeOK, Job
  <1>f. Fault => faults' \in Nat
    BY <1>0 DEF Fault, TypeOK
  <1>a. \A p \in Procs : arch[p] \in Archiver
    BY <1>0 DEF TypeOK
  <1>b. phase \in {"write", "sync"} => fd[holder] = bus /\ content[bus] \in Seq(Nat)
    BY <1>0 DEF PhaseInv, TypeOK
  <1>s. \A row \in Nat : phase = "write" /\ AppendRow(holder, row) =>
          content' \in [Inodes -> Seq(Nat)] /\ log' \in Seq(Nat) /\ rows' \in Nat
    BY <1>0, <1>b DEF AppendRow, TypeOK
  <1>e. \A p \in Procs, ok \in BOOLEAN : Settled(arch[p], ok) \in Archiver
    BY <1>a, SettledType
  <1>k. ASSUME NEW k \in 1..Len(Eff.segments), NEW s \in Segment
        PROVE  WithEntry(k, s) \in Manifest
    <2>1. Eff.segments \in Seq(Segment)
      BY <1>m DEF Manifest
    <2>2. [Eff.segments EXCEPT ![k] = s] \in Seq(Segment)
      BY <2>1
    <2> QED BY <1>m, <2>2 DEF WithEntry, Eff, Manifest

  <1>1. ASSUME NEW p \in Procs, Acquire(p) PROVE TypeOK'
    <2>1. job' \in Job
      BY <1>1 DEF Acquire, Job
    <2> QED BY <1>0, <1>1, <2>1 DEF Acquire, TypeOK, Phases, disk, history
  <1>2. ASSUME NEW p \in Procs, PrepareAppend(p) PROVE TypeOK'
    <2>1. Prepared \in Manifest
      BY <1>0, PreparedType
    <2>2. job' \in Job /\ phase' \in Phases /\ holder' \in Procs \cup {NoProc}
      BY <1>0, <1>r, <1>2, <2>1, <1>m DEF PrepareAppend, Job, Phases, TypeOK
    <2>3. fd' \in [Procs -> Nat]
      BY <1>0, <1>2 DEF PrepareAppend, TypeOK, Inodes
    <2> QED BY <1>0, <1>2, <2>1, <2>2, <2>3 DEF PrepareAppend, TypeOK, history
  <1>4. ASSUME NEW p \in Procs, Stage(p) PROVE TypeOK'
    <2>1. /\ job.m.active.ino \in Inodes /\ top \in Nat
          /\ top + 1 \in Inodes /\ today \in 0..MaxDay
      <3>1. job.m = manifest /\ manifest.managed /\ ~Swapped(manifest)
        BY <1>0, <1>4 DEF Stage, PhaseInv
      <3>2. Eff = manifest
        BY <3>1 DEF Eff, Effective
      <3>3. job.m.active.ino = bus /\ bus \in Inodes
        BY <1>0, <3>1, <3>2 DEF ChainInv, ActiveInv, TypeOK
      <3>4. top \in Nat /\ top + 1 \in Inodes
        BY <1>0, <1>4, BusAssumption DEF Stage, TypeOK, Inodes
      <3>5. today \in 0..MaxDay
        BY <1>0, BusAssumption DEF TypeOK, Days
      <3> QED BY <3>3, <3>4, <3>5
    <2>2. ClosedNow \in Segment
      BY <1>0, <2>1, ClosedNowType
    <2>3. new_segment(top + 1, End(ClosedNow), today) \in Segment
      BY <2>1, <2>2, EndType, NewSegmentType
    <2>4. job' \in Job
      BY <1>m, <1>4, <2>2, <2>3 DEF Stage, Job, Manifest
    <2>5. synced' \in [Inodes -> Nat] /\ content[job.m.active.ino] \in Seq(Nat)
      <3>1. content[job.m.active.ino] \in Seq(Nat)
        BY <1>0, <2>1 DEF TypeOK
      <3>2. Len(content[job.m.active.ino]) \in Nat
        BY <3>1
      <3> QED BY <1>0, <1>4, <2>1, <3>1, <3>2 DEF Stage, TypeOK
    <2>6. named' \in SUBSET Inodes
      BY <1>0, <1>4, <2>1 DEF Stage, TypeOK
    <2> QED BY <1>0, <1>4, <2>1, <2>4, <2>5, <2>6
          DEF Stage, TypeOK, Phases, history
  <1>5. ASSUME NEW p \in Procs, StagePending(p) PROVE TypeOK'
    <2>1. job.m.active.ino \in Inodes
      <3>1. job.m = manifest /\ manifest.managed /\ ~Swapped(manifest)
        BY <1>0, <1>5 DEF StagePending, PhaseInv
      <3>2. Eff = manifest
        BY <3>1 DEF Eff, Effective
      <3> QED BY <1>0, <3>1, <3>2 DEF ChainInv, ActiveInv, TypeOK
    <2>2. synced' \in [Inodes -> Nat]
      BY <1>0, <1>5, <2>1 DEF StagePending, TypeOK
    <2>3. job' \in Job /\ phase' \in Phases /\ holder' \in Procs \cup {NoProc}
      BY <1>0, <1>r, <1>5, <1>m DEF StagePending, Phases, TypeOK
    <2> QED BY <1>0, <1>5, <2>2, <2>3 DEF StagePending, TypeOK, history
  <1>6. ASSUME NEW p \in Procs, WritePending(p) PROVE TypeOK'
    BY <1>0, <1>m, <1>6 DEF WritePending, TypeOK, Phases, history
  <1>7. ASSUME NEW p \in Procs, RenameNext(p) PROVE TypeOK'
    <2>1. job.m.next.ino \in Inodes
      <3>1. job.m = manifest /\ Pinned(manifest)
        BY <1>0, <1>7 DEF RenameNext, PhaseInv
      <3>2. top \in 1..MaxIno /\ MaxIno \in Nat
        BY <1>0, BusAssumption DEF TypeOK, Inodes
      <3>3. job.m.next.ino \in 1..top
        BY <3>1 DEF Pinned
      <3> QED BY <3>2, <3>3 DEF Inodes
    <2> QED BY <1>0, <1>7, <2>1 DEF RenameNext, TypeOK, Phases, history
  <1>8. ASSUME NEW p \in Procs, WriteFinal(p) PROVE TypeOK'
    <2>1. Completed(job.m) \in Manifest
      BY <1>m, CompletedType
    <2>2. job' \in Job
      <3>1. job.m.closed \in Segment
        BY <1>m DEF Manifest
      <3>2. PICK d \in Nat : job' = [job EXCEPT !.m = Completed(job.m), !.done = d]
        BY <1>8, <3>1 DEF WriteFinal, Segment
      <3> QED BY <1>m, <2>1, <3>2 DEF Job
    <2>3. fd' \in [Procs -> Nat]
      BY <1>0, <1>m, <1>8 DEF WriteFinal, TypeOK, Manifest, Segment
    <2> QED BY <1>0, <1>8, <2>1, <2>2, <2>3 DEF WriteFinal, TypeOK, Phases, history
  <1>9. ASSUME NEW p \in Procs, WriteRow(p) PROVE TypeOK'
    <2>0. rows + 1 \in Nat
      BY <1>0 DEF TypeOK
    <2>1. content' \in [Inodes -> Seq(Nat)] /\ log' \in Seq(Nat) /\ rows' \in Nat
      BY <1>s, <1>9, <2>0 DEF WriteRow
    <2>2. CASE ~job.durable /\ Finish(p)
      <3>1. PICK a \in schedule_archives(arch[p], job.done) :
              arch' = [arch EXCEPT ![p] = a]
        BY <2>2 DEF Finish
      <3>2. arch' \in [Procs -> Archiver]
        BY <1>0, <3>1, ScheduleType DEF TypeOK
      <3> QED BY <1>0, <1>r, <1>9, <2>1, <2>2, <3>2
            DEF WriteRow, Finish, TypeOK, Phases
    <2>3. CASE /\ job.durable
               /\ phase' = "sync"
               /\ job' = [job EXCEPT !.pos = job.m.active.start
                                               + Len(content[fd[p]]) + 1]
               /\ UNCHANGED <<holder, arch>>
      <3>1. content[fd[p]] \in Seq(Nat) /\ job.m.active.start \in Nat
        <4>1. fd[p] = bus /\ content[bus] \in Seq(Nat)
          BY <1>b, <1>9 DEF WriteRow
        <4>2. job.m.active.start \in Nat
          BY <1>m DEF Manifest, Segment
        <4> QED BY <4>1, <4>2
      <3>2. job' \in Job
        <4> DEFINE at == job.m.active.start + Len(content[fd[p]]) + 1
        <4>1. at \in Nat
          BY <3>1
        <4>2. job' = [job EXCEPT !.pos = at]
          BY <2>3
        <4> HIDE DEF at
        <4>3. job \in Job
          BY <1>0 DEF TypeOK
        <4> QED BY <4>1, <4>2, <4>3 DEF Job
      <3> QED BY <1>0, <1>9, <2>1, <2>3, <3>2 DEF WriteRow, TypeOK, Phases
    <2> QED BY <1>9, <2>2, <2>3 DEF WriteRow
  <1>10. ASSUME NEW p \in Procs, SyncRow(p) PROVE TypeOK'
    <2>1. PICK a \in schedule_archives(arch[p], job.done) :
            arch' = [arch EXCEPT ![p] = a]
      BY <1>10 DEF SyncRow, Finish
    <2>2. arch' \in [Procs -> Archiver]
      BY <1>0, <2>1, ScheduleType DEF TypeOK
    <2>3. fd[p] = bus
      BY <1>0, <1>10 DEF SyncRow, PhaseInv
    <2>4. synced' \in [Inodes -> Nat]
      BY <1>0, <1>10, <2>3 DEF SyncRow, TypeOK
    <2>5. receipts' \in SUBSET (Nat \X Nat)
      BY <1>0, <1>m, <1>10 DEF SyncRow, TypeOK, Job
    <2> QED BY <1>0, <1>r, <1>10, <2>2, <2>4, <2>5
          DEF SyncRow, Finish, TypeOK, Phases
  <1>11. ASSUME NEW p \in Procs, PrepareFails(p) PROVE TypeOK'
    <2>1. Prepared \in Manifest
      BY <1>0, PreparedType
    <2> QED BY <1>0, <1>r, <1>f, <1>11, <2>1 DEF PrepareFails, TypeOK, Phases, history
  <1>12. ASSUME NEW p \in Procs, PendingFails(p) PROVE TypeOK'
    BY <1>0, <1>r, <1>f, <1>m, <1>12 DEF PendingFails, TypeOK, Phases, history
  <1>13. ASSUME NEW p \in Procs, RenameFails(p) PROVE TypeOK'
    BY <1>0, <1>r, <1>f, <1>13 DEF RenameFails, TypeOK, Phases, disk, history
  <1>14. ASSUME NEW p \in Procs, FinalFails(p) PROVE TypeOK'
    <2>1. Completed(job.m) \in Manifest
      BY <1>m, CompletedType
    <2>2. fd' \in [Procs -> Nat]
      BY <1>0, <1>m, <1>14 DEF FinalFails, TypeOK, Manifest, Segment
    <2> QED BY <1>0, <1>r, <1>f, <1>14, <2>1, <2>2
          DEF FinalFails, TypeOK, Phases, history
  <1>15. ASSUME NEW p \in Procs, WriteTears(p) PROVE TypeOK'
    <2>1. content' \in [Inodes -> Seq(Nat)] /\ log' \in Seq(Nat) /\ rows' \in Nat
      BY <1>s, <1>15 DEF WriteTears
    <2> QED BY <1>0, <1>r, <1>f, <1>15, <2>1 DEF WriteTears, TypeOK, Phases
  <1>16. ASSUME NEW p \in Procs, SyncFails(p) PROVE TypeOK'
    BY <1>0, <1>r, <1>f, <1>16 DEF SyncFails, TypeOK, Phases, disk, history
  <1>17. ASSUME NEW p \in Procs, Die(p) PROVE TypeOK'
    <2>1. content' \in [Inodes -> Seq(Nat)] /\ log' \in Seq(Nat) /\ rows' \in Nat
      <3>1. Torn \in Nat
        OBVIOUS
      <3> QED BY <1>0, <1>s, <1>17, <3>1 DEF Die, TypeOK
    <2>2. job' \in Job /\ phase' \in Phases /\ holder' \in Procs \cup {NoProc}
      BY <1>0, <1>r, <1>17 DEF Die, TypeOK, Phases
    <2>3. fd' \in [Procs -> Nat] /\ arch' \in [Procs -> Archiver]
      BY <1>0, <1>17 DEF Die, TypeOK
    <2> QED BY <1>0, <1>f, <1>17, <2>1, <2>2, <2>3 DEF Die, TypeOK
  <1>18. ASSUME PowerLoss PROVE TypeOK'
    <2>1. PICK i \in Inodes : \E n \in synced[i]..Len(content[i]) :
            /\ content' = [content EXCEPT ![i] = SubSeq(content[i], 1, n)]
            /\ synced' = [synced EXCEPT ![i] = n]
            /\ log' = IF i = bus THEN SubSeq(log, 1, ActiveStart + n) ELSE log
      BY <1>18 DEF PowerLoss
    <2>2. PICK n \in synced[i]..Len(content[i]) :
            /\ content' = [content EXCEPT ![i] = SubSeq(content[i], 1, n)]
            /\ synced' = [synced EXCEPT ![i] = n]
            /\ log' = IF i = bus THEN SubSeq(log, 1, ActiveStart + n) ELSE log
      BY <2>1
    <2>3. n \in Nat /\ content[i] \in Seq(Nat) /\ n <= Len(content[i])
      BY <1>0, <2>2 DEF TypeOK
    <2>4. SubSeq(content[i], 1, n) \in Seq(Nat)
      BY <2>3
    <2>5. i = bus => ActiveStart + n <= Len(log) /\ ActiveStart + n \in Nat
      <3>1. ActiveStart \in Nat
        BY <1>m DEF ActiveStart, Eff, Manifest, Segment
      <3>2. ActiveStart + Len(content[bus]) = Len(log)
        BY <1>0 DEF ChainInv, ActiveInv
      <3> QED BY <2>3, <3>1, <3>2
    <2>6. log' \in Seq(Nat)
      BY <1>0, <2>2, <2>5 DEF TypeOK
    <2>7. content' \in [Inodes -> Seq(Nat)] /\ synced' \in [Inodes -> Nat]
      BY <1>0, <2>2, <2>3, <2>4 DEF TypeOK
    <2> QED BY <1>0, <1>r, <1>f, <1>18, <2>6, <2>7 DEF PowerLoss, TypeOK, Phases
  <1>19. ASSUME NEW p \in Procs, ArchiveLoop(p) PROVE TypeOK'
    <2>1. arch' \in [Procs -> Archiver]
      <3>1. arch[p] \in Archiver
        BY <1>a
      <3>2. [arch[p] EXCEPT !.queue = arch[p].queue \cup arch[p].failed,
               !.failed = {}, !.backoff = TRUE, !.running = FALSE] \in Archiver
        BY <3>1 DEF Archiver
      <3>3. [arch[p] EXCEPT !.running = FALSE] \in Archiver
        BY <3>1 DEF Archiver
      <3>4. [arch[p] EXCEPT !.batch = arch[p].queue, !.queue = {}] \in Archiver
        BY <3>1 DEF Archiver
      <3> QED BY <1>0, <1>19, <3>2, <3>3, <3>4 DEF ArchiveLoop, TypeOK
    <2> QED BY <1>0, <1>19, <2>1 DEF ArchiveLoop, TypeOK, disk, history
  <1>20. ASSUME NEW p \in Procs, NEW id \in Inodes, ArchiveLook(p, id) PROVE TypeOK'
    <2>1. [arch[p] EXCEPT !.id = id] \in Archiver
      BY <1>a DEF Archiver, Inodes
    <2>2. \A ok \in BOOLEAN : Settled([arch[p] EXCEPT !.id = id], ok) \in Archiver
      BY <2>1, SettledType
    <2>0. arch[p] \in Archiver /\ id \in Nat
      BY <1>a DEF Inodes
    <2>3. [arch[p] EXCEPT !.at = "retire", !.id = id] \in Archiver
      BY <2>0 DEF Archiver
    <2>4. ASSUME NEW i \in Nat
          PROVE [arch[p] EXCEPT !.at = "compress", !.id = id, !.ino = i] \in Archiver
      BY <2>0 DEF Archiver
    <2>5. \A k \in 1..Len(Eff.segments) : Eff.segments[k].ino \in Nat
      <3>1. Eff.segments \in Seq(Segment)
        BY <1>m DEF Manifest
      <3>2. \A k \in 1..Len(Eff.segments) : Eff.segments[k] \in Segment
        BY <3>1
      <3> QED BY <3>2 DEF Segment
    <2>6. arch' \in [Procs -> Archiver]
      <3>1. CASE \E k \in 1..Len(Eff.segments) :
                   LET s == Eff.segments[k] IN
                   arch' = [arch EXCEPT ![p] =
                     IF s.compressed
                     THEN [arch[p] EXCEPT !.at = "retire", !.id = id]
                     ELSE IF s.settled THEN Settled([arch[p] EXCEPT !.id = id], TRUE)
                     ELSE [arch[p] EXCEPT !.at = "compress", !.id = id,
                                          !.ino = s.ino]]
        <4>1. PICK k \in 1..Len(Eff.segments) :
                   LET s == Eff.segments[k] IN
                   arch' = [arch EXCEPT ![p] =
                     IF s.compressed
                     THEN [arch[p] EXCEPT !.at = "retire", !.id = id]
                     ELSE IF s.settled THEN Settled([arch[p] EXCEPT !.id = id], TRUE)
                     ELSE [arch[p] EXCEPT !.at = "compress", !.id = id,
                                          !.ino = s.ino]]
          BY <3>1
        <4> QED BY <1>0, <2>2, <2>3, <2>4, <2>5, <4>1 DEF TypeOK
      <3>2. CASE arch' = [arch EXCEPT ![p] = Settled([arch[p] EXCEPT !.id = id], FALSE)]
        BY <1>0, <2>2, <3>2 DEF TypeOK
      <3> QED BY <1>20, <3>1, <3>2 DEF ArchiveLook, Entries, Eff
    <2> QED BY <1>0, <1>20, <2>6 DEF ArchiveLook, TypeOK, disk, history
  <1>21. ASSUME NEW p \in Procs, Compress(p) PROVE TypeOK'
    <2>0. arch[p] \in Archiver
      BY <1>a
    <2>1. CASE /\ top + 1 < MaxIno /\ arch[p].ino \in named
               /\ top' = top + 1
               /\ content' = [content EXCEPT ![top'] = content[arch[p].ino]]
               /\ synced' = [synced EXCEPT ![top'] = Len(content[arch[p].ino])]
               /\ named' = named \cup {top'}
               /\ arch' = [arch EXCEPT ![p].at = "publish", ![p].stage = top']
               /\ UNCHANGED faults
      <3>1. top' \in Inodes /\ top' \in Nat
        <4>1. top \in 1..MaxIno /\ MaxIno \in Nat
          BY <1>0, BusAssumption DEF TypeOK, Inodes
        <4> QED BY <2>1, <4>1 DEF Inodes
      <3>2. content[arch[p].ino] \in Seq(Nat)
        BY <1>0, <2>1 DEF TypeOK
      <3>3. Len(content[arch[p].ino]) \in Nat
        BY <3>2
      <3>4. [arch[p] EXCEPT !.at = "publish", !.stage = top'] \in Archiver
        BY <2>0, <3>1 DEF Archiver
      <3>5. arch' = [arch EXCEPT ![p] =
                       [arch[p] EXCEPT !.at = "publish", !.stage = top']]
        BY <1>0, <2>1 DEF TypeOK
      <3>6. arch' \in [Procs -> Archiver]
        BY <1>0, <3>4, <3>5 DEF TypeOK
      <3> QED BY <1>0, <1>21, <2>1, <3>1, <3>2, <3>3, <3>6
            DEF Compress, TypeOK, history
    <2>2. CASE /\ arch' = [arch EXCEPT ![p].at = "settle"]
               /\ UNCHANGED <<content, synced, named, top, faults>>
      <3>1. [arch[p] EXCEPT !.at = "settle"] \in Archiver
        BY <2>0 DEF Archiver
      <3>2. arch' \in [Procs -> Archiver]
        BY <1>0, <2>2, <3>1 DEF TypeOK
      <3> QED BY <1>0, <1>21, <2>2, <3>2 DEF Compress, TypeOK, history
    <2>3. CASE /\ arch' = [arch EXCEPT ![p] = Settled(arch[p], FALSE)]
               /\ UNCHANGED <<content, synced, named, top>>
               /\ faults' \in Nat
      BY <1>0, <1>e, <1>21, <2>3 DEF Compress, TypeOK, history
    <2>4. faults \in Nat
      BY <1>0 DEF TypeOK
    <2> QED BY <1>21, <1>f, <2>1, <2>2, <2>3, <2>4 DEF Compress
  <1>22. ASSUME NEW p \in Procs, Publish(p) PROVE TypeOK'
    <2>0. arch[p] \in Archiver
      BY <1>a
    <2> DEFINE new(k) == IF arch[p].at = "settle"
                         THEN [Eff.segments[k] EXCEPT !.settled = TRUE]
                         ELSE [Eff.segments[k] EXCEPT !.ino = arch[p].stage,
                                 !.settled = TRUE, !.compressed = TRUE,
                                 !.old = Eff.segments[k].ino]
    <2>1. \A k \in 1..Len(Eff.segments) : new(k) \in Segment
      <3>1. Eff.segments \in Seq(Segment) /\ arch[p].stage \in Nat
        BY <1>m, <2>0 DEF Manifest, Archiver
      <3> SUFFICES ASSUME NEW k \in 1..Len(Eff.segments) PROVE new(k) \in Segment
        OBVIOUS
      <3>2. Eff.segments[k] \in Segment
        BY <3>1
      <3> QED BY <3>1, <3>2 DEF Segment
    <2>2. \A k \in 1..Len(Eff.segments) : WithEntry(k, new(k)) \in Manifest
      BY <1>k, <2>1
    <2>3. manifest' \in Manifest
      <3>1. \/ manifest' = manifest
            \/ \E k \in 1..Len(Eff.segments) : manifest' = WithEntry(k, new(k))
        BY <1>22 DEF Publish, Replaceable, Entries, Eff
      <3> QED BY <1>m, <2>2, <3>1
    <2>4. [arch[p] EXCEPT !.at = "retire"] \in Archiver
      BY <2>0 DEF Archiver
    <2>5. arch' \in [Procs -> Archiver]
      <3>1. \/ \E ok \in BOOLEAN :
                 arch' = [arch EXCEPT ![p] = Settled(arch[p], ok)]
            \/ arch' = [arch EXCEPT ![p] = [arch[p] EXCEPT !.at = "retire"]]
        BY <1>22 DEF Publish
      <3> QED BY <1>0, <1>e, <2>4, <3>1 DEF TypeOK
    <2>6. faults' \in Nat
      BY <1>0, <1>f, <1>22 DEF Publish, TypeOK
    <2> QED BY <1>0, <1>22, <2>3, <2>5, <2>6 DEF Publish, TypeOK, history
  <1>23. ASSUME NEW p \in Procs, Retire(p) PROVE TypeOK'
    <2>1. arch' \in [Procs -> Archiver]
      BY <1>0, <1>e, <1>23 DEF Retire, TypeOK
    <2>2. named' \in SUBSET Inodes
      BY <1>0, <1>23 DEF Retire, TypeOK
    <2>3. holder' \in Procs \cup {NoProc} /\ phase' \in Phases
      BY <1>0, <1>23 DEF Retire, TypeOK, Phases
    <2> QED BY <1>0, <1>23, <2>1, <2>2, <2>3 DEF Retire, TypeOK, history
  <1>24. ASSUME NEW p \in Procs, Forget(p) PROVE TypeOK'
    <2> DEFINE new(k) == [Eff.segments[k] EXCEPT !.old = NoIno]
    <2>1. \A k \in 1..Len(Eff.segments) : new(k) \in Segment
      <3>1. Eff.segments \in Seq(Segment)
        BY <1>m DEF Manifest
      <3> SUFFICES ASSUME NEW k \in 1..Len(Eff.segments) PROVE new(k) \in Segment
        OBVIOUS
      <3>2. Eff.segments[k] \in Segment
        BY <3>1
      <3> QED BY <3>2 DEF Segment
    <2>2. \A k \in 1..Len(Eff.segments) : WithEntry(k, new(k)) \in Manifest
      BY <1>k, <2>1
    <2>3. manifest' \in Manifest
      <3>1. \/ manifest' = manifest
            \/ \E k \in 1..Len(Eff.segments) : manifest' = WithEntry(k, new(k))
        BY <1>24 DEF Forget, Retirable, Entries, Eff
      <3> QED BY <1>m, <2>2, <3>1
    <2>4. arch' \in [Procs -> Archiver]
      BY <1>0, <1>e, <1>24 DEF Forget, TypeOK
    <2>5. faults' \in Nat
      BY <1>0, <1>f, <1>24 DEF Forget, TypeOK
    <2> QED BY <1>0, <1>r, <1>24, <2>3, <2>4, <2>5 DEF Forget, TypeOK, Phases, history
  <1>25. ASSUME Read PROVE TypeOK'
    <2>0. rd \in ReaderState /\ rd.m \in Manifest /\ rd.segs \in Seq(Segment)
      BY <1>0 DEF TypeOK, ReaderState
    <2>1. bus \in Nat /\ content[bus] \in Seq(Nat) /\ Undated \in 0..MaxDay
      BY <1>0, BusAssumption DEF TypeOK, Inodes
    <2>2. Len(content[bus]) \in Nat
      BY <2>1
    <2>3. rd' \in ReaderState
      <3>1. ASSUME ReaderOpens PROVE rd' \in ReaderState
        <4>1. [new_segment(bus, 0, Undated) EXCEPT !.length = Len(content[bus])]
                \in Segment
          <5>1. new_segment(bus, 0, Undated) \in Segment
            BY <2>1, NewSegmentType
          <5> QED BY <2>2, <5>1 DEF Segment
        <4> DEFINE seg == [new_segment(bus, 0, Undated)
                             EXCEPT !.length = Len(content[bus])]
        <4>2. <<seg>> \in Seq(Segment)
          BY <4>1
        <4> HIDE DEF seg
        <4>3. CASE manifest.managed
          BY <1>m, <2>0, <3>1, <4>3 DEF ReaderOpens, ReaderState
        <4>4. CASE ~manifest.managed
          <5>1. rd' = [rd EXCEPT !.at = "open", !.segs = <<seg>>,
                                 !.length = Len(content[bus])]
            BY <3>1, <4>4 DEF ReaderOpens, seg
          <5> QED BY <2>0, <2>2, <4>2, <5>1 DEF ReaderState
        <4> QED BY <4>3, <4>4
      <3>2. ASSUME ReaderChecks PROVE rd' \in ReaderState
        <4>1. Effective(rd.m) \in Manifest
          BY <2>0, EffectiveType
        <4> QED BY <2>0, <3>2, <4>1 DEF ReaderChecks, ReaderState
      <3>3. ASSUME ReaderStats PROVE rd' \in ReaderState
        <4> DEFINE active == [rd.m.active EXCEPT !.length = Len(content[bus])]
        <4>1. active \in Segment /\ End(active) \in Nat
          <5>1. active \in Segment
            BY <2>0, <2>2 DEF Manifest, Segment
          <5> QED BY <5>1, EndType
        <4>2. Append(rd.m.segments, active) \in Seq(Segment)
          BY <2>0, <4>1 DEF Manifest
        <4> QED BY <2>0, <3>3, <4>1, <4>2 DEF ReaderStats, ReaderState
      <3>4. ASSUME NEW q \in 0..MaxRows, ReaderReads(q) PROVE rd' \in ReaderState
        <4>1. PICK k \in 1..Len(rd.segs) :
                rd' = IF Missing(k)
                      THEN [rd EXCEPT !.at = "check", !.m = manifest,
                                      !.want = rd.segs[k]]
                      ELSE NoReader
          BY <3>4 DEF ReaderReads
        <4>2. rd.segs[k] \in Segment
          BY <2>0
        <4> QED BY <1>m, <2>0, <4>1, <4>2 DEF ReaderState
      <3>5. ASSUME ReaderCloses PROVE rd' \in ReaderState
        BY <3>5 DEF ReaderCloses
      <3> QED BY <1>25, <3>1, <3>2, <3>3, <3>4, <3>5 DEF Read
    <2>4. UNCHANGED <<disk, today, fd, holder, phase, job, arch, history, faults>>
      BY <1>25 DEF Read, ReaderOpens, ReaderChecks, ReaderStats, ReaderReads,
                   ReaderCloses
    <2> QED BY <1>0, <2>3, <2>4 DEF TypeOK, disk, history
  <1>26. ASSUME UNCHANGED vars PROVE TypeOK'
    BY <1>0, <1>26 DEF TypeOK, vars
  <1> QED
    BY <1>1, <1>2, <1>4, <1>5, <1>6, <1>7, <1>8, <1>9, <1>10, <1>11,
       <1>12, <1>13, <1>14, <1>15, <1>16, <1>17, <1>18, <1>19, <1>20, <1>21,
       <1>22, <1>23, <1>24, <1>25, <1>26
    DEF Next, Append_, Fails, Archive
-----------------------------------------------------------------------------
(* Steps that leave the stream as it is: they may allocate, link, sync,    *)
(* resolve or extend the manifest with a pending swap.                     *)

Calm ==
    /\ bus' = bus /\ log' = log
    /\ \A i \in 1..top : content'[i] = content[i]
    /\ manifest.managed => manifest'.managed
    /\ ~manifest'.managed => manifest' = Unmanaged
    /\ Eff'.segments = Eff.segments
    /\ ActiveStart' = ActiveStart
    /\ manifest'.managed => Eff'.active.ino = bus
    /\ Eff'.active.old = NoIno
    /\ \A k \in 1..Len(Eff.segments) : Eff.segments[k].ino \in named'
    /\ \A i : Frozen(i) => Frozen(i)'
    /\ manifest.swap /\ ~Swapped(manifest) =>
         /\ manifest'.swap /\ ~Swapped(manifest)'
         /\ manifest'.next = manifest.next
         /\ manifest'.closed = manifest.closed

LEMMA SegmentsType ==
    ASSUME TypeOK
    PROVE  /\ Eff.segments \in Seq(Segment)
           /\ \A k \in 1..Len(Eff.segments) : Eff.segments[k] \in Segment
           /\ ActiveStart \in Nat
  <1>1. Eff \in Manifest
    BY PreparedType
  <1>2. Eff.segments \in Seq(Segment)
    BY <1>1 DEF Manifest
  <1>3. ActiveStart \in Nat
    BY <1>1 DEF ActiveStart, Eff, Manifest, Segment
  <1>4. \A k \in 1..Len(Eff.segments) : Eff.segments[k] \in Segment
    BY <1>2
  <1> QED BY <1>2, <1>3, <1>4

\* A segment that holds its rows keeps holding them while frozen files do
\* not change and the log keeps its prefix.
LEMMA HoldsKept ==
    ASSUME TypeOK, TypeOK',
           \A i : Frozen(i) => Frozen(i)',
           \A i : Frozen(i) => content'[i] = content[i],
           Len(log) <= Len(log'),
           \A n \in 1..Len(log) : log'[n] = log[n]
    PROVE  \A s \in Segment : Holds(s) => Holds(s)'
  <1> SUFFICES ASSUME NEW s \in Segment, Holds(s) PROVE Holds(s)'
    OBVIOUS
  <1>1. Frozen(s.ino) /\ Frozen(s.ino)' /\ content'[s.ino] = content[s.ino]
    BY DEF Holds
  <1>0. log \in Seq(Nat) /\ log' \in Seq(Nat)
    BY DEF TypeOK
  <1>2. s.start \in Nat /\ s.length \in Nat /\ Len(log) \in Nat /\ Len(log') \in Nat
    BY <1>0 DEF Segment
  <1>3. End(s) <= Len(log')
    BY <1>2 DEF Holds, End
  <1>4. \A i \in 1..s.length : content'[s.ino][i] = log'[s.start + i]
    <2> SUFFICES ASSUME NEW i \in 1..s.length
                 PROVE  content'[s.ino][i] = log'[s.start + i]
      OBVIOUS
    <2>1. content[s.ino][i] = log[s.start + i]
      BY DEF Holds
    <2>2. s.start + i \in 1..Len(log)
      BY <1>2 DEF Holds, End
    <2> QED BY <1>1, <2>1, <2>2
  <1> QED BY <1>1, <1>3, <1>4 DEF Holds, End

LEMMA CalmHolds ==
    ASSUME TypeOK, TypeOK', Calm
    PROVE  \A s \in Segment : Holds(s) => Holds(s)'
  <1>1. \A i : Frozen(i) => content'[i] = content[i]
    BY DEF Calm, Frozen
  <1>2. Len(log) <= Len(log') /\ \A n \in 1..Len(log) : log'[n] = log[n]
    BY DEF Calm, TypeOK
  <1> QED BY <1>1, <1>2, HoldsKept DEF Calm

LEMMA CalmChain ==
    ASSUME TypeOK, TypeOK', Alloc, ChainInv, Calm
    PROVE  ChainInv'
  <1>1. \A s \in Segment : Holds(s) => Holds(s)'
    BY CalmHolds
  <1>2. content'[bus] = content[bus]
    BY DEF Calm, Alloc, TypeOK, Inodes
  <1>3. ActiveInv'
    BY <1>2 DEF ChainInv, ActiveInv, Calm
  <1>4. Contiguous'
    BY DEF ChainInv, Contiguous, Calm
  <1>5. Distinct'
    BY DEF ChainInv, Distinct, Calm
  <1>6. ASSUME NEW k \in 1..Len(Eff.segments) PROVE Closed(Eff.segments[k])'
    <2>1. Eff.segments[k] \in Segment /\ Closed(Eff.segments[k])
      BY SegmentsType DEF ChainInv
    <2>2. Holds(Eff.segments[k])'
      BY <1>1, <2>1 DEF Closed, Calm
    <2> QED BY <2>1, <2>2 DEF Closed, Calm, End
  <1>7. \A k \in 1..Len(Eff'.segments) : Closed(Eff.segments[k])'
    BY <1>6 DEF Calm
  <1> QED BY <1>3, <1>4, <1>5, <1>7 DEF ChainInv

LEMMA CalmReader ==
    ASSUME TypeOK, TypeOK', ReadInv, Calm, rd' = rd
    PROVE  ReadInv'
  <1>1. \A s \in Segment : Holds(s) => Holds(s)'
    BY CalmHolds
  <1>2. \A s : WasActive(s) => WasActive(s)'
    BY DEF WasActive, Calm
  <1>3. rd.m \in Manifest /\ rd.segs \in Seq(Segment)
    BY DEF TypeOK, ReaderState
  <1>4. rd.m.segments \in Seq(Segment) /\ rd.m.closed \in Segment
    BY <1>3 DEF Manifest
  <1>5. rd.at \in {"check", "recheck", "stat"} =>
          /\ \A k \in 1..Len(rd.m.segments) : Holds(rd.m.segments[k])'
          /\ WasActive(rd.m.active)'
    <2> SUFFICES ASSUME rd.at \in {"check", "recheck", "stat"}
                 PROVE  /\ \A k \in 1..Len(rd.m.segments) : Holds(rd.m.segments[k])'
                        /\ WasActive(rd.m.active)'
      OBVIOUS
    <2>1. WasActive(rd.m.active)'
      BY <1>2 DEF ReadInv
    <2>2. \A k \in 1..Len(rd.m.segments) :
            rd.m.segments[k] \in Segment /\ Holds(rd.m.segments[k])
      BY <1>4 DEF ReadInv
    <2> QED BY <1>1, <2>1, <2>2
  <1>6. rd.at \in {"check", "recheck"} /\ rd.m.swap =>
          \/ Frozen(rd.m.next.ino)'
          \/ /\ bus' = rd.m.next.ino
             /\ Holds(rd.m.closed)'
             /\ rd.m.next.start = ActiveStart'
          \/ /\ manifest'.swap /\ ~Swapped(manifest)'
             /\ rd.m.next = manifest'.next /\ rd.m.closed = manifest'.closed
    BY <1>1, <1>4 DEF ReadInv, Calm
  <1>7. rd.segs # <<>> =>
          /\ rd.length <= Len(log')
          /\ \A k \in 1..(Len(rd.segs) - 1) : Holds(rd.segs[k])'
          /\ WasActive(rd.segs[Len(rd.segs)])'
    <2> SUFFICES ASSUME rd.segs # <<>>
                 PROVE  /\ rd.length <= Len(log')
                        /\ \A k \in 1..(Len(rd.segs) - 1) : Holds(rd.segs[k])'
                        /\ WasActive(rd.segs[Len(rd.segs)])'
      OBVIOUS
    <2>1. rd.length <= Len(log') /\ WasActive(rd.segs[Len(rd.segs)])'
      BY <1>2 DEF ReadInv, Calm
    <2>2. \A k \in 1..(Len(rd.segs) - 1) : rd.segs[k] \in Segment /\ Holds(rd.segs[k])
      BY <1>3 DEF ReadInv
    <2> QED BY <1>1, <2>1, <2>2
  <1> QED BY <1>5, <1>6, <1>7 DEF ReadInv, Calm

\* The manifest, the stream and the chain's files are untouched.
LEMMA CalmSame ==
    ASSUME TypeOK, TypeOK', ChainInv,
           bus' = bus, log' = log, manifest' = manifest, top <= top',
           \A i \in 1..top : content'[i] = content[i],
           \A k \in 1..Len(Eff.segments) : Eff.segments[k].ino \in named',
           \A i \in 1..top : Frozen(i) /\ job'.m.swap => i # job'.m.next.ino
    PROVE  Calm /\ Eff' = Eff
  <1>1. Swapped(manifest)' = Swapped(manifest)
    BY DEF Swapped
  <1>2. Eff' = Eff
    BY <1>1 DEF Eff, Effective
  <1>3. ActiveStart' = ActiveStart
    BY <1>2 DEF ActiveStart, Eff
  <1>4. \A i : Frozen(i) => Frozen(i)'
    <2>1. top \in Nat /\ top' \in Nat
      BY DEF TypeOK, Inodes
    <2> QED BY <2>1 DEF Frozen
  <1> QED BY <1>1, <1>2, <1>3, <1>4 DEF Calm, ChainInv, ActiveInv

\* The manifest becomes its resolved form, or the first one.
LEMMA PreparedFacts ==
    ASSUME TypeOK, ChainInv
    PROVE  /\ Prepared \in Manifest /\ Prepared.managed
           /\ Prepared.segments = Eff.segments
           /\ Prepared.active.start = ActiveStart
           /\ Prepared.active.ino = bus
           /\ Prepared.active.old = NoIno
           /\ Prepared.swap => /\ ~Swapped(manifest) /\ Prepared = manifest
           /\ ~Swapped(Prepared)
           /\ Effective(Prepared) = Prepared
           /\ manifest.swap /\ ~Swapped(manifest) /\ manifest.managed =>
                Prepared = manifest
  <1>1. Prepared \in Manifest /\ Prepared.managed /\ Eff \in Manifest
    BY PreparedType
  <1>2. CASE manifest.managed
    <2>1. Prepared = Eff
      BY <1>2 DEF Prepared, Eff
    <2>2. CASE Swapped(manifest)
      <3>1. Eff = Completed(manifest)
        BY <2>2 DEF Eff, Effective
      <3>2. ~Eff.swap
        BY <3>1, CompletedType DEF TypeOK
      <3> QED BY <1>1, <1>2, <2>1, <2>2, <3>2
            DEF Swapped, Effective, ChainInv, ActiveInv, ActiveStart, Eff
    <2>3. CASE ~Swapped(manifest)
      <3>1. Eff = manifest
        BY <2>3 DEF Eff, Effective
      <3> QED BY <1>1, <1>2, <2>1, <2>3, <3>1
            DEF Effective, ChainInv, ActiveInv, ActiveStart, Eff
    <2> QED BY <2>2, <2>3
  <1>3. CASE ~manifest.managed
    <2>1. manifest = Unmanaged
      BY <1>3 DEF ChainInv, ActiveInv
    <2>2. Eff = Unmanaged
      BY <2>1 DEF Eff, Effective, Swapped, Unmanaged
    <2>3. ActiveStart = 0 /\ Eff.segments = <<>>
      BY <2>2 DEF ActiveStart, Eff, Unmanaged, Blank
    <2> DEFINE day == IF content[bus] = <<>> THEN today ELSE Undated
    <2>4. /\ new_segment(bus, 0, day).start = 0
          /\ new_segment(bus, 0, day).ino = bus
          /\ new_segment(bus, 0, day).old = NoIno
      <3>1. bus \in Nat /\ day \in 0..MaxDay
        BY BusAssumption DEF TypeOK, Inodes, Days
      <3> HIDE DEF day
      <3>2. 0 \in Nat
        OBVIOUS
      <3> QED BY <3>1, <3>2, NewSegmentType
    <2>5. Prepared = [Unmanaged EXCEPT !.managed = TRUE,
                                       !.active = new_segment(bus, 0, day)]
      BY <1>3 DEF Prepared
    <2>6. /\ Prepared.segments = <<>> /\ ~Prepared.swap
          /\ Prepared.active = new_segment(bus, 0, day)
      BY <2>5 DEF Unmanaged
    <2>7. ~Swapped(Prepared) /\ Effective(Prepared) = Prepared
      BY <2>6 DEF Swapped, Effective
    <2> QED BY <1>1, <1>3, <2>1, <2>3, <2>4, <2>6, <2>7
  <1> QED BY <1>2, <1>3

LEMMA CalmPrepared ==
    ASSUME TypeOK, TypeOK', ChainInv,
           bus' = bus, log' = log, manifest' = Prepared, top' = top,
           content' = content, named' = named,
           job'.m.swap => job'.m = Prepared
    PROVE  Calm /\ Eff' = Prepared /\ ~Swapped(manifest)'
  <1>1. ~Swapped(manifest)'
    BY PreparedFacts DEF Swapped
  <1>2. Eff' = Prepared
    BY <1>1 DEF Eff, Effective
  <1>3. ActiveStart' = ActiveStart
    BY <1>2, PreparedFacts DEF ActiveStart, Eff
  <1>4. \A i : Frozen(i) => Frozen(i)'
    BY PreparedFacts DEF Frozen
  <1>5. manifest.swap => manifest.managed
    BY DEF ChainInv, ActiveInv, Unmanaged
  <1>6. manifest.swap /\ ~Swapped(manifest) =>
         /\ manifest'.swap /\ ~Swapped(manifest)'
         /\ manifest'.next = manifest.next
         /\ manifest'.closed = manifest.closed
    BY <1>1, <1>5, PreparedFacts
  <1>7. \A k \in 1..Len(Eff.segments) : Eff.segments[k].ino \in named'
    BY DEF ChainInv, Closed
  <1> QED BY <1>1, <1>2, <1>3, <1>4, <1>6, <1>7, PreparedFacts DEF Calm

\* The archive threads keep what they hold.
LEMMA ArchKept ==
    ASSUME TypeOK, TypeOK', ArchInv,
           \A i : Frozen(i) => Frozen(i)',
           \A i : Frozen(i) => content'[i] = content[i],
           \A p \in Procs : arch'[p].at \in {"compress", "settle"} =>
             Frozen(arch'[p].ino),
           \A p \in Procs : arch'[p].at = "publish" =>
             /\ arch[p].at = "publish"
             /\ arch'[p].ino = arch[p].ino
             /\ arch'[p].stage = arch[p].stage
             /\ arch[p].stage \in named'
             /\ \A k \in 1..Len(Eff'.segments) :
                  /\ arch[p].stage # Eff'.segments[k].ino
                  /\ arch[p].stage # Eff'.segments[k].old
    PROVE  ArchInv'
  <1>1. \A p \in Procs : arch'[p].at \in {"compress", "publish", "settle"} =>
          Frozen(arch[p].ino)'
    BY DEF ArchInv
  <1>2. \A p \in Procs : arch'[p].at = "publish" =>
         /\ Frozen(arch[p].stage)'
         /\ arch'[p].stage \in named'
         /\ content'[arch'[p].stage] = content'[arch'[p].ino]
         /\ \A k \in 1..Len(Eff'.segments) :
              /\ arch'[p].stage # Eff'.segments[k].ino
              /\ arch'[p].stage # Eff'.segments[k].old
    BY DEF ArchInv
  <1>3. \A p, q \in Procs :
         p # q /\ arch'[p].at = "publish" /\ arch'[q].at = "publish" =>
           arch'[p].stage # arch'[q].stage
    BY DEF ArchInv
  <1> QED BY <1>1, <1>2, <1>3 DEF ArchInv

LEMMA CalmArch ==
    ASSUME TypeOK, TypeOK', ArchInv, Calm, named \subseteq named',
           \A p \in Procs : arch'[p].at \in {"compress", "settle"} =>
             Frozen(arch'[p].ino),
           \A p \in Procs : arch'[p].at = "publish" =>
             /\ arch[p].at = "publish"
             /\ arch'[p].ino = arch[p].ino
             /\ arch'[p].stage = arch[p].stage
    PROVE  ArchInv'
  <1>1. \A i : Frozen(i) => content'[i] = content[i]
    BY DEF Calm, Frozen
  <1>2. \A p \in Procs : arch[p].at = "publish" =>
             /\ arch[p].stage \in named'
             /\ \A k \in 1..Len(Eff'.segments) :
                  /\ arch[p].stage # Eff'.segments[k].ino
                  /\ arch[p].stage # Eff'.segments[k].old
    BY DEF ArchInv, Calm
  <1> QED BY <1>1, <1>2, ArchKept DEF Calm

LEMMA CalmReceipts ==
    ASSUME TypeOK, TypeOK', ReceiptInv, Calm, receipts' = receipts,
           synced[bus] <= synced'[bus]
    PROVE  ReceiptInv'
  <1>1. synced[bus] \in Nat /\ synced'[bus] \in Nat /\ ActiveStart \in Nat
    BY SegmentsType DEF TypeOK, Calm
  <1> QED BY <1>1 DEF ReceiptInv, Calm
-----------------------------------------------------------------------------
(* The steps of an appender that leave the stream as it is.                *)

LEMMA AppendCalm ==
    ASSUME IInv, TypeOK', NEW p \in Procs,
           \/ Acquire(p)     \/ PrepareAppend(p) \/ Stage(p)
           \/ StagePending(p) \/ WritePending(p) \/ WriteFinal(p)
           \/ SyncRow(p)     \/ PrepareFails(p)
           \/ PendingFails(p) \/ RenameFails(p)  \/ FinalFails(p)
           \/ SyncFails(p)
    PROVE  IInv'
  <1>0. TypeOK /\ Alloc /\ ChainInv /\ PhaseInv /\ ReceiptInv /\ ArchInv /\ ReadInv
    BY DEF IInv
  <1>n. \A k \in 1..Len(Eff.segments) : Eff.segments[k].ino \in named
    BY <1>0 DEF ChainInv, Closed
  <1>p. 0 \notin Procs /\ p # NoProc
    BY BusAssumption
  <1>u. ~Unmanaged.swap /\ NoJob.m = Unmanaged
    BY BlankTypes DEF Unmanaged
  <1>a. arch' = arch =>
          /\ \A q \in Procs : arch'[q].at \in {"compress", "settle"} =>
               Frozen(arch'[q].ino)
          /\ \A q \in Procs : arch'[q].at = "publish" =>
               /\ arch[q].at = "publish"
               /\ arch'[q].ino = arch[q].ino
               /\ arch'[q].stage = arch[q].stage
    BY <1>0 DEF ArchInv
  <1>z. ASSUME Calm, named \subseteq named', arch' = arch, rd' = rd,
               receipts' = receipts, synced[bus] <= synced'[bus],
               Alloc', PhaseInv'
        PROVE  IInv'
    <2>1. ChainInv'
      BY <1>0, <1>z, CalmChain
    <2>2. ReadInv'
      BY <1>0, <1>z, CalmReader
    <2>3. ArchInv'
      BY <1>0, <1>a, <1>z, CalmArch
    <2>4. ReceiptInv'
      BY <1>0, <1>z, CalmReceipts
    <2> QED BY <1>z, <2>1, <2>2, <2>3, <2>4 DEF IInv
  <1>y. synced[bus] <= synced[bus]
    BY <1>0 DEF TypeOK
  <1>c. ASSUME UNCHANGED disk, log' = log, job'.m = Unmanaged
        PROVE  Calm
    <2>1. /\ bus' = bus /\ manifest' = manifest /\ content' = content
          /\ named' = named /\ top' = top
      BY <1>c DEF disk
    <2>2. top <= top'
      BY <1>0, <2>1 DEF TypeOK, Inodes
    <2> QED BY <1>0, <1>c, <1>n, <1>u, <2>1, <2>2, CalmSame
  <1>1. CASE Acquire(p)
    <2>0. job'.m = Unmanaged /\ log' = log
      BY <1>1, <1>u DEF Acquire, NoJob, history
    <2>1. Calm
      BY <1>1, <1>c, <2>0 DEF Acquire
    <2>2. Alloc'
      BY <1>0, <1>1 DEF Acquire, disk, Alloc
    <2>3. PhaseInv'
      BY <1>0, <1>1, <1>p, <1>u DEF Acquire, disk, history, PhaseInv, Pinned, Swapped
    <2> QED BY <1>1, <1>y, <1>z, <2>1, <2>2, <2>3 DEF Acquire, disk, history
  <1>3. CASE PrepareAppend(p)
    <2>0. job'.m.swap => job'.m = Prepared
      BY <1>3, <1>u, <1>0 DEF PrepareAppend, Release, TypeOK, Job
    <2>1. Calm /\ Eff' = Prepared /\ ~Swapped(manifest)'
      BY <1>0, <1>3, <2>0, CalmPrepared DEF PrepareAppend, history
    <2>2. Alloc'
      BY <1>0, <1>3 DEF PrepareAppend, Alloc, TypeOK
    <2>3. PhaseInv'
      <3>1. manifest'.swap => Pinned(manifest)'
        BY <1>0, <1>3, PreparedFacts DEF PrepareAppend, PhaseInv, Pinned
      <3>2. manifest'.managed
        BY <1>0, <1>3, PreparedFacts DEF PrepareAppend
      <3>3. CASE Release
        BY <1>u, <3>1, <3>3 DEF PhaseInv, Release
      <3>4. CASE phase' \in {"write", "roll"} /\ job'.m = manifest' /\ holder' = p
                   /\ fd'[p] = bus'
        BY <1>p, <2>1, <3>1, <3>2, <3>4 DEF PhaseInv
      <3>5. phase' \in {"write", "roll"} => fd'[p] = bus'
        BY <1>0, <1>3 DEF PrepareAppend, TypeOK
      <3>6. Release \/ (phase' \in {"write", "roll"} /\ job'.m = manifest' /\ holder' = p)
        BY <1>0, <1>3 DEF PrepareAppend, TypeOK, Job
      <3> QED BY <3>3, <3>4, <3>5, <3>6
    <2> QED BY <1>3, <1>y, <1>z, <2>1, <2>2, <2>3 DEF PrepareAppend, history
  <1>4. CASE PrepareFails(p)
    <2>1. CASE manifest' = Prepared
      <3>1. Calm /\ Eff' = Prepared /\ ~Swapped(manifest)'
        BY <1>0, <1>4, <1>u, <2>1, CalmPrepared DEF PrepareFails, Release, history
      <3>2. Alloc'
        BY <1>0, <1>4 DEF PrepareFails, Alloc
      <3>3. PhaseInv'
        <4>1. manifest'.swap => Pinned(manifest)'
          BY <1>0, <1>4, <2>1, PreparedFacts DEF PrepareFails, PhaseInv, Pinned
        <4> QED BY <1>4, <1>u, <4>1 DEF PhaseInv, PrepareFails, Release
      <3> QED BY <1>4, <1>y, <1>z, <3>1, <3>2, <3>3 DEF PrepareFails, history
    <2>2. CASE manifest' = manifest
      <3>1. Calm
        BY <1>4, <1>c, <1>u, <2>2 DEF PrepareFails, Release, disk, history
      <3>2. Alloc'
        BY <1>0, <1>4 DEF PrepareFails, Alloc
      <3>3. PhaseInv'
        BY <1>0, <1>4, <1>u, <2>2 DEF PrepareFails, Release, PhaseInv, Pinned
      <3> QED BY <1>4, <1>y, <1>z, <3>1, <3>2, <3>3 DEF PrepareFails, history
    <2> QED BY <1>4, <2>1, <2>2 DEF PrepareFails
  <1>5. CASE RenameFails(p)
    <2>1. Calm
      BY <1>5, <1>c, <1>u DEF RenameFails, Release, history
    <2>2. Alloc'
      BY <1>0, <1>5 DEF RenameFails, disk, Alloc
    <2>3. PhaseInv'
      BY <1>0, <1>5, <1>u DEF RenameFails, Release, disk, history, PhaseInv, Pinned
    <2> QED BY <1>5, <1>y, <1>z, <2>1, <2>2, <2>3 DEF RenameFails, disk, history
  <1>6. CASE SyncFails(p)
    <2>1. Calm
      BY <1>6, <1>c, <1>u DEF SyncFails, Release, history
    <2>2. Alloc'
      BY <1>0, <1>6 DEF SyncFails, disk, Alloc
    <2>3. PhaseInv'
      BY <1>0, <1>6, <1>u DEF SyncFails, Release, disk, history, PhaseInv, Pinned
    <2> QED BY <1>6, <1>y, <1>z, <2>1, <2>2, <2>3 DEF SyncFails, disk, history
  <1>7. CASE Stage(p)
    <2>1. /\ job.m = manifest /\ manifest.managed /\ ~manifest.swap
          /\ ~Swapped(manifest)
      BY <1>0, <1>7 DEF Stage, PhaseInv
    <2>2. Eff = manifest
      BY <2>1 DEF Eff, Effective
    <2>3. /\ manifest.active.ino = bus /\ manifest.active.old = NoIno
          /\ manifest.active.start = ActiveStart
      BY <1>0, <2>1, <2>2 DEF ChainInv, ActiveInv, ActiveStart, Eff
    <2>4. /\ top \in Nat /\ bus \in Inodes /\ bus \in 1..top
          /\ top + 1 \in Inodes /\ top' = top + 1
          /\ content[bus] \in Seq(Nat) /\ Len(content[bus]) \in Nat
          /\ today \in 0..MaxDay
      <3>1. top \in 1..MaxIno /\ MaxIno \in Nat /\ bus \in 1..MaxIno /\ bus <= top
        BY <1>0, BusAssumption DEF TypeOK, Inodes, Alloc
      <3>2. content[bus] \in Seq(Nat)
        BY <1>0 DEF TypeOK
      <3>3. Len(content[bus]) \in Nat
        BY <3>2
      <3>4. today \in 0..MaxDay
        BY <1>0 DEF TypeOK, Days
      <3> QED BY <1>7, <3>1, <3>2, <3>3, <3>4 DEF Stage, Inodes
    <2>5. /\ ClosedNow \in Segment
          /\ ClosedNow.ino = bus
          /\ ClosedNow.start = manifest.active.start
          /\ ClosedNow.old = NoIno
          /\ ClosedNow.length = Len(content[bus])
      BY <1>0, <2>1, <2>3, <2>4, ClosedNowType
    <2> DEFINE nx == new_segment(top + 1, End(ClosedNow), today)
    <2>6. nx.ino = top + 1 /\ nx.start = End(ClosedNow) /\ nx.old = NoIno
      <3>1. End(ClosedNow) \in Nat /\ top + 1 \in Nat
        BY <2>4, <2>5, EndType
      <3> QED BY <2>4, <3>1, NewSegmentType DEF nx
    <2> HIDE DEF nx
    <2>7. /\ job'.m = [manifest EXCEPT !.swap = TRUE, !.closed = ClosedNow,
                                       !.next = nx]
          /\ job'.m.swap /\ job'.m.closed = ClosedNow /\ job'.m.next = nx
          /\ job'.m.active = manifest.active
      <3>1. job' = [job EXCEPT !.m.swap = TRUE, !.m.closed = ClosedNow,
                               !.m.next = nx]
        BY <1>7, <2>4 DEF Stage, nx
      <3> QED BY <1>0, <2>1, <3>1 DEF TypeOK, Job, Manifest
    <2>8. /\ bus' = bus /\ log' = log /\ manifest' = manifest
          /\ content' = content /\ named' = named \cup {bus, top + 1}
          /\ synced' = [synced EXCEPT ![bus] = Len(content[bus])]
          /\ holder' = p /\ phase' = "pend" /\ fd' = fd
      BY <1>7, <2>1, <2>3, <2>4 DEF Stage, history
    <2>9. Calm
      <3>1. top <= top'
        BY <2>4
      <3>2. \A i \in 1..top : Frozen(i) /\ job'.m.swap => i # job'.m.next.ino
        BY <2>4, <2>6, <2>7
      <3>3. \A k \in 1..Len(Eff.segments) : Eff.segments[k].ino \in named'
        BY <1>n, <2>8
      <3> QED BY <1>0, <2>8, <3>1, <3>2, <3>3, CalmSame
    <2>10. Alloc'
      <3>1. /\ named' \subseteq 1..top' /\ bus' <= top'
            /\ \A q \in Procs : fd'[q] <= top'
        BY <1>0, <2>4, <2>8 DEF Alloc, TypeOK, Inodes
      <3>2. \A i \in Inodes : i > top' => content'[i] = <<>>
        BY <1>0, <2>4, <2>8 DEF Alloc, Inodes
      <3>3. \A i \in Inodes : synced'[i] = IF i = bus THEN Len(content[bus]) ELSE synced[i]
        BY <1>0, <2>8 DEF TypeOK
      <3>4. bus \in Inodes /\ Len(content[bus]) <= Len(content[bus])
        BY <1>0 DEF TypeOK
      <3>5. /\ \A i \in Inodes : i # bus' => synced'[i] = Len(content'[i])
            /\ synced'[bus'] <= Len(content'[bus'])
        BY <1>0, <2>8, <3>3, <3>4 DEF Alloc
      <3> QED BY <3>1, <3>2, <3>5 DEF Alloc
    <2>11. PhaseInv'
      <3>1. Ready(job.m)'
        <4>1. content'[top + 1] = <<>>
          BY <1>0, <2>4, <2>8 DEF Alloc
        <4>2. synced'[bus] = Len(content[bus])
          BY <1>0, <2>4, <2>8 DEF TypeOK
        <4>3. Pinned(job.m)'
          BY <2>3, <2>4, <2>5, <2>6, <2>7 DEF Pinned
        <4>4. top + 1 # bus
          BY <2>4
        <4> QED BY <2>5, <2>6, <2>7, <2>8, <4>1, <4>2, <4>3, <4>4 DEF Ready
      <3> QED BY <1>0, <1>p, <2>1, <2>7, <2>8, <3>1 DEF PhaseInv
    <2>12. synced[bus] <= synced'[bus]
      BY <1>0, <2>4, <2>8 DEF Alloc, TypeOK
    <2> QED BY <1>7, <1>z, <2>8, <2>9, <2>10, <2>11, <2>12 DEF Stage, history
  <1>8. CASE StagePending(p)
    <2>1. /\ job.m = manifest /\ manifest.managed /\ manifest.swap
          /\ ~Swapped(manifest)
      BY <1>0, <1>8 DEF StagePending, PhaseInv
    <2>2. Eff = manifest
      BY <2>1 DEF Eff, Effective
    <2>3. /\ manifest.active.ino = bus
          /\ manifest.active.start = ActiveStart
      BY <1>0, <2>1, <2>2 DEF ChainInv, ActiveInv, ActiveStart, Eff
    <2>4. bus \in Inodes /\ content[bus] \in Seq(Nat) /\ Len(content[bus]) \in Nat
      <3>1. bus \in Inodes /\ content[bus] \in Seq(Nat)
        BY <1>0 DEF TypeOK
      <3> QED BY <3>1
    <2>5. /\ bus' = bus /\ log' = log /\ manifest' = manifest /\ top' = top
          /\ content' = content /\ named' = named
          /\ synced' = [synced EXCEPT ![bus] = Len(content[bus])]
          /\ fd' = fd
      BY <1>8, <2>1, <2>3 DEF StagePending, history
    <2>6. Calm
      <3>1. top <= top'
        BY <1>0, <2>5 DEF TypeOK, Inodes
      <3>2. job'.m.swap => job'.m = job.m
        BY <1>8, <1>u DEF StagePending, Release
      <3>3. \A i \in 1..top : Frozen(i) /\ job'.m.swap => i # job'.m.next.ino
        BY <2>1, <3>2 DEF Frozen
      <3> QED BY <1>0, <1>n, <2>5, <3>1, <3>3, CalmSame
    <2>7. Alloc'
      BY <1>0, <2>4, <2>5 DEF Alloc, TypeOK
    <2>8. PhaseInv'
      <3>1. CASE Release
        BY <1>0, <1>u, <2>5, <3>1 DEF Release, PhaseInv, Pinned
      <3>2. CASE PendingMatches /\ phase' = "rename" /\ UNCHANGED <<holder, job>>
        <4>1. Ready(manifest)
              \/ (/\ Pinned(manifest) /\ manifest.next.ino # bus
                  /\ manifest.closed.length = Len(content[bus])
                  /\ manifest.closed.ino \in named
                  /\ content[manifest.next.ino] = <<>>
                  /\ manifest.next.start = End(manifest.closed))
          <5>1. ClosedNow.length = Len(content[bus])
            BY <1>0, <2>1, <2>3, <2>4, ClosedNowType
          <5>2. Pinned(manifest) /\ manifest.next.ino # bus
            BY <1>0, <2>1 DEF PhaseInv, Swapped
          <5> QED BY <2>1, <3>2, <5>1, <5>2 DEF PendingMatches
        <4>2. synced'[bus] = Len(content[bus])
          BY <1>0, <2>4, <2>5 DEF TypeOK
        <4>3. Ready(manifest)'
          BY <2>5, <4>1, <4>2 DEF Ready, Pinned
        <4>4. Pinned(manifest)' /\ ~Swapped(manifest)'
          BY <2>1, <2>5, <4>3 DEF Ready, Swapped
        <4> QED BY <1>0, <1>8, <1>p, <2>1, <2>5, <3>2, <4>3, <4>4
              DEF PhaseInv, StagePending
      <3> QED BY <1>8, <3>1, <3>2 DEF StagePending
    <2>9. synced[bus] <= synced'[bus]
      BY <1>0, <2>4, <2>5 DEF Alloc, TypeOK
    <2> QED BY <1>8, <1>z, <2>5, <2>6, <2>7, <2>8, <2>9 DEF StagePending, history
  <1>x. ASSUME phase = "pend", manifest' = job.m, bus' = bus, log' = log,
               content' = content, named' = named, top' = top,
               synced' = synced, job'.m.swap => job'.m = job.m
        PROVE  Calm /\ ~Swapped(manifest)' /\ Ready(manifest)' /\ manifest'.swap
                 /\ manifest'.managed
    <2>1. /\ manifest.managed /\ ~manifest.swap /\ Ready(job.m)
          /\ job.m = [manifest EXCEPT !.swap = TRUE, !.closed = job.m.closed,
                                      !.next = job.m.next]
      BY <1>0, <1>x DEF PhaseInv
    <2>2. Eff = manifest
      BY <2>1 DEF Eff, Effective, Swapped
    <2>3. /\ manifest'.managed /\ manifest'.swap
          /\ manifest'.segments = manifest.segments
          /\ manifest'.active = manifest.active
      BY <1>0, <1>x, <2>1 DEF TypeOK, Manifest
    <2>4. ~Swapped(manifest)'
      BY <1>x, <2>1 DEF Swapped, Ready
    <2>5. Eff' = manifest'
      BY <2>4 DEF Eff, Effective
    <2>6. ActiveStart' = ActiveStart
      BY <2>2, <2>3, <2>5 DEF ActiveStart, Eff
    <2>7. \A i : Frozen(i) => Frozen(i)'
      BY <1>x, <2>3 DEF Frozen
    <2>8. Ready(manifest)'
      BY <1>x, <2>1 DEF Ready, Pinned
    <2>9. manifest.active.ino = bus /\ manifest.active.old = NoIno
      BY <1>0, <2>1, <2>2 DEF ChainInv, ActiveInv
    <2>10. Calm
      BY <1>n, <1>x, <2>1, <2>2, <2>3, <2>4, <2>5, <2>6, <2>7, <2>9 DEF Calm
    <2> QED BY <2>3, <2>4, <2>8, <2>10
  <1>9. CASE WritePending(p)
    <2>1. Calm /\ ~Swapped(manifest)' /\ Ready(manifest)' /\ manifest'.swap
            /\ manifest'.managed
      BY <1>9, <1>x DEF WritePending, history
    <2>2. Alloc'
      BY <1>0, <1>9 DEF WritePending, Alloc
    <2>3. PhaseInv'
      BY <1>0, <1>9, <1>p, <2>1 DEF WritePending, PhaseInv, Ready
    <2> QED BY <1>9, <1>y, <1>z, <2>1, <2>2, <2>3 DEF WritePending, history
  <1>10. CASE PendingFails(p)
    <2>0. Alloc'
      BY <1>0, <1>10 DEF PendingFails, Alloc
    <2>1. CASE manifest' = job.m
      <3>1. Calm /\ ~Swapped(manifest)' /\ Ready(manifest)' /\ manifest'.swap
        BY <1>10, <1>u, <1>x, <2>1 DEF PendingFails, Release, history
      <3>2. PhaseInv'
        BY <1>10, <1>u, <3>1 DEF PendingFails, Release, PhaseInv, Ready
      <3> QED BY <1>10, <1>y, <1>z, <2>0, <3>1, <3>2 DEF PendingFails, history
    <2>2. CASE manifest' = manifest
      <3>1. Calm
        BY <1>10, <1>c, <1>u, <2>2 DEF PendingFails, Release, history, disk
      <3>2. PhaseInv'
        BY <1>0, <1>10, <1>u, <2>2 DEF PendingFails, Release, PhaseInv, Pinned
      <3> QED BY <1>10, <1>y, <1>z, <2>0, <3>1, <3>2 DEF PendingFails, history
    <2> QED BY <1>10, <2>1, <2>2 DEF PendingFails
  <1>w. ASSUME phase = "final", manifest' = Completed(job.m), bus' = bus,
               log' = log, content' = content, named' = named, top' = top,
               ~job'.m.swap
        PROVE  Calm /\ ~manifest'.swap /\ manifest'.managed
                 /\ job.m.next.ino = bus
    <2>1. job.m = manifest /\ manifest.managed /\ Swapped(manifest)
      BY <1>0, <1>w DEF PhaseInv
    <2>2. Eff = manifest'
      BY <1>w, <2>1 DEF Eff, Effective
    <2>3. ~manifest'.swap /\ manifest'.managed
      BY <1>0, <1>w, <2>1, CompletedType DEF TypeOK
    <2>4. Eff' = Eff
      BY <2>2, <2>3 DEF Eff, Effective, Swapped
    <2>5. ActiveStart' = ActiveStart
      BY <2>4 DEF ActiveStart, Eff
    <2>6. \A i : Frozen(i) => Frozen(i)'
      BY <1>w, <2>3 DEF Frozen
    <2>7. Calm
      BY <1>0, <1>n, <1>w, <2>1, <2>3, <2>4, <2>5, <2>6 DEF Calm, ChainInv, ActiveInv
    <2> QED BY <2>1, <2>3, <2>7 DEF Swapped
  <1>11. CASE WriteFinal(p)
    <2>0. job'.m = Completed(job.m)
      BY <1>0, <1>11 DEF WriteFinal, TypeOK, Job
    <2>1. ~job'.m.swap
      BY <1>0, <2>0, CompletedType DEF TypeOK, Job
    <2>2. Calm /\ ~manifest'.swap /\ manifest'.managed /\ job.m.next.ino = bus
      BY <1>11, <1>w, <2>1 DEF WriteFinal, history
    <2>3. fd'[p] = bus /\ \A q \in Procs : q # p => fd'[q] = fd[q]
      BY <1>0, <1>11, <2>2 DEF WriteFinal, TypeOK
    <2>4. Alloc'
      BY <1>0, <1>11, <2>3 DEF WriteFinal, Alloc
    <2>5. PhaseInv'
      BY <1>11, <1>p, <2>0, <2>2, <2>3 DEF WriteFinal, PhaseInv, Swapped
    <2> QED BY <1>11, <1>y, <1>z, <2>2, <2>4, <2>5 DEF WriteFinal, history
  <1>12. CASE FinalFails(p)
    <2>0. /\ job.m.next.ino = bus /\ phase = "final" /\ manifest.swap
      BY <1>0, <1>12 DEF FinalFails, PhaseInv, Swapped
    <2>1. fd'[p] = bus /\ \A q \in Procs : q # p => fd'[q] = fd[q]
      BY <1>0, <1>12, <2>0 DEF FinalFails, TypeOK
    <2>2. Alloc'
      BY <1>0, <1>12, <2>1 DEF FinalFails, Alloc
    <2>3. CASE manifest' = Completed(job.m)
      <3>1. Calm /\ ~manifest'.swap
        BY <1>12, <1>u, <1>w, <2>0, <2>3 DEF FinalFails, Release, history
      <3>2. PhaseInv'
        BY <1>12, <1>u, <3>1 DEF FinalFails, Release, PhaseInv
      <3> QED BY <1>12, <1>y, <1>z, <2>2, <3>1, <3>2 DEF FinalFails, history
    <2>4. CASE manifest' = manifest
      <3>1. Calm
        BY <1>12, <1>c, <1>u, <2>4 DEF FinalFails, Release, history, disk
      <3>2. PhaseInv'
        BY <1>0, <1>12, <1>u, <2>4 DEF FinalFails, Release, PhaseInv, Pinned
      <3> QED BY <1>12, <1>y, <1>z, <2>2, <3>1, <3>2 DEF FinalFails, history
    <2> QED BY <1>12, <2>3, <2>4 DEF FinalFails
  <1>13. CASE SyncRow(p)
    <2>1. /\ fd[p] = bus /\ job.pos = Len(log) /\ log # <<>>
          /\ log[Len(log)] = rows
      BY <1>0, <1>13 DEF SyncRow, PhaseInv
    <2>2. /\ bus' = bus /\ log' = log /\ manifest' = manifest /\ top' = top
          /\ content' = content /\ named' = named /\ rd' = rd
          /\ synced' = [synced EXCEPT ![bus] = Len(content[bus])]
          /\ receipts' = receipts \cup {<<Len(log), rows>>}
          /\ fd' = fd /\ job'.m = Unmanaged
      BY <1>13, <1>u, <2>1 DEF SyncRow, Finish, Release
    <2>3. Calm
      <3>1. top <= top'
        BY <1>0, <2>2 DEF TypeOK, Inodes
      <3> QED BY <1>0, <1>n, <1>u, <2>2, <3>1, CalmSame
    <2>4. bus \in Inodes /\ content[bus] \in Seq(Nat) /\ log \in Seq(Nat)
            /\ synced'[bus] = Len(content[bus])
      BY <1>0, <2>2 DEF TypeOK
    <2>5. Alloc'
      BY <1>0, <2>2, <2>4 DEF Alloc, TypeOK
    <2>6. PhaseInv'
      BY <1>0, <1>13, <1>u, <2>2 DEF SyncRow, Finish, Release, PhaseInv, Pinned
    <2>7. PICK a \in schedule_archives(arch[p], job.done) :
            arch' = [arch EXCEPT ![p] = a]
      BY <1>13 DEF SyncRow, Finish
    <2>8. \A q \in Procs : arch'[q].at = arch[q].at /\ arch'[q].ino = arch[q].ino
                             /\ arch'[q].stage = arch[q].stage
      BY <1>0, <2>7, ScheduleType DEF TypeOK
    <2>9. ArchInv'
      <3>1. named \subseteq named'
        BY <2>2
      <3>2. \A q \in Procs : arch'[q].at \in {"compress", "settle"} =>
              Frozen(arch'[q].ino)
        BY <1>0, <2>8 DEF ArchInv
      <3> QED BY <1>0, <2>3, <2>8, <3>1, <3>2, CalmArch
    <2>10. ReceiptInv'
      <3>1. ActiveStart \in Nat /\ ActiveStart' = ActiveStart
        BY <1>0, <2>3, SegmentsType DEF Calm
      <3>2. ActiveStart + Len(content[bus]) = Len(log)
        BY <1>0 DEF ChainInv, ActiveInv
      <3>3. Len(log) \in 1..(ActiveStart' + synced'[bus'])
        BY <2>1, <2>2, <2>4, <3>1, <3>2
      <3>4. ASSUME NEW r \in receipts
            PROVE  r[1] \in 1..(ActiveStart' + synced'[bus']) /\ log'[r[1]] = r[2]
        <4>1. r[1] \in 1..(ActiveStart + synced[bus]) /\ log[r[1]] = r[2]
          BY <1>0 DEF ReceiptInv
        <4>2. synced[bus] \in Nat /\ synced[bus] <= synced'[bus']
          BY <1>0, <2>2, <2>4 DEF Alloc, TypeOK
        <4>3. synced'[bus'] \in Nat
          BY <2>2, <2>4
        <4> QED BY <2>2, <3>1, <4>1, <4>2, <4>3
      <3> QED BY <2>1, <2>2, <3>3, <3>4 DEF ReceiptInv
    <2>11. ChainInv' /\ ReadInv'
      BY <1>0, <2>2, <2>3, CalmChain, CalmReader
    <2> QED BY <2>5, <2>6, <2>9, <2>10, <2>11 DEF IInv
  <1> QED BY <1>1, <1>3, <1>4, <1>5, <1>6, <1>7, <1>8, <1>9, <1>10,
             <1>11, <1>12, <1>13
-----------------------------------------------------------------------------
(* A row, whole or torn, reaches the file at the Bus path.                 *)

Written(row) ==
    /\ content' = [content EXCEPT ![bus] = Append(content[bus], row)]
    /\ log' = Append(log, row)
    /\ bus' = bus /\ manifest' = manifest /\ named' = named /\ top' = top
    /\ synced' = synced /\ rd' = rd /\ receipts' = receipts
    /\ job'.m = job.m \/ job'.m = Unmanaged
    /\ \A p \in Procs : fd'[p] \in {fd[p], NoIno}
    /\ \A p \in Procs : \/ /\ arch'[p].at = arch[p].at
                           /\ arch'[p].ino = arch[p].ino
                           /\ arch'[p].stage = arch[p].stage
                        \/ arch'[p].at = "loop"

LEMMA WrittenKeeps ==
    ASSUME IInv, TypeOK', NEW row \in Nat, Written(row)
    PROVE  /\ Alloc' /\ ChainInv' /\ ReceiptInv' /\ ArchInv' /\ ReadInv'
           /\ Eff' = Eff /\ ActiveStart' = ActiveStart
           /\ Swapped(manifest)' = Swapped(manifest)
           /\ Len(log') = ActiveStart + Len(content[bus]) + 1
           /\ log'[Len(log')] = row
  <1>0. TypeOK /\ Alloc /\ ChainInv /\ PhaseInv /\ ReceiptInv /\ ArchInv /\ ReadInv
    BY DEF IInv
  <1>1. /\ bus \in Inodes /\ content[bus] \in Seq(Nat) /\ log \in Seq(Nat)
        /\ content \in [Inodes -> Seq(Nat)]
    BY <1>0 DEF TypeOK
  <1>2. Eff' = Eff /\ Swapped(manifest)' = Swapped(manifest)
    BY DEF Eff, Effective, Swapped, Written
  <1>3. ActiveStart' = ActiveStart
    BY <1>2 DEF ActiveStart, Eff
  <1>4. /\ content'[bus] = Append(content[bus], row)
        /\ \A i \in Inodes : i # bus => content'[i] = content[i]
    BY <1>1 DEF Written
  <1>5. /\ Len(content'[bus]) = Len(content[bus]) + 1
        /\ content'[bus][Len(content[bus]) + 1] = row
        /\ \A n \in 1..Len(content[bus]) : content'[bus][n] = content[bus][n]
    BY <1>1, <1>4
  <1>6. /\ Len(log') = Len(log) + 1 /\ log'[Len(log) + 1] = row
        /\ \A n \in 1..Len(log) : log'[n] = log[n]
    BY <1>1 DEF Written
  <1>7. ActiveStart + Len(content[bus]) = Len(log) /\ ActiveStart \in Nat
          /\ Len(content[bus]) \in Nat /\ Len(log) \in Nat
    BY <1>0, <1>1, SegmentsType DEF ChainInv, ActiveInv
  <1>8. \A i : Frozen(i) => Frozen(i)'
    BY DEF Frozen, Written, Unmanaged
  <1>9. \A i : Frozen(i) => content'[i] = content[i]
    <2>1. top \in 1..MaxIno
      BY <1>0 DEF TypeOK, Inodes
    <2>2. MaxIno \in Nat
      BY BusAssumption
    <2>3. \A i : Frozen(i) => i \in Inodes /\ i # bus
      BY <2>1, <2>2 DEF Frozen, Inodes
    <2> QED BY <1>4, <2>3
  <1>10. \A s \in Segment : Holds(s) => Holds(s)'
    <2>1. Len(log) <= Len(log')
      BY <1>6, <1>7
    <2> QED BY <1>0, <1>6, <1>8, <1>9, <2>1, HoldsKept
  <1>11. Alloc'
    <2>1. /\ named' \subseteq 1..top' /\ bus' <= top'
          /\ \A p \in Procs : fd'[p] <= top'
      <3>1. top \in Nat /\ \A p \in Procs : fd[p] <= top
        BY <1>0 DEF Alloc, TypeOK, Inodes
      <3> QED BY <1>0, <3>1 DEF Alloc, Written
    <2>2. \A i \in Inodes : i > top' => content'[i] = <<>>
      <3>1. bus <= top /\ bus \in Nat /\ top \in Nat
        BY <1>0 DEF Alloc, TypeOK, Inodes
      <3>2. \A i \in Inodes : i > top => i # bus
        BY <3>1 DEF Inodes
      <3> QED BY <1>0, <1>4, <3>2 DEF Alloc, Written
    <2>3. \A i \in Inodes : i # bus' => synced'[i] = Len(content'[i])
      BY <1>0, <1>4 DEF Alloc, Written
    <2>4. synced'[bus'] <= Len(content'[bus'])
      BY <1>0, <1>5, <1>7 DEF Alloc, Written, TypeOK
    <2> QED BY <2>1, <2>2, <2>3, <2>4 DEF Alloc
  <1>12. ChainInv'
    <2>1. \A i \in 1..Len(content'[bus]) : content'[bus][i] = log'[ActiveStart + i]
      <3> SUFFICES ASSUME NEW i \in 1..Len(content'[bus])
                   PROVE  content'[bus][i] = log'[ActiveStart + i]
        OBVIOUS
      <3>1. CASE i \in 1..Len(content[bus])
        <4>1. content[bus][i] = log[ActiveStart + i]
          BY <1>0, <3>1 DEF ChainInv, ActiveInv
        <4>2. ActiveStart + i \in 1..Len(log)
          BY <1>7, <3>1
        <4> QED BY <1>5, <1>6, <3>1, <4>1, <4>2
      <3>2. CASE i = Len(content[bus]) + 1
        <4>1. ActiveStart + i = Len(log) + 1
          BY <1>7, <3>2
        <4> QED BY <1>5, <1>6, <3>2, <4>1
      <3> QED BY <1>5, <1>7, <3>1, <3>2
    <2>2. ActiveInv'
      <3>1. ActiveStart' + Len(content'[bus']) = Len(log')
        BY <1>3, <1>5, <1>6, <1>7 DEF Written
      <3>2. /\ ~manifest'.managed => manifest' = Unmanaged
            /\ manifest'.managed => Eff'.active.ino = bus'
            /\ Eff'.active.old = NoIno
        BY <1>0, <1>2 DEF ChainInv, ActiveInv, Written
      <3> QED BY <1>3, <2>1, <3>1, <3>2 DEF ActiveInv, Written
    <2>3. Contiguous'
      BY <1>0, <1>2, <1>3 DEF ChainInv, Contiguous
    <2>4. Distinct'
      BY <1>0, <1>2 DEF ChainInv, Distinct
    <2>5. ASSUME NEW k \in 1..Len(Eff.segments) PROVE Closed(Eff.segments[k])'
      <3>1. Eff.segments[k] \in Segment /\ Closed(Eff.segments[k])
        BY <1>0, SegmentsType DEF ChainInv
      <3>2. Holds(Eff.segments[k])'
        BY <1>2, <1>10, <3>1 DEF Closed
      <3> QED BY <1>2, <1>3, <1>8, <3>1, <3>2 DEF Closed, End, Written
    <2>6. \A k \in 1..Len(Eff'.segments) : Closed(Eff.segments[k])'
      BY <1>2, <2>5
    <2> QED BY <2>2, <2>3, <2>4, <2>6 DEF ChainInv
  <1>13. ReceiptInv'
    <2> SUFFICES ASSUME NEW r \in receipts
                 PROVE  r[1] \in 1..(ActiveStart' + synced'[bus'])
                          /\ log'[r[1]] = r[2]
      BY DEF ReceiptInv, Written
    <2>1. r[1] \in 1..(ActiveStart + synced[bus]) /\ log[r[1]] = r[2]
      BY <1>0 DEF ReceiptInv
    <2>2. synced[bus] \in Nat /\ synced[bus] <= Len(content[bus])
      BY <1>0 DEF Alloc, TypeOK
    <2>3. r[1] \in 1..Len(log)
      BY <1>7, <2>1, <2>2
    <2> QED BY <1>3, <1>6, <2>1, <2>3 DEF Written
  <1>14. ArchInv'
    <2>1. \A p \in Procs : arch'[p].at \in {"compress", "settle"} =>
            Frozen(arch'[p].ino)
      BY <1>0 DEF ArchInv, Written
    <2>2. \A p \in Procs : arch'[p].at = "publish" =>
             /\ arch[p].at = "publish"
             /\ arch'[p].ino = arch[p].ino
             /\ arch'[p].stage = arch[p].stage
             /\ arch[p].stage \in named'
             /\ \A k \in 1..Len(Eff'.segments) :
                  /\ arch[p].stage # Eff'.segments[k].ino
                  /\ arch[p].stage # Eff'.segments[k].old
      BY <1>0, <1>2 DEF ArchInv, Written
    <2> QED BY <1>0, <1>8, <1>9, <2>1, <2>2, ArchKept
  <1>15. ReadInv'
    <2>1. \A s : WasActive(s) => WasActive(s)'
      BY <1>3, <1>8 DEF WasActive, Written
    <2>2. rd.m \in Manifest /\ rd.segs \in Seq(Segment) /\ rd.length \in Nat
      BY <1>0 DEF TypeOK, ReaderState
    <2>3. rd.m.segments \in Seq(Segment) /\ rd.m.closed \in Segment
      BY <2>2 DEF Manifest
    <2>4. rd.at \in {"check", "recheck", "stat"} =>
            /\ \A k \in 1..Len(rd.m.segments) : Holds(rd.m.segments[k])'
            /\ WasActive(rd.m.active)'
      <3> SUFFICES ASSUME rd.at \in {"check", "recheck", "stat"}
                   PROVE  /\ \A k \in 1..Len(rd.m.segments) : Holds(rd.m.segments[k])'
                          /\ WasActive(rd.m.active)'
        OBVIOUS
      <3>1. WasActive(rd.m.active)'
        BY <1>0, <2>1 DEF ReadInv, Written
      <3>2. \A k \in 1..Len(rd.m.segments) :
              rd.m.segments[k] \in Segment /\ Holds(rd.m.segments[k])
        BY <1>0, <2>3 DEF ReadInv
      <3> QED BY <1>10, <3>1, <3>2 DEF Written
    <2>5. rd.at \in {"check", "recheck"} /\ rd.m.swap =>
            \/ Frozen(rd.m.next.ino)'
            \/ /\ bus' = rd.m.next.ino
               /\ Holds(rd.m.closed)'
               /\ rd.m.next.start = ActiveStart'
            \/ /\ manifest'.swap /\ ~Swapped(manifest)'
               /\ rd.m.next = manifest'.next /\ rd.m.closed = manifest'.closed
      BY <1>0, <1>2, <1>3, <1>8, <1>10, <2>3 DEF ReadInv, Written
    <2>6. rd.segs # <<>> =>
            /\ rd.length <= Len(log')
            /\ \A k \in 1..(Len(rd.segs) - 1) : Holds(rd.segs[k])'
            /\ WasActive(rd.segs[Len(rd.segs)])'
      <3> SUFFICES ASSUME rd.segs # <<>>
                   PROVE  /\ rd.length <= Len(log')
                          /\ \A k \in 1..(Len(rd.segs) - 1) : Holds(rd.segs[k])'
                          /\ WasActive(rd.segs[Len(rd.segs)])'
        OBVIOUS
      <3>1. rd.length <= Len(log')
        BY <1>0, <1>6, <1>7, <2>2 DEF ReadInv
      <3>2. WasActive(rd.segs[Len(rd.segs)])'
        BY <1>0, <2>1 DEF ReadInv, Written
      <3>3. \A k \in 1..(Len(rd.segs) - 1) : rd.segs[k] \in Segment /\ Holds(rd.segs[k])
        BY <1>0, <2>2 DEF ReadInv
      <3> QED BY <1>10, <3>1, <3>2, <3>3 DEF Written
    <2> QED BY <1>0, <2>4, <2>5, <2>6 DEF ReadInv, Written
  <1> QED BY <1>2, <1>3, <1>6, <1>7, <1>11, <1>12, <1>13, <1>14, <1>15

LEMMA WritesRow ==
    ASSUME IInv, TypeOK', NEW p \in Procs,
           WriteRow(p) \/ WriteTears(p) \/ Die(p)
    PROVE  IInv'
  <1>0. TypeOK /\ Alloc /\ ChainInv /\ PhaseInv /\ ReceiptInv /\ ArchInv /\ ReadInv
    BY DEF IInv
  <1>p. 0 \notin Procs /\ p # NoProc
    BY BusAssumption
  <1>u. ~Unmanaged.swap /\ NoJob.m = Unmanaged
    BY BlankTypes DEF Unmanaged
  <1>i. Idle.at = "loop"
    BY DEF Idle
  <1>1. CASE WriteRow(p)
    <2>0. fd[p] = bus /\ job.m = manifest /\ ~Swapped(manifest) /\ manifest.managed
      BY <1>0, <1>1 DEF WriteRow, PhaseInv
    <2>r. rows + 1 \in Nat
      BY <1>0 DEF TypeOK
    <2>1. \A q \in Procs : /\ arch'[q].at = arch[q].at
                           /\ arch'[q].ino = arch[q].ino
                           /\ arch'[q].stage = arch[q].stage
      <3>1. CASE arch' = arch
        BY <3>1
      <3>2. CASE Finish(p)
        <4>1. PICK a \in schedule_archives(arch[p], job.done) :
                arch' = [arch EXCEPT ![p] = a]
          BY <3>2 DEF Finish
        <4> QED BY <1>0, <4>1, ScheduleType DEF TypeOK
      <3> QED BY <1>1, <3>1, <3>2 DEF WriteRow
    <2>2. job'.m = job.m \/ job'.m = Unmanaged
      BY <1>0, <1>1, <1>u DEF WriteRow, Finish, Release, TypeOK, Job
    <2>3. Written(rows + 1)
      BY <1>1, <2>0, <2>1, <2>2 DEF Written, WriteRow, AppendRow
    <2>4. /\ Alloc' /\ ChainInv' /\ ReceiptInv' /\ ArchInv' /\ ReadInv'
          /\ Eff' = Eff /\ ActiveStart' = ActiveStart
          /\ Swapped(manifest)' = Swapped(manifest)
          /\ Len(log') = ActiveStart + Len(content[bus]) + 1
          /\ log'[Len(log')] = rows + 1
      BY <2>r, <2>3, WrittenKeeps
    <2>5. manifest'.swap => Pinned(manifest)'
      BY <1>0, <2>3 DEF PhaseInv, Pinned, Written
    <2>6. PhaseInv'
      <3>1. CASE Release
        BY <1>u, <2>5, <3>1 DEF Release, PhaseInv
      <3>2. CASE /\ phase' = "sync" /\ holder' = holder
                 /\ job' = [job EXCEPT !.pos = job.m.active.start
                                                 + Len(content[fd[p]]) + 1]
        <4>1. job'.m = manifest' /\ manifest'.managed /\ fd' = fd /\ bus' = bus
          BY <1>0, <1>1, <2>0, <3>2 DEF WriteRow, TypeOK, Job
        <4>2. job.m.active.start = ActiveStart
          BY <2>0 DEF ActiveStart, Effective
        <4>3. job'.pos = Len(log')
          BY <1>0, <2>0, <2>4, <3>2, <4>2 DEF TypeOK, Job
        <4>4. rows' = rows + 1 /\ log' # <<>>
          <5>1. rows' = rows + 1 /\ log' = Append(log, rows + 1)
            BY <1>1 DEF WriteRow, AppendRow
          <5>2. log \in Seq(Nat)
            BY <1>0 DEF TypeOK
          <5> QED BY <2>r, <5>1, <5>2
        <4>5. holder' = p
          BY <1>1, <3>2 DEF WriteRow
        <4> QED BY <1>p, <2>0, <2>4, <2>5, <3>2, <4>1, <4>3, <4>4, <4>5 DEF PhaseInv
      <3> QED BY <1>1, <3>1, <3>2 DEF WriteRow, Finish
    <2> QED BY <2>4, <2>6 DEF IInv
  <1>2. CASE WriteTears(p)
    <2>0. fd[p] = bus
      BY <1>0, <1>2 DEF WriteTears, PhaseInv
    <2>1. Written(Torn)
      BY <1>2, <1>u, <2>0 DEF Written, WriteTears, AppendRow, Release
    <2>2. /\ Alloc' /\ ChainInv' /\ ReceiptInv' /\ ArchInv' /\ ReadInv'
      BY <2>1, WrittenKeeps
    <2>3. manifest'.swap => Pinned(manifest)'
      BY <1>0, <2>1 DEF PhaseInv, Pinned, Written
    <2>4. PhaseInv'
      BY <1>2, <1>u, <2>3 DEF WriteTears, Release, PhaseInv
    <2> QED BY <2>2, <2>4 DEF IInv
  <1>3. CASE Die(p)
    <2>f. \A q \in Procs : fd'[q] \in {fd[q], NoIno}
      BY <1>0, <1>3 DEF Die, TypeOK
    <2>g. \A q \in Procs : arch'[q] = arch[q] \/ arch'[q] = Idle
      BY <1>0, <1>3 DEF Die, TypeOK
    <2>j. job'.m = job.m \/ job'.m = Unmanaged
      BY <1>3, <1>u DEF Die, Release
    <2>s. manifest'.swap => Pinned(manifest)'
      BY <1>0, <1>3 DEF PhaseInv, Pinned, Die
    <2>1. CASE holder = p /\ phase = "write" /\ AppendRow(p, Torn)
      <3>0. fd[p] = bus
        BY <1>0, <2>1 DEF PhaseInv
      <3>1. Written(Torn)
        BY <1>3, <1>i, <2>1, <2>f, <2>g, <2>j, <3>0 DEF Written, Die, AppendRow
      <3>2. Alloc' /\ ChainInv' /\ ReceiptInv' /\ ArchInv' /\ ReadInv'
        BY <3>1, WrittenKeeps
      <3>3. PhaseInv'
        BY <1>3, <1>u, <2>1, <2>s DEF Die, Release, PhaseInv
      <3> QED BY <3>2, <3>3 DEF IInv
    <2>2. CASE UNCHANGED <<content, log, rows>>
      <3>0. /\ bus' = bus /\ log' = log /\ manifest' = manifest /\ top' = top
            /\ content' = content /\ named' = named /\ synced' = synced
            /\ rd' = rd /\ receipts' = receipts /\ rows' = rows
        BY <1>3, <2>2 DEF Die
      <3>1. Calm
        <4>1. top <= top'
          BY <1>0, <3>0 DEF TypeOK, Inodes
        <4>2. \A i \in 1..top : Frozen(i) /\ job'.m.swap => i # job'.m.next.ino
          BY <1>u, <2>j DEF Frozen
        <4>3. \A k \in 1..Len(Eff.segments) : Eff.segments[k].ino \in named
          BY <1>0 DEF ChainInv, Closed
        <4> QED BY <1>0, <3>0, <4>1, <4>2, <4>3, CalmSame
      <3>2. ChainInv' /\ ReadInv'
        BY <1>0, <3>0, <3>1, CalmChain, CalmReader
      <3>3. ReceiptInv'
        <4>1. synced[bus] <= synced'[bus]
          BY <1>0, <3>0 DEF TypeOK
        <4> QED BY <1>0, <3>0, <3>1, <4>1, CalmReceipts
      <3>4. ArchInv'
        <4>1. \A q \in Procs : arch'[q].at \in {"compress", "settle"} =>
                Frozen(arch'[q].ino)
          BY <1>0, <1>i, <2>g DEF ArchInv
        <4>2. \A q \in Procs : arch'[q].at = "publish" =>
               /\ arch[q].at = "publish"
               /\ arch'[q].ino = arch[q].ino
               /\ arch'[q].stage = arch[q].stage
          BY <1>i, <2>g
        <4>3. named \subseteq named'
          BY <3>0
        <4> QED BY <1>0, <3>1, <4>1, <4>2, <4>3, CalmArch
      <3>5. Alloc'
        <4>1. \A q \in Procs : fd'[q] <= top'
          BY <1>0, <2>f, <3>0, SMTT(20) DEF Alloc, TypeOK, Inodes
        <4> QED BY <1>0, <3>0, <4>1 DEF Alloc
      <3>6. PhaseInv'
        <4>1. CASE holder = p
          BY <1>3, <1>u, <2>s, <4>1 DEF Die, Release, PhaseInv
        <4>2. CASE holder # p
          <5>1. UNCHANGED <<holder, phase, job>>
            BY <1>3, <4>2 DEF Die
          <5>2. phase \in {"write", "sync"} => fd'[holder] = fd[holder]
            BY <1>0, <1>3, <4>2 DEF Die, TypeOK, PhaseInv
          <5>3. Swapped(manifest)' = Swapped(manifest)
            BY <3>0 DEF Swapped
          <5>4. Ready(job.m)' = Ready(job.m) /\ Ready(manifest)' = Ready(manifest)
            BY <3>0, <5>1 DEF Ready, Pinned
          <5> QED BY <1>0, <2>s, <3>0, <5>1, <5>2, <5>3, <5>4 DEF PhaseInv
        <4> QED BY <4>1, <4>2
      <3> QED BY <3>2, <3>3, <3>4, <3>5, <3>6 DEF IInv
    <2> QED BY <1>3, <2>1, <2>2 DEF Die
  <1> QED BY <1>1, <1>2, <1>3
-----------------------------------------------------------------------------
(* The swap: the replacement takes the Bus path and the file that was      *)
(* there becomes the last closed segment of the chain.                     *)

LEMMA Renames ==
    ASSUME IInv, TypeOK', NEW p \in Procs, RenameNext(p)
    PROVE  /\ IInv'
           /\ Eff'.segments = Append(Eff.segments, manifest.closed)
           /\ ActiveStart' = Len(log)
  <1>0. TypeOK /\ Alloc /\ ChainInv /\ PhaseInv /\ ReceiptInv /\ ArchInv /\ ReadInv
    BY DEF IInv
  <1>j. PICK j : j = manifest.next.ino
    OBVIOUS
  <1>c. PICK c : c = manifest.closed
    OBVIOUS
  <1>b. PICK b : b = bus
    OBVIOUS
  <1> USE <1>j, <1>c
  <1>1. /\ job.m = manifest /\ manifest.managed /\ ~Swapped(manifest)
        /\ manifest.swap /\ Ready(manifest) /\ Pinned(manifest)
    BY <1>0 DEF RenameNext, PhaseInv
  <1>2. /\ bus' = j /\ named' = named \ {j} /\ content' = content
        /\ synced' = synced /\ top' = top /\ manifest' = manifest
        /\ job' = job /\ arch' = arch /\ rd' = rd /\ log' = log
        /\ receipts' = receipts /\ fd' = fd /\ holder' = holder
        /\ phase' = "final" /\ phase = "rename"
    BY <1>1 DEF RenameNext, history
  <1>3. Eff = manifest
    BY <1>1 DEF Eff, Effective
  <1>4. /\ manifest.active.ino = bus /\ manifest.active.start = ActiveStart
        /\ ActiveStart + Len(content[bus]) = Len(log)
        /\ \A i \in 1..Len(content[bus]) : content[bus][i] = log[ActiveStart + i]
    BY <1>0, <1>1, <1>3 DEF ChainInv, ActiveInv, ActiveStart, Eff
  <1>5. /\ c.ino = bus /\ c.start = ActiveStart /\ c.old = NoIno
        /\ j \in 1..top /\ j # bus /\ manifest.next.old = NoIno
        /\ c.length = Len(content[bus]) /\ bus \in named
        /\ content[j] = <<>> /\ manifest.next.start = End(c)
        /\ synced[bus] = Len(content[bus])
    BY <1>1, <1>4 DEF Ready, Pinned
  <1>6. /\ top \in Nat /\ bus \in 1..top /\ bus \in Inodes /\ j \in Inodes
        /\ content[bus] \in Seq(Nat) /\ Len(content[bus]) \in Nat
        /\ ActiveStart \in Nat /\ Len(log) \in Nat /\ c \in Segment
    <2>1. top \in 1..MaxIno /\ bus \in 1..MaxIno /\ bus <= top /\ MaxIno \in Nat
      BY <1>0, BusAssumption DEF TypeOK, Inodes, Alloc
    <2>2. content[bus] \in Seq(Nat) /\ log \in Seq(Nat) /\ c \in Segment
      BY <1>0 DEF TypeOK, Manifest
    <2>3. Len(content[bus]) \in Nat /\ Len(log) \in Nat /\ ActiveStart \in Nat
      BY <1>0, <2>2, SegmentsType
    <2> QED BY <1>5, <2>1, <2>2, <2>3 DEF Inodes
  <1>7. End(c) = Len(log)
    BY <1>4, <1>5, <1>6 DEF End
  <1>8. Swapped(manifest)'
    BY <1>1, <1>2 DEF Swapped
  <1>9. Eff' = Completed(manifest)
    BY <1>2, <1>8 DEF Eff, Effective, Completed
  <1>10. /\ Eff'.segments = Append(manifest.segments, c)
         /\ Eff'.active = manifest.next
    BY <1>0, <1>9, CompletedType DEF TypeOK
  <1>11. ActiveStart' = Len(log)
    BY <1>5, <1>7, <1>10 DEF ActiveStart, Eff
  <1>12. ActiveStart <= ActiveStart'
    BY <1>4, <1>6, <1>11
  <1>13. (\A i : Frozen(i) => Frozen(i)') /\ Frozen(b)'
    BY <1>1, <1>2, <1>5, <1>6, <1>b DEF Frozen
  <1>14. \A s \in Segment : Holds(s) => Holds(s)'
    <2>1. /\ \A i : Frozen(i) => content'[i] = content[i]
          /\ Len(log) <= Len(log')
          /\ \A n \in 1..Len(log) : log'[n] = log[n]
      BY <1>2, <1>6
    <2> QED BY <1>0, <1>13, <2>1, HoldsKept
  <1>15. Holds(c)'
    <2>1. Frozen(c.ino)'
      BY <1>5, <1>13, <1>b
    <2> QED BY <1>2, <1>4, <1>5, <1>6, <1>7, <2>1 DEF Holds, End
  <1>s. /\ manifest.segments \in Seq(Segment)
        /\ \A k \in 1..Len(manifest.segments) :
             /\ manifest.segments[k] \in Segment
             /\ Closed(manifest.segments[k])
    BY <1>0, <1>3, SegmentsType DEF ChainInv
  <1>d. PICK t : t = manifest.segments
    OBVIOUS
  <1> USE <1>d
  <1> DEFINE u == Append(t, c)
  <1>u. /\ Len(t) \in Nat /\ Len(u) = Len(t) + 1 /\ u[Len(t) + 1] = c
        /\ \A k \in 1..Len(t) : u[k] = t[k]
        /\ u # <<>>
    BY <1>6, <1>s
  <1>t. \A k \in 1..Len(u) : k \in 1..Len(t) \/ k = Len(t) + 1
    BY <1>u
  <1>v. \A k \in 1..Len(t) : /\ t[k].ino \in 1..top /\ t[k].ino # bus
                             /\ t[k].ino # j /\ t[k].old # bus
    <2>1. \A k \in 1..Len(t) : Frozen(t[k].ino) /\ (t[k].old # NoIno => Frozen(t[k].old))
      BY <1>s DEF Closed, Holds
    <2> QED BY <1>1, <1>6, <2>1 DEF Frozen
  <1>w. \A k \in 1..Len(t) : t[k].start \in Nat /\ t[k].length \in Nat
                             /\ End(t[k]) \in Nat /\ End(t[k]) <= ActiveStart
    BY <1>s, EndType DEF Segment, Closed
  <1> HIDE DEF u
  <1>e. Eff.segments = t /\ Eff'.segments = u
    BY <1>3, <1>10 DEF u
  <1>16. ActiveInv'
    <2>1. content'[bus'] = <<>> /\ Len(content'[bus']) = 0
      BY <1>2, <1>5
    <2>2. manifest'.managed /\ Eff'.active.ino = bus' /\ Eff'.active.old = NoIno
      BY <1>1, <1>2, <1>5, <1>10
    <2>3. ActiveStart' + Len(content'[bus']) = Len(log')
      BY <1>2, <1>6, <1>11, <2>1
    <2> QED BY <2>1, <2>2, <2>3 DEF ActiveInv
  <1>17. Contiguous'
    <2>1. ActiveStart' = IF u = <<>> THEN 0 ELSE End(u[Len(u)])
      BY <1>7, <1>11, <1>u
    <2>2. \A k \in 1..Len(u) : u[k].start = IF k = 1 THEN 0 ELSE End(u[k - 1])
      <3> SUFFICES ASSUME NEW k \in 1..Len(u)
                   PROVE  u[k].start = IF k = 1 THEN 0 ELSE End(u[k - 1])
        OBVIOUS
      <3>1. CASE k \in 1..Len(t)
        <4>1. t[k].start = IF k = 1 THEN 0 ELSE End(t[k - 1])
          BY <1>0, <1>e, <3>1 DEF ChainInv, Contiguous
        <4>2. k # 1 => k - 1 \in 1..Len(t)
          BY <1>u, <3>1
        <4> QED BY <1>u, <3>1, <4>1, <4>2
      <3>2. CASE k = Len(t) + 1
        <4>1. ActiveStart = IF t = <<>> THEN 0 ELSE End(t[Len(t)])
          BY <1>0, <1>e DEF ChainInv, Contiguous
        <4>2. t = <<>> <=> Len(t) = 0
          BY <1>s
        <4>3. Len(t) # 0 => Len(t) \in 1..Len(t) /\ k - 1 = Len(t) /\ k # 1
          BY <1>u, <3>2
        <4> QED BY <1>5, <1>u, <3>2, <4>1, <4>2, <4>3
      <3> QED BY <1>t, <3>1, <3>2
    <2>3. \A n \in 1..ActiveStart' : \E k \in 1..Len(u) :
            u[k].start < n /\ n <= End(u[k])
      <3> SUFFICES ASSUME NEW n \in 1..ActiveStart'
                   PROVE  \E k \in 1..Len(u) : u[k].start < n /\ n <= End(u[k])
        OBVIOUS
      <3>1. CASE n \in 1..ActiveStart
        <4>1. PICK k \in 1..Len(t) : t[k].start < n /\ n <= End(t[k])
          BY <1>0, <1>e, <3>1 DEF ChainInv, Contiguous
        <4>2. k \in 1..Len(u) /\ u[k] = t[k]
          BY <1>u
        <4> QED BY <4>1, <4>2
      <3>2. CASE n > ActiveStart
        <4>1. Len(u) \in 1..Len(u) /\ u[Len(u)] = c
          BY <1>u
        <4> QED BY <1>5, <1>6, <1>7, <1>11, <3>2, <4>1
      <3> QED BY <1>6, <1>11, <3>1, <3>2
    <2> QED BY <1>e, <2>1, <2>2, <2>3 DEF Contiguous
  <1>18. Distinct'
    <2>1. \A k, l \in 1..Len(t) : (k # l => t[k].ino # t[l].ino) /\ t[k].old # t[l].ino
      BY <1>0, <1>e DEF ChainInv, Distinct
    <2>2. bus # NoIno /\ \A k \in 1..Len(t) : t[k].ino # NoIno
      BY <1>6, <1>v
    <2>3. \A k, l \in 1..Len(u) : (k # l => u[k].ino # u[l].ino) /\ u[k].old # u[l].ino
      <3> SUFFICES ASSUME NEW k \in 1..Len(u), NEW l \in 1..Len(u)
                   PROVE  (k # l => u[k].ino # u[l].ino) /\ u[k].old # u[l].ino
        OBVIOUS
      <3>1. CASE k \in 1..Len(t) /\ l \in 1..Len(t)
        BY <1>u, <2>1, <3>1
      <3>2. CASE k = Len(t) + 1 /\ l \in 1..Len(t)
        BY <1>5, <1>u, <1>v, <2>2, <3>2
      <3>3. CASE k \in 1..Len(t) /\ l = Len(t) + 1
        BY <1>5, <1>u, <1>v, <2>2, <3>3
      <3>4. CASE k = Len(t) + 1 /\ l = Len(t) + 1
        BY <1>5, <1>u, <2>2, <3>4
      <3> QED BY <1>t, <3>1, <3>2, <3>3, <3>4
    <2> QED BY <1>e, <2>3 DEF Distinct
  <1>19. \A k \in 1..Len(u) : Closed(Eff.segments[k])'
    <2> SUFFICES ASSUME NEW k \in 1..Len(u) PROVE Closed(Eff.segments[k])'
      OBVIOUS
    <2>1. CASE k \in 1..Len(t)
      <3>1. u[k] = t[k] /\ t[k] \in Segment /\ Closed(t[k])
        BY <1>s, <1>u, <2>1
      <3>2. Holds(t[k])'
        BY <1>14, <3>1 DEF Closed
      <3>3. Holds(Eff.segments[k])'
        BY <1>e, <3>1, <3>2 DEF Holds, Frozen, End
      <3>4. t[k].ino \in named'
        BY <1>2, <1>v, <2>1, <3>1 DEF Closed
      <3>5. End(t[k]) <= ActiveStart'
        BY <1>6, <1>11, <1>12, <1>w, <2>1
      <3>6. t[k].old # NoIno => Frozen(Eff.segments[k].old)'
        BY <1>13, <1>e, <3>1 DEF Closed, Frozen
      <3> QED BY <1>e, <3>1, <3>3, <3>4, <3>5, <3>6 DEF Closed, End
    <2>2. CASE k = Len(t) + 1
      <3>1. Eff'.segments[k] = c
        BY <1>e, <1>u, <2>2
      <3>2. Holds(Eff.segments[k])'
        BY <1>15, <3>1, <1>2 DEF Holds, Frozen, End
      <3>3. c.ino \in named' /\ End(c) <= ActiveStart'
        BY <1>2, <1>5, <1>6, <1>7, <1>11
      <3> QED BY <1>5, <3>1, <3>2, <3>3 DEF Closed, End
    <2> QED BY <1>t, <2>1, <2>2
  <1>20. ChainInv'
    BY <1>16, <1>17, <1>18, <1>19, <1>e DEF ChainInv
  <1>21. Alloc'
    <2>1. \A i \in Inodes : i # bus' => synced'[i] = Len(content'[i])
      BY <1>0, <1>2, <1>5 DEF Alloc
    <2>2. synced'[bus'] <= Len(content'[bus'])
      BY <1>0, <1>2, <1>5, <1>6 DEF Alloc
    <2>3. bus' <= top'
      BY <1>2, <1>5, <1>6
    <2> QED BY <1>0, <1>2, <2>1, <2>2, <2>3 DEF Alloc
  <1>22. PhaseInv'
    <2>1. holder' # NoProc
      BY <1>0, <1>2 DEF PhaseInv
    <2> QED BY <1>1, <1>2, <1>8, <2>1 DEF PhaseInv, Pinned
  <1>23. ReceiptInv'
    <2>1. synced[j] = 0
      BY <1>0, <1>5, <1>6 DEF Alloc
    <2>2. ActiveStart' + synced'[bus'] = ActiveStart + synced[bus]
      BY <1>2, <1>4, <1>5, <1>6, <1>11, <2>1
    <2> QED BY <1>0, <1>2, <2>2 DEF ReceiptInv
  <1>24. ArchInv'
    <2>1. \A i : Frozen(i) => i # j /\ i # bus /\ i # NoIno
      BY <1>1, <1>6 DEF Frozen
    <2>2. \A q \in Procs : arch[q].at = "publish" =>
            /\ arch[q].stage \in named'
            /\ \A k \in 1..Len(u) : arch[q].stage # u[k].ino /\ arch[q].stage # u[k].old
      <3> SUFFICES ASSUME NEW q \in Procs, arch[q].at = "publish"
                   PROVE  /\ arch[q].stage \in named'
                          /\ \A k \in 1..Len(u) : /\ arch[q].stage # u[k].ino
                                                  /\ arch[q].stage # u[k].old
        OBVIOUS
      <3>1. /\ Frozen(arch[q].stage) /\ arch[q].stage \in named
            /\ \A k \in 1..Len(t) : arch[q].stage # t[k].ino /\ arch[q].stage # t[k].old
        BY <1>0, <1>e DEF ArchInv
      <3> QED BY <1>2, <1>5, <1>t, <1>u, <2>1, <3>1, SMTT(20)
    <2>3. \A q \in Procs : arch'[q].at \in {"compress", "settle"} =>
            Frozen(arch'[q].ino)
      BY <1>0, <1>2 DEF ArchInv
    <2>4. \A i : Frozen(i) => content'[i] = content[i]
      BY <1>2
    <2> QED BY <1>0, <1>2, <1>13, <1>e, <2>2, <2>3, <2>4, ArchKept
  <1>25. ReadInv'
    <2>1. \A s \in Segment : WasActive(s) => WasActive(s)'
      <3> SUFFICES ASSUME NEW s \in Segment, WasActive(s) PROVE WasActive(s)'
        OBVIOUS
      <3>1. s.start <= ActiveStart'
        BY <1>6, <1>11, <1>12 DEF WasActive, Segment
      <3>2. Frozen(s.ino)'
        BY <1>13, <1>b DEF WasActive
      <3> QED BY <3>1, <3>2 DEF WasActive
    <2>2. rd.m \in Manifest /\ rd.segs \in Seq(Segment)
      BY <1>0 DEF TypeOK, ReaderState
    <2>3. /\ rd.m.segments \in Seq(Segment) /\ rd.m.closed \in Segment
          /\ rd.m.active \in Segment
      BY <2>2 DEF Manifest
    <2>4. rd.at \in {"check", "recheck", "stat"} =>
            /\ \A k \in 1..Len(rd.m.segments) : Holds(rd.m.segments[k])'
            /\ WasActive(rd.m.active)'
      <3> SUFFICES ASSUME rd.at \in {"check", "recheck", "stat"}
                   PROVE  /\ \A k \in 1..Len(rd.m.segments) : Holds(rd.m.segments[k])'
                          /\ WasActive(rd.m.active)'
        OBVIOUS
      <3>1. WasActive(rd.m.active)'
        BY <1>0, <1>2, <2>1, <2>3 DEF ReadInv
      <3>2. \A k \in 1..Len(rd.m.segments) :
              rd.m.segments[k] \in Segment /\ Holds(rd.m.segments[k])
        BY <1>0, <2>3 DEF ReadInv
      <3> QED BY <1>2, <1>14, <3>1, <3>2
    <2>5. rd.at \in {"check", "recheck"} /\ rd.m.swap =>
            \/ Frozen(rd.m.next.ino)'
            \/ /\ bus' = rd.m.next.ino
               /\ Holds(rd.m.closed)'
               /\ rd.m.next.start = ActiveStart'
      <3> SUFFICES ASSUME rd.at \in {"check", "recheck"}, rd.m.swap
                   PROVE  \/ Frozen(rd.m.next.ino)'
                          \/ /\ bus' = rd.m.next.ino
                             /\ Holds(rd.m.closed)'
                             /\ rd.m.next.start = ActiveStart'
        OBVIOUS
      <3>1. CASE Frozen(rd.m.next.ino)
        BY <1>2, <1>13, <3>1
      <3>2. CASE bus = rd.m.next.ino
        BY <1>2, <1>13, <1>b, <3>2
      <3>3. CASE rd.m.next = manifest.next /\ rd.m.closed = manifest.closed
        <4>1. Holds(rd.m.closed)'
          BY <1>2, <1>15, <3>3 DEF Holds, Frozen, End
        <4> QED BY <1>2, <1>5, <1>7, <1>11, <3>3, <4>1
      <3> QED BY <1>0, <3>1, <3>2, <3>3 DEF ReadInv
    <2>6. rd.segs # <<>> =>
            /\ rd.length <= Len(log')
            /\ \A k \in 1..(Len(rd.segs) - 1) : Holds(rd.segs[k])'
            /\ WasActive(rd.segs[Len(rd.segs)])'
      <3> SUFFICES ASSUME rd.segs # <<>>
                   PROVE  /\ rd.length <= Len(log')
                          /\ \A k \in 1..(Len(rd.segs) - 1) : Holds(rd.segs[k])'
                          /\ WasActive(rd.segs[Len(rd.segs)])'
        OBVIOUS
      <3>1. rd.segs[Len(rd.segs)] \in Segment
        BY <2>2
      <3>2. WasActive(rd.segs[Len(rd.segs)])'
        BY <1>0, <1>2, <2>1, <3>1 DEF ReadInv
      <3>3. \A k \in 1..(Len(rd.segs) - 1) : rd.segs[k] \in Segment /\ Holds(rd.segs[k])
        BY <1>0, <2>2 DEF ReadInv
      <3> QED BY <1>0, <1>2, <1>14, <3>2, <3>3 DEF ReadInv
    <2> QED BY <1>0, <1>2, <2>4, <2>5, <2>6 DEF ReadInv
  <1> QED BY <1>3, <1>10, <1>11, <1>20, <1>21, <1>22, <1>23, <1>24, <1>25 DEF IInv
-----------------------------------------------------------------------------
(* A power loss takes unsynced rows of the active file, never more: every  *)
(* closed file is synced before the chain refers to it.                    *)

\* What a power loss leaves: the first n rows of the active file.
Cut(n) ==
    /\ n \in synced[bus]..Len(content[bus])
    /\ content' = [content EXCEPT ![bus] = SubSeq(content[bus], 1, n)]
    /\ log' = SubSeq(log, 1, ActiveStart + n)
    /\ \/ synced' = [synced EXCEPT ![bus] = n]
       \/ synced' = synced /\ n = Len(content[bus])

LEMMA PowerLossCuts ==
    ASSUME IInv, PowerLoss
    PROVE  \E n \in Nat : Cut(n)
  <1>0. TypeOK /\ Alloc /\ ChainInv
    BY DEF IInv
  <1>1. /\ bus \in Inodes /\ content \in [Inodes -> Seq(Nat)]
        /\ synced \in [Inodes -> Nat] /\ log \in Seq(Nat)
        /\ ActiveStart \in Nat
    BY <1>0, SegmentsType DEF TypeOK
  <1>2. /\ content[bus] \in Seq(Nat) /\ Len(content[bus]) \in Nat
        /\ synced[bus] \in Nat /\ synced[bus] <= Len(content[bus])
        /\ ActiveStart + Len(content[bus]) = Len(log)
    BY <1>0, <1>1 DEF Alloc, ChainInv, ActiveInv
  <1>3. PICK i \in Inodes : \E n \in synced[i]..Len(content[i]) :
          /\ content' = [content EXCEPT ![i] = SubSeq(content[i], 1, n)]
          /\ synced' = [synced EXCEPT ![i] = n]
          /\ log' = IF i = bus THEN SubSeq(log, 1, ActiveStart + n) ELSE log
    BY DEF PowerLoss
  <1>4. PICK n \in synced[i]..Len(content[i]) :
          /\ content' = [content EXCEPT ![i] = SubSeq(content[i], 1, n)]
          /\ synced' = [synced EXCEPT ![i] = n]
          /\ log' = IF i = bus THEN SubSeq(log, 1, ActiveStart + n) ELSE log
    BY <1>3
  <1>5. CASE i = bus
    <2>1. n \in Nat
      BY <1>2, <1>4, <1>5
    <2>2. Cut(n)
      BY <1>4, <1>5 DEF Cut
    <2> QED BY <2>1, <2>2
  <1>6. CASE i # bus
    <2>1. content[i] \in Seq(Nat) /\ Len(content[i]) \in Nat
      BY <1>1
    <2>2. n = Len(content[i]) /\ synced[i] = n
      BY <1>0, <1>4, <1>6, <2>1 DEF Alloc
    <2>3. SubSeq(content[i], 1, n) = content[i]
      BY <2>1, <2>2
    <2>4. content' = content /\ synced' = synced /\ log' = log
      BY <1>1, <1>4, <1>6, <2>2, <2>3
    <2>5. SubSeq(content[bus], 1, Len(content[bus])) = content[bus]
      BY <1>2
    <2>6. SubSeq(log, 1, ActiveStart + Len(content[bus])) = log
      BY <1>1, <1>2
    <2>7. content = [content EXCEPT ![bus] = content[bus]]
      BY <1>1
    <2>8. Cut(Len(content[bus]))
      BY <1>2, <2>4, <2>5, <2>6, <2>7 DEF Cut
    <2> QED BY <1>2, <2>8
  <1> QED BY <1>5, <1>6

LEMMA LosesPower ==
    ASSUME IInv, TypeOK', PowerLoss
    PROVE  IInv' /\ ActiveStart' = ActiveStart /\ bus' = bus
  <1>0. TypeOK /\ Alloc /\ ChainInv /\ PhaseInv /\ ReceiptInv /\ ArchInv /\ ReadInv
    BY DEF IInv
  <1>1. /\ bus' = bus /\ manifest' = manifest /\ named' = named /\ top' = top
        /\ receipts' = receipts /\ rd' = NoReader
        /\ fd' = [q \in Procs |-> NoIno] /\ arch' = [q \in Procs |-> Idle]
        /\ holder' = NoProc /\ phase' = "free" /\ job' = NoJob
    BY DEF PowerLoss, Release
  <1>2. Eff' = Eff
    BY <1>1 DEF Eff, Effective, Swapped
  <1>3. ActiveStart' = ActiveStart
    BY <1>2 DEF ActiveStart, Eff
  <1>4. /\ bus \in Inodes /\ content \in [Inodes -> Seq(Nat)]
        /\ synced \in [Inodes -> Nat] /\ log \in Seq(Nat)
        /\ top \in Nat /\ ActiveStart \in Nat
    <2>1. top \in Nat
      BY <1>0 DEF TypeOK, Inodes
    <2> QED BY <1>0, <2>1, SegmentsType DEF TypeOK
  <1>5. /\ content[bus] \in Seq(Nat) /\ Len(content[bus]) \in Nat
        /\ Len(log) \in Nat /\ synced[bus] \in Nat
        /\ synced[bus] <= Len(content[bus])
        /\ ActiveStart + Len(content[bus]) = Len(log)
        /\ \A i \in 1..Len(content[bus]) : content[bus][i] = log[ActiveStart + i]
    BY <1>0, <1>4 DEF Alloc, ChainInv, ActiveInv
  <1>6. PICK n \in Nat : Cut(n)
    BY PowerLossCuts
  <1>7. /\ n \in synced[bus]..Len(content[bus])
        /\ content'[bus] = SubSeq(content[bus], 1, n)
        /\ \A i \in Inodes : i # bus => /\ content'[i] = content[i]
                                        /\ synced'[i] = synced[i]
        /\ log' = SubSeq(log, 1, ActiveStart + n)
        /\ synced'[bus] \in synced[bus]..n
    BY <1>4, <1>5, <1>6 DEF Cut
  <1>n. n \in Nat /\ synced'[bus] \in Nat /\ n <= Len(content[bus])
          /\ synced[bus] <= n /\ synced[bus] <= synced'[bus] /\ synced'[bus] <= n
    BY <1>5, <1>7
  <1>8. /\ Len(content'[bus]) = n
        /\ \A i \in 1..n : content'[bus][i] = content[bus][i]
    BY <1>5, <1>7
  <1>9. /\ Len(log') = ActiveStart + n
        /\ \A i \in 1..(ActiveStart + n) : log'[i] = log[i]
    BY <1>4, <1>5, <1>7
  <1>10. \A i : Frozen(i) => Frozen(i)' /\ content'[i] = content[i]
    <2>1. \A i : Frozen(i) => i \in Inodes /\ i # bus
      <3>1. top \in 1..MaxIno /\ MaxIno \in Nat
        BY <1>0, BusAssumption DEF TypeOK, Inodes
      <3> QED BY <3>1 DEF Frozen, Inodes
    <2>2. ~job'.m.swap
      BY <1>1, BlankTypes DEF Unmanaged
    <2> QED BY <1>1, <1>7, <2>1, <2>2 DEF Frozen
  <1>11. ASSUME NEW s \in Segment, Closed(s) PROVE Closed(s)'
    <2>1. /\ s.start \in Nat /\ s.length \in Nat /\ s.start + s.length <= ActiveStart
          /\ Frozen(s.ino) /\ Len(content[s.ino]) = s.length
          /\ \A i \in 1..s.length : content[s.ino][i] = log[s.start + i]
      BY <1>11 DEF Closed, Holds, End, Segment
    <2>2. \A i \in 1..s.length : s.start + i \in 1..(ActiveStart + n)
      <3>1. /\ ActiveStart \in Nat /\ n \in Nat /\ s.start \in Nat
            /\ s.length \in Nat /\ s.start + s.length <= ActiveStart
        BY <1>4, <1>n, <2>1
      <3> QED BY <3>1
    <2>3. Holds(s)'
      <3>1. s.start + s.length <= Len(log')
        BY <1>4, <1>9, <1>n, <2>1
      <3>2. \A i \in 1..s.length : content'[s.ino][i] = log'[s.start + i]
        BY <1>9, <1>10, <2>1, <2>2
      <3> QED BY <1>10, <2>1, <3>1, <3>2 DEF Holds, End
    <2> QED BY <1>1, <1>3, <1>10, <1>11, <2>3 DEF Closed, End
  <1>12. ChainInv'
    <2>1. ActiveInv'
      <3>1. \A i \in 1..n : content'[bus][i] = log'[ActiveStart + i]
        <4> SUFFICES ASSUME NEW i \in 1..n PROVE content'[bus][i] = log'[ActiveStart + i]
          OBVIOUS
        <4>1. i \in 1..Len(content[bus]) /\ ActiveStart + i \in 1..(ActiveStart + n)
          <5>1. /\ ActiveStart \in Nat /\ n \in Nat /\ Len(content[bus]) \in Nat
                /\ n <= Len(content[bus])
            BY <1>4, <1>5, <1>n
          <5> QED BY <5>1
        <4> QED BY <1>5, <1>8, <1>9, <4>1
      <3> QED BY <1>0, <1>1, <1>2, <1>3, <1>8, <1>9, <3>1 DEF ChainInv, ActiveInv
    <2>2. Contiguous' /\ Distinct'
      BY <1>0, <1>2, <1>3 DEF ChainInv, Contiguous, Distinct
    <2>3. ASSUME NEW k \in 1..Len(Eff.segments) PROVE Closed(Eff.segments[k])'
      <3>1. PICK s : s = Eff.segments[k]
        OBVIOUS
      <3>2. s \in Segment /\ Closed(s)
        BY <1>0, <3>1, SegmentsType DEF ChainInv
      <3>3. Closed(s)'
        BY <1>11, <3>2
      <3>4. Eff'.segments[k] = s
        BY <1>2, <3>1
      <3> QED BY <3>3, <3>4 DEF Closed, Holds, Frozen, End
    <2>4. \A k \in 1..Len(Eff'.segments) : Closed(Eff.segments[k])'
      BY <1>2, <2>3
    <2> QED BY <2>1, <2>2, <2>4 DEF ChainInv
  <1>13. Alloc'
    <2>1. \A i \in Inodes : i > top' => content'[i] = <<>>
      <3>1. bus <= top /\ bus \in Nat
        BY <1>0 DEF Alloc, TypeOK, Inodes
      <3>2. \A i \in Inodes : i > top => i # bus
        BY <1>4, <3>1 DEF Inodes
      <3> QED BY <1>0, <1>1, <1>7, <3>2 DEF Alloc
    <2>2. \A i \in Inodes : i # bus' => synced'[i] = Len(content'[i])
      BY <1>0, <1>1, <1>7 DEF Alloc
    <2>3. synced'[bus'] <= Len(content'[bus'])
      BY <1>1, <1>5, <1>7, <1>8
    <2>4. \A q \in Procs : fd'[q] <= top'
      BY <1>1, <1>4
    <2> QED BY <1>0, <1>1, <2>1, <2>2, <2>3, <2>4 DEF Alloc
  <1>14. ReceiptInv'
    <2> SUFFICES ASSUME NEW r \in receipts
                 PROVE  r[1] \in 1..(ActiveStart' + synced'[bus'])
                          /\ log'[r[1]] = r[2]
      BY <1>1 DEF ReceiptInv
    <2>1. r[1] \in 1..(ActiveStart + synced[bus]) /\ log[r[1]] = r[2]
      BY <1>0 DEF ReceiptInv
    <2>2. r[1] \in 1..(ActiveStart + n) /\ r[1] \in 1..(ActiveStart + synced'[bus])
      <3>1. /\ synced[bus] \in Nat /\ ActiveStart \in Nat /\ r[1] \in Nat
            /\ 1 <= r[1] /\ r[1] <= ActiveStart + synced[bus]
        BY <1>4, <1>5, <2>1
      <3> QED BY <1>n, <3>1
    <2> QED BY <1>1, <1>3, <1>9, <2>1, <2>2
  <1>15. PhaseInv'
    BY <1>0, <1>1, BlankTypes DEF PhaseInv, Pinned
  <1>16. ArchInv'
    BY <1>1 DEF ArchInv, Idle
  <1>17. ReadInv'
    BY <1>1 DEF ReadInv, NoReader
  <1> QED BY <1>1, <1>3, <1>12, <1>13, <1>14, <1>15, <1>16, <1>17 DEF IInv
-----------------------------------------------------------------------------
(* An archive thread rewrites one entry of the chain.                      *)

LEMMA EntryRewritten ==
    ASSUME IInv, TypeOK', NEW k \in 1..Len(Eff.segments), NEW new \in Segment,
           manifest' = WithEntry(k, new),
           job'.m = Unmanaged, manifest.managed,
           bus' = bus, log' = log, content' = content, synced' = synced,
           top' = top, rd' = rd, receipts' = receipts, named' = named,
           new.start = Eff.segments[k].start,
           new.length = Eff.segments[k].length,
           Closed(new),
           new.old # new.ino,
           \A l \in 1..Len(Eff.segments) : l # k =>
             /\ new.ino # Eff.segments[l].ino
             /\ new.ino # Eff.segments[l].old
             /\ new.old # Eff.segments[l].ino
    PROVE  /\ ChainInv' /\ ReadInv' /\ ReceiptInv'
           /\ ActiveStart' = ActiveStart
           /\ manifest'.swap => Pinned(manifest)'
           /\ \A i : Frozen(i) => Frozen(i)'
           /\ Len(Eff'.segments) = Len(Eff.segments)
           /\ Eff'.segments[k] = new
           /\ \A l \in 1..Len(Eff.segments) : l # k =>
                Eff'.segments[l] = Eff.segments[l]
  <1>0. TypeOK /\ Alloc /\ ChainInv /\ PhaseInv /\ ReceiptInv /\ ArchInv /\ ReadInv
    BY DEF IInv
  <1>1. Eff \in Manifest /\ Eff.managed = manifest.managed
    BY <1>0, EffectiveType DEF Eff, TypeOK
  <1>t. PICK t : t = Eff.segments
    OBVIOUS
  <1>2. /\ t \in Seq(Segment) /\ Len(t) \in Nat /\ k \in 1..Len(t)
        /\ \A l \in 1..Len(t) : t[l] \in Segment /\ Closed(t[l])
    BY <1>0, <1>t, SegmentsType DEF ChainInv
  <1>3. manifest' = [Eff EXCEPT !.segments = [t EXCEPT ![k] = new]]
    BY <1>t DEF WithEntry, Eff
  <1>4. /\ manifest'.segments = [t EXCEPT ![k] = new]
        /\ manifest'.active = Eff.active /\ manifest'.swap = Eff.swap
        /\ manifest'.closed = Eff.closed /\ manifest'.next = Eff.next
        /\ manifest'.managed
    BY <1>1, <1>3 DEF Manifest
  <1>5. Eff.swap => Eff = manifest /\ ~Swapped(manifest)
    <2>1. CASE Swapped(manifest)
      <3>1. Eff = Completed(manifest)
        BY <2>1 DEF Eff, Effective
      <3> QED BY <1>0, <3>1, CompletedType DEF TypeOK
    <2>2. CASE ~Swapped(manifest)
      BY <2>2 DEF Eff, Effective
    <2> QED BY <2>1, <2>2
  <1>6. ~Swapped(manifest)'
    BY <1>4, <1>5 DEF Swapped
  <1>7. Eff' = manifest'
    BY <1>6 DEF Eff, Effective
  <1>8. ActiveStart' = ActiveStart
    BY <1>4, <1>7 DEF ActiveStart, Eff
  <1>u. PICK u : u = Eff'.segments
    OBVIOUS
  <1>9. /\ Len(u) = Len(t) /\ u[k] = new
        /\ \A l \in 1..Len(t) : l # k => u[l] = t[l]
    BY <1>2, <1>4, <1>7, <1>u
  <1>10. \A l \in 1..Len(t) : u[l].start = t[l].start /\ End(u[l]) = End(t[l])
    BY <1>2, <1>9, <1>t DEF End
  <1>11. \A i : Frozen(i) => Frozen(i)'
    <2>1. ~job'.m.swap
      BY DEF Unmanaged
    <2> QED BY <1>4, <1>5, <2>1 DEF Frozen
  <1>12. \A s \in Segment : Holds(s) => Holds(s)'
    <2>1. Len(log) <= Len(log')
      BY <1>0 DEF TypeOK
    <2> QED BY <1>0, <1>11, <2>1, HoldsKept
  <1>13. \A s \in Segment : Closed(s) => Closed(s)'
    BY <1>8, <1>11, <1>12 DEF Closed, End
  <1>14. ChainInv'
    <2>1. ActiveInv'
      BY <1>0, <1>4, <1>7, <1>8 DEF ChainInv, ActiveInv
    <2>2. Contiguous'
      <3>1. /\ ActiveStart = IF t = <<>> THEN 0 ELSE End(t[Len(t)])
            /\ \A l \in 1..Len(t) : t[l].start = IF l = 1 THEN 0 ELSE End(t[l - 1])
            /\ \A n \in 1..ActiveStart : \E l \in 1..Len(t) :
                 t[l].start < n /\ n <= End(t[l])
        BY <1>0, <1>t DEF ChainInv, Contiguous
      <3>2. t # <<>> /\ u # <<>> /\ Len(t) \in 1..Len(t)
        BY <1>2, <1>9
      <3>3. ActiveStart = End(u[Len(u)])
        BY <1>9, <1>10, <3>1, <3>2
      <3>4. \A l \in 1..Len(u) : u[l].start = IF l = 1 THEN 0 ELSE End(u[l - 1])
        <4> SUFFICES ASSUME NEW l \in 1..Len(u)
                     PROVE  u[l].start = IF l = 1 THEN 0 ELSE End(u[l - 1])
          OBVIOUS
        <4>1. l \in 1..Len(t) /\ (l # 1 => l - 1 \in 1..Len(t))
          BY <1>2, <1>9
        <4> QED BY <1>10, <3>1, <4>1
      <3>5. \A n \in 1..ActiveStart : \E l \in 1..Len(u) :
              u[l].start < n /\ n <= End(u[l])
        BY <1>9, <1>10, <3>1
      <3> QED BY <1>8, <1>u, <3>2, <3>3, <3>4, <3>5 DEF Contiguous
    <2>3. Distinct'
      <3>1. \A a, b \in 1..Len(t) : (a # b => t[a].ino # t[b].ino) /\ t[a].old # t[b].ino
        BY <1>0, <1>t DEF ChainInv, Distinct
      <3>2. \A l \in 1..Len(t) : l # k => /\ new.ino # t[l].ino
                                          /\ new.ino # t[l].old
                                          /\ new.old # t[l].ino
        BY <1>t
      <3>3. \A a, b \in 1..Len(u) : (a # b => u[a].ino # u[b].ino) /\ u[a].old # u[b].ino
        <4> SUFFICES ASSUME NEW a \in 1..Len(t), NEW b \in 1..Len(t)
                     PROVE  (a # b => u[a].ino # u[b].ino) /\ u[a].old # u[b].ino
          BY <1>9
        <4>1. CASE a = k /\ b = k
          BY <1>9, <4>1
        <4>2. CASE a = k /\ b # k
          BY <1>9, <3>2, <4>2
        <4>3. CASE a # k /\ b = k
          BY <1>9, <3>2, <4>3
        <4>4. CASE a # k /\ b # k
          BY <1>9, <3>1, <4>4
        <4> QED BY <4>1, <4>2, <4>3, <4>4
      <3> QED BY <1>u, <3>3 DEF Distinct
    <2>4. \A l \in 1..Len(Eff'.segments) : Closed(Eff.segments[l])'
      <3>1. \A l \in 1..Len(t) : u[l] \in Segment /\ Closed(u[l])
        BY <1>2, <1>9
      <3>2. \A l \in 1..Len(u) : Closed(u[l])'
        BY <1>9, <1>13, <3>1
      <3> QED BY <1>u, <3>2 DEF Closed, Holds, Frozen, End
    <2> QED BY <2>1, <2>2, <2>3, <2>4 DEF ChainInv
  <1>15. ReceiptInv'
    BY <1>0, <1>8 DEF ReceiptInv
  <1>16. manifest'.swap => Pinned(manifest)'
    <2> SUFFICES ASSUME manifest'.swap PROVE Pinned(manifest)'
      OBVIOUS
    <2>1. Eff = manifest
      BY <1>4, <1>5
    <2>2. manifest.swap /\ Pinned(manifest)
      BY <1>0, <1>4, <2>1 DEF PhaseInv
    <2> QED BY <1>4, <2>1, <2>2 DEF Pinned
  <1>17. ReadInv'
    <2>1. \A s : WasActive(s) => WasActive(s)'
      BY <1>8, <1>11 DEF WasActive
    <2>2. rd.m \in Manifest /\ rd.segs \in Seq(Segment)
      BY <1>0 DEF TypeOK, ReaderState
    <2>3. rd.m.segments \in Seq(Segment) /\ rd.m.closed \in Segment
      BY <2>2 DEF Manifest
    <2>4. rd.at \in {"check", "recheck", "stat"} =>
            /\ \A l \in 1..Len(rd.m.segments) : Holds(rd.m.segments[l])'
            /\ WasActive(rd.m.active)'
      <3> SUFFICES ASSUME rd.at \in {"check", "recheck", "stat"}
                   PROVE  /\ \A l \in 1..Len(rd.m.segments) : Holds(rd.m.segments[l])'
                          /\ WasActive(rd.m.active)'
        OBVIOUS
      <3>1. WasActive(rd.m.active)'
        BY <1>0, <2>1 DEF ReadInv
      <3>2. \A l \in 1..Len(rd.m.segments) :
              rd.m.segments[l] \in Segment /\ Holds(rd.m.segments[l])
        BY <1>0, <2>3 DEF ReadInv
      <3> QED BY <1>12, <3>1, <3>2
    <2>5. rd.at \in {"check", "recheck"} /\ rd.m.swap =>
            \/ Frozen(rd.m.next.ino)'
            \/ /\ bus' = rd.m.next.ino
               /\ Holds(rd.m.closed)'
               /\ rd.m.next.start = ActiveStart'
            \/ /\ manifest'.swap /\ ~Swapped(manifest)'
               /\ rd.m.next = manifest'.next /\ rd.m.closed = manifest'.closed
      <3>1. manifest.swap /\ ~Swapped(manifest) =>
              /\ manifest'.swap /\ ~Swapped(manifest)'
              /\ manifest'.next = manifest.next /\ manifest'.closed = manifest.closed
        BY <1>4, <1>6 DEF Eff, Effective
      <3> QED BY <1>0, <1>8, <1>11, <1>12, <2>3, <3>1 DEF ReadInv
    <2>6. rd.segs # <<>> =>
            /\ rd.length <= Len(log')
            /\ \A l \in 1..(Len(rd.segs) - 1) : Holds(rd.segs[l])'
            /\ WasActive(rd.segs[Len(rd.segs)])'
      <3> SUFFICES ASSUME rd.segs # <<>>
                   PROVE  /\ rd.length <= Len(log')
                          /\ \A l \in 1..(Len(rd.segs) - 1) : Holds(rd.segs[l])'
                          /\ WasActive(rd.segs[Len(rd.segs)])'
        OBVIOUS
      <3>1. WasActive(rd.segs[Len(rd.segs)])'
        BY <1>0, <2>1 DEF ReadInv
      <3>2. \A l \in 1..(Len(rd.segs) - 1) : rd.segs[l] \in Segment /\ Holds(rd.segs[l])
        BY <1>0, <2>2 DEF ReadInv
      <3> QED BY <1>0, <1>12, <3>1, <3>2 DEF ReadInv
    <2> QED BY <1>0, <1>4, <2>4, <2>5, <2>6 DEF ReadInv
  <1> QED BY <1>8, <1>9, <1>11, <1>14, <1>15, <1>16, <1>17, <1>t, <1>u

\* Steps of an archive thread that leave the disk and the lease alone.
LEMMA ArchiverMoves ==
    ASSUME IInv, TypeOK', UNCHANGED <<disk, fd, holder, phase, job, rd, history>>,
           \A p \in Procs : arch'[p].at \in {"compress", "settle"} =>
             Frozen(arch'[p].ino),
           \A p \in Procs : arch'[p].at = "publish" =>
             /\ arch[p].at = "publish"
             /\ arch'[p].ino = arch[p].ino
             /\ arch'[p].stage = arch[p].stage
    PROVE  IInv'
  <1>0. TypeOK /\ Alloc /\ ChainInv /\ PhaseInv /\ ReceiptInv /\ ArchInv /\ ReadInv
    BY DEF IInv
  <1>1. /\ bus' = bus /\ manifest' = manifest /\ content' = content
        /\ named' = named /\ top' = top /\ synced' = synced
        /\ log' = log /\ receipts' = receipts /\ rows' = rows
        /\ job' = job /\ fd' = fd /\ holder' = holder /\ phase' = phase /\ rd' = rd
    BY DEF disk, history
  <1>2. \A k \in 1..Len(Eff.segments) : Eff.segments[k].ino \in named'
    BY <1>0, <1>1 DEF ChainInv, Closed
  <1>3. top <= top' /\ synced[bus] <= synced'[bus]
    <2>1. top \in Nat /\ bus \in Inodes
      BY <1>0 DEF TypeOK, Inodes
    <2>2. synced[bus] \in Nat
      BY <1>0, <2>1 DEF TypeOK
    <2> QED BY <1>1, <2>1, <2>2
  <1>4. Calm
    BY <1>0, <1>1, <1>2, <1>3, CalmSame DEF Frozen
  <1>5. ChainInv' /\ ReadInv' /\ ReceiptInv'
    BY <1>0, <1>1, <1>3, <1>4, CalmChain, CalmReader, CalmReceipts
  <1>6. named \subseteq named'
    BY <1>1
  <1>7. ArchInv'
    BY <1>0, <1>4, <1>6, CalmArch
  <1>8. Alloc'
    BY <1>0, <1>1 DEF Alloc
  <1>9. PhaseInv'
    BY <1>0, <1>1 DEF PhaseInv, Pinned, Ready, Swapped
  <1> QED BY <1>5, <1>7, <1>8, <1>9 DEF IInv

LEMMA ArchiveReads ==
    ASSUME IInv, TypeOK', NEW p \in Procs,
           ArchiveLoop(p) \/ \E id \in Inodes : ArchiveLook(p, id)
    PROVE  IInv'
  <1>0. TypeOK /\ ChainInv /\ ArchInv
    BY DEF IInv
  <1>1. arch \in [Procs -> Archiver] /\ arch[p] \in Archiver
    BY <1>0 DEF TypeOK
  <1>2. UNCHANGED <<disk, fd, holder, phase, job, rd, history>>
    BY DEF ArchiveLoop, ArchiveLook
  <1>3. \A q \in Procs : q # p => arch'[q] = arch[q]
    BY <1>1 DEF ArchiveLoop, ArchiveLook
  <1> DEFINE Moved == \/ arch'[p].at \in {"loop", "retire"}
                      \/ arch'[p].at = "compress" /\ Frozen(arch'[p].ino)
  <1>4. Moved
    <2>1. CASE ArchiveLoop(p)
      BY <1>1, <2>1 DEF ArchiveLoop, Archiver
    <2>2. ASSUME NEW id \in Inodes, ArchiveLook(p, id) PROVE Moved
      <3>0. id \in Nat
        BY DEF Inodes
      <3> DEFINE a == arch[p]
                 b == [a EXCEPT !.id = id]
      <3>1. b \in Archiver
        BY <1>1, <3>0 DEF Archiver
      <3>2. Settled(b, TRUE).at = "loop" /\ Settled(b, FALSE).at = "loop"
        BY <3>1, SettledType
      <3>3. CASE arch' = [arch EXCEPT ![p] = Settled(b, FALSE)]
        BY <1>1, <3>2, <3>3
      <3>4. ASSUME NEW k \in 1..Len(Eff.segments),
                   arch' = [arch EXCEPT ![p] =
                     IF Eff.segments[k].compressed
                     THEN [a EXCEPT !.at = "retire", !.id = id]
                     ELSE IF Eff.segments[k].settled THEN Settled(b, TRUE)
                     ELSE [a EXCEPT !.at = "compress", !.id = id,
                                    !.ino = Eff.segments[k].ino]]
            PROVE  Moved
        <4>1. Frozen(Eff.segments[k].ino)
          BY <1>0 DEF ChainInv, Closed, Holds
        <4>2. CASE Eff.segments[k].compressed
          BY <1>1, <3>4, <4>2 DEF Archiver
        <4>3. CASE ~Eff.segments[k].compressed /\ Eff.segments[k].settled
          BY <1>1, <3>2, <3>4, <4>3
        <4>4. CASE ~Eff.segments[k].compressed /\ ~Eff.segments[k].settled
          <5>1. arch'[p] = [a EXCEPT !.at = "compress", !.id = id,
                                     !.ino = Eff.segments[k].ino]
            BY <1>1, <3>4, <4>4
          <5>2. arch'[p].at = "compress" /\ arch'[p].ino = Eff.segments[k].ino
            BY <1>1, <5>1 DEF Archiver
          <5> QED BY <4>1, <5>2
        <4> QED BY <4>2, <4>3, <4>4
      <3> QED BY <2>2, <3>3, <3>4 DEF ArchiveLook, Entries, Eff
    <2> QED BY <2>1, <2>2
  <1>5. \A q \in Procs : arch'[q].at \in {"compress", "settle"} =>
          Frozen(arch'[q].ino)
    BY <1>0, <1>3, <1>4 DEF ArchInv
  <1>6. \A q \in Procs : arch'[q].at = "publish" =>
             /\ arch[q].at = "publish"
             /\ arch'[q].ino = arch[q].ino
             /\ arch'[q].stage = arch[q].stage
    BY <1>3, <1>4
  <1> QED BY <1>2, <1>5, <1>6, ArchiverMoves

LEMMA Compresses ==
    ASSUME IInv, TypeOK', NEW p \in Procs, Compress(p)
    PROVE  IInv'
  <1>0. TypeOK /\ Alloc /\ ChainInv /\ PhaseInv /\ ReceiptInv /\ ArchInv /\ ReadInv
    BY DEF IInv
  <1>1. arch \in [Procs -> Archiver] /\ arch[p] \in Archiver /\ arch[p].at = "compress"
    BY <1>0 DEF TypeOK, Compress
  <1>2. Frozen(arch[p].ino)
    BY <1>0, <1>1 DEF ArchInv
  <1>3. CASE /\ UNCHANGED <<content, synced, named, top>>
             /\ \/ arch' = [arch EXCEPT ![p].at = "settle"]
                \/ arch' = [arch EXCEPT ![p] = Settled(arch[p], FALSE)]
    <2>1. UNCHANGED <<disk, fd, holder, phase, job, rd, history>>
      BY <1>3 DEF Compress, disk
    <2>2. \A q \in Procs : q # p => arch'[q] = arch[q]
      BY <1>1, <1>3
    <2>3. \/ arch'[p].at = "loop"
          \/ arch'[p].at = "settle" /\ arch'[p].ino = arch[p].ino
      <3>1. CASE arch' = [arch EXCEPT ![p].at = "settle"]
        BY <1>1, <3>1 DEF Archiver
      <3>2. CASE arch' = [arch EXCEPT ![p] = Settled(arch[p], FALSE)]
        BY <1>1, <3>2, SettledType
      <3> QED BY <1>3, <3>1, <3>2
    <2>4. \A q \in Procs : arch'[q].at \in {"compress", "settle"} =>
            Frozen(arch'[q].ino)
      BY <1>0, <1>2, <2>2, <2>3 DEF ArchInv
    <2>5. \A q \in Procs : arch'[q].at = "publish" =>
             /\ arch[q].at = "publish"
             /\ arch'[q].ino = arch[q].ino
             /\ arch'[q].stage = arch[q].stage
      BY <2>2, <2>3
    <2> QED BY <2>1, <2>4, <2>5, ArchiverMoves
  <1>4. CASE /\ top + 1 < MaxIno /\ arch[p].ino \in named
             /\ top' = top + 1
             /\ content' = [content EXCEPT ![top'] = content[arch[p].ino]]
             /\ synced' = [synced EXCEPT ![top'] = Len(content[arch[p].ino])]
             /\ named' = named \cup {top'}
             /\ arch' = [arch EXCEPT ![p].at = "publish", ![p].stage = top']
    <2>1. /\ bus' = bus /\ manifest' = manifest /\ job' = job /\ fd' = fd
          /\ holder' = holder /\ phase' = phase /\ rd' = rd
          /\ log' = log /\ receipts' = receipts /\ rows' = rows
      BY DEF Compress, history
    <2>2. /\ top \in Nat /\ top + 1 \in Inodes /\ bus \in 1..top /\ MaxIno \in Nat
          /\ top \in 1..MaxIno
      <3>1. top \in 1..MaxIno /\ bus \in 1..MaxIno /\ bus <= top /\ MaxIno \in Nat
        BY <1>0, BusAssumption DEF TypeOK, Inodes, Alloc
      <3> QED BY <1>4, <3>1 DEF Inodes
    <2>s. PICK n : n = top + 1
      OBVIOUS
    <2>3. /\ n \in Inodes /\ n \notin 1..top /\ n # bus /\ n # 0 /\ n \in 1..top'
          /\ n \in Nat /\ n > top
      BY <1>4, <2>2, <2>s
    <2>4. /\ content'[n] = content[arch[p].ino]
          /\ synced'[n] = Len(content[arch[p].ino])
          /\ \A i \in Inodes : i # n => content'[i] = content[i] /\ synced'[i] = synced[i]
          /\ named' = named \cup {n}
          /\ arch'[p].at = "publish" /\ arch'[p].stage = n
          /\ arch'[p].ino = arch[p].ino
          /\ \A q \in Procs : q # p => arch'[q] = arch[q]
      BY <1>0, <1>1, <1>4, <2>2, <2>3, <2>s DEF TypeOK, Archiver
    <2>5. \A i \in 1..top : i \in Inodes /\ i # n /\ content'[i] = content[i]
      <3>1. \A i \in 1..top : i \in Inodes /\ i # n
        BY <2>2, <2>3 DEF Inodes
      <3> QED BY <2>4, <3>1
    <2>6. \A k \in 1..Len(Eff.segments) : Eff.segments[k].ino \in named'
      BY <1>0, <2>4 DEF ChainInv, Closed
    <2>7. top <= top'
      BY <1>4, <2>2
    <2>8. Calm /\ Eff' = Eff
      BY <1>0, <2>1, <2>5, <2>6, <2>7, CalmSame DEF Frozen
    <2>9. synced'[bus] = synced[bus] /\ content'[bus] = content[bus]
      BY <2>2, <2>3, <2>4, <2>5
    <2>10. ChainInv' /\ ReadInv' /\ ReceiptInv'
      <3>1. synced[bus] <= synced'[bus]
        BY <1>0, <2>9 DEF TypeOK
      <3> QED BY <1>0, <2>1, <2>8, <3>1, CalmChain, CalmReader, CalmReceipts
    <2>11. /\ manifest.swap => manifest.next.ino \in 1..top
           /\ job.m.swap => job.m.next.ino \in 1..top
      <3>1. manifest.swap => manifest.next.ino \in 1..top
        BY <1>0 DEF PhaseInv, Pinned
      <3>2. phase = "pend" => job.m.next.ino \in 1..top
        BY <1>0 DEF PhaseInv, Ready, Pinned
      <3>3. phase # "pend" => job.m = manifest \/ job.m = Unmanaged
        BY <1>0 DEF PhaseInv, TypeOK, Phases
      <3> QED BY <3>1, <3>2, <3>3 DEF Unmanaged
    <2>12. Frozen(n)'
      BY <1>4, <2>1, <2>3, <2>11 DEF Frozen
    <2>13. ArchInv'
      <3>1. \A q \in Procs : q # p /\ arch[q].at = "publish" =>
              arch[q].stage \in 1..top
        BY <1>0 DEF ArchInv, Frozen
      <3>2. \A k \in 1..Len(Eff.segments) :
              Eff.segments[k].ino \in 1..top /\ Eff.segments[k].old \in 0..top
        <4> SUFFICES ASSUME NEW k \in 1..Len(Eff.segments)
                     PROVE  Eff.segments[k].ino \in 1..top /\ Eff.segments[k].old \in 0..top
          OBVIOUS
        <4>1. /\ Frozen(Eff.segments[k].ino)
              /\ Eff.segments[k].old # NoIno => Frozen(Eff.segments[k].old)
          BY <1>0 DEF ChainInv, Closed, Holds
        <4> QED BY <2>2, <4>1 DEF Frozen
      <3>3. arch[p].ino \in 1..top /\ content'[arch[p].ino] = content[arch[p].ino]
        BY <1>2, <2>5 DEF Frozen
      <3>4. \A q \in Procs : arch'[q].at \in {"compress", "publish", "settle"} =>
              Frozen(arch'[q].ino)
        BY <1>0, <1>2, <2>4 DEF ArchInv
      <3>5. \A q \in Procs : arch'[q].at \in {"compress", "publish", "settle"} =>
              Frozen(arch[q].ino)'
        BY <2>8, <3>4 DEF Calm
      <3>6. ASSUME NEW q \in Procs, arch'[q].at = "publish"
            PROVE  /\ Frozen(arch[q].stage)'
                   /\ arch'[q].stage \in named'
                   /\ content'[arch'[q].stage] = content'[arch'[q].ino]
                   /\ \A k \in 1..Len(Eff'.segments) :
                        /\ arch'[q].stage # Eff'.segments[k].ino
                        /\ arch'[q].stage # Eff'.segments[k].old
        <4>1. CASE q = p
          <5>1. Frozen(arch[q].stage)'
            BY <2>4, <2>12, <4>1
          <5>2. n \notin 1..top /\ n \notin 0..top
            BY <2>2, <2>3
          <5> QED BY <2>4, <2>8, <3>2, <3>3, <4>1, <5>1, <5>2
        <4>2. CASE q # p
          <5>1. arch'[q] = arch[q] /\ arch[q].at = "publish"
            BY <2>4, <3>6, <4>2
          <5>2. /\ Frozen(arch[q].stage) /\ arch[q].stage \in named
                /\ content[arch[q].stage] = content[arch[q].ino]
                /\ Frozen(arch[q].ino)
                /\ \A k \in 1..Len(Eff.segments) :
                     /\ arch[q].stage # Eff.segments[k].ino
                     /\ arch[q].stage # Eff.segments[k].old
            BY <1>0, <5>1 DEF ArchInv
          <5>3. Frozen(arch[q].stage)'
            BY <2>8, <5>1, <5>2 DEF Calm
          <5>4. content'[arch[q].stage] = content'[arch[q].ino]
            BY <2>5, <5>2 DEF Frozen
          <5> QED BY <2>4, <2>8, <5>1, <5>2, <5>3, <5>4
        <4> QED BY <4>1, <4>2
      <3>7. \A q, r \in Procs :
             q # r /\ arch'[q].at = "publish" /\ arch'[r].at = "publish" =>
               arch'[q].stage # arch'[r].stage
        BY <1>0, <2>3, <2>4, <3>1 DEF ArchInv
      <3> QED BY <3>5, <3>6, <3>7 DEF ArchInv
    <2>14. Alloc'
      <3>1. named' \subseteq 1..top'
        BY <1>0, <1>4, <2>2, <2>3, <2>4 DEF Alloc
      <3>2. bus' <= top' /\ \A q \in Procs : fd'[q] <= top'
        <4>1. \A q \in Procs : fd[q] \in Nat /\ fd[q] <= top
          BY <1>0 DEF Alloc, TypeOK
        <4> QED BY <1>4, <2>1, <2>2, <4>1
      <3>3. \A i \in Inodes : i > top' => content'[i] = <<>>
        <4>1. \A i \in Inodes : i > top' => i > top /\ i # n
          BY <1>4, <2>2, <2>s DEF Inodes
        <4> QED BY <1>0, <2>4, <4>1 DEF Alloc
      <3>4. \A i \in Inodes : i # bus' => synced'[i] = Len(content'[i])
        BY <1>0, <2>1, <2>4 DEF Alloc
      <3>5. synced'[bus'] <= Len(content'[bus'])
        BY <1>0, <2>1, <2>9 DEF Alloc
      <3> QED BY <3>1, <3>2, <3>3, <3>4, <3>5 DEF Alloc
    <2>15. PhaseInv'
      <3>1. \A i \in 1..top : i \in 1..top'
        BY <1>4, <2>2
      <3>2. Swapped(manifest)' = Swapped(manifest)
        BY <2>1 DEF Swapped
      <3>3. manifest'.swap => Pinned(manifest)'
        BY <1>0, <2>1, <3>1 DEF PhaseInv, Pinned
      <3>4. phase = "pend" => Ready(job.m)'
        BY <1>0, <2>1, <2>4, <2>5, <2>9, <2>11, <3>1 DEF PhaseInv, Ready, Pinned
      <3>5. phase = "rename" => Ready(manifest)'
        BY <1>0, <2>1, <2>4, <2>5, <2>9, <2>11, <3>1 DEF PhaseInv, Ready, Pinned
      <3> QED BY <1>0, <2>1, <3>2, <3>3, <3>4, <3>5 DEF PhaseInv
    <2> QED BY <2>10, <2>13, <2>14, <2>15 DEF IInv
  <1> QED BY <1>3, <1>4 DEF Compress

\* The lease is free, or its holder has only deleted a superseded copy: an
\* archive thread rewrites entry k as new and then keeps no staged copy.
LEMMA ArchiveRewrites ==
    ASSUME IInv, TypeOK', NEW p \in Procs,
           NEW k \in 1..Len(Eff.segments), NEW new \in Segment,
           manifest' = WithEntry(k, new), manifest.managed,
           UNCHANGED <<content, synced, named, top, bus, fd, rd, history>>,
           job'.m = Unmanaged, holder' = NoProc, phase' = "free",
           arch'[p].at \in {"loop", "retire"},
           \A q \in Procs : q # p => arch'[q] = arch[q],
           new.start = Eff.segments[k].start,
           new.length = Eff.segments[k].length,
           \/ new.ino = Eff.segments[k].ino /\ new.old \in {NoIno, Eff.segments[k].old}
           \/ /\ arch[p].at = "publish"
              /\ new.ino = arch[p].stage
              /\ new.old = Eff.segments[k].ino
              /\ arch[p].ino = Eff.segments[k].ino
    PROVE  IInv'
  <1>0. TypeOK /\ Alloc /\ ChainInv /\ PhaseInv /\ ReceiptInv /\ ArchInv /\ ReadInv
    BY DEF IInv
  <1>1. /\ bus' = bus /\ content' = content /\ named' = named /\ top' = top
        /\ synced' = synced /\ log' = log /\ receipts' = receipts /\ rd' = rd
        /\ fd' = fd
    BY DEF history
  <1>t. PICK t : t = Eff.segments
    OBVIOUS
  <1>2. /\ k \in 1..Len(t)
        /\ \A l \in 1..Len(t) : t[l] \in Segment /\ Closed(t[l])
        /\ \A a, b \in 1..Len(t) : (a # b => t[a].ino # t[b].ino) /\ t[a].old # t[b].ino
    BY <1>0, <1>t, SegmentsType DEF ChainInv, Distinct
  <1>f. \A i : Frozen(i) => i # NoIno
    <2>1. top \in Nat
      BY <1>0 DEF TypeOK, Inodes
    <2> QED BY <2>1 DEF Frozen
  <1>3. \A l \in 1..Len(t) : /\ Frozen(t[l].ino)
                             /\ t[l].ino # NoIno
                             /\ t[l].old # NoIno => Frozen(t[l].old)
    BY <1>2, <1>f DEF Closed, Holds
  <1>4. \A q \in Procs : arch[q].at = "publish" =>
          /\ Frozen(arch[q].stage) /\ arch[q].stage \in named
          /\ arch[q].stage # NoIno
          /\ content[arch[q].stage] = content[arch[q].ino]
          /\ \A l \in 1..Len(t) : arch[q].stage # t[l].ino /\ arch[q].stage # t[l].old
    BY <1>0, <1>f, <1>t DEF ArchInv
  <1> DEFINE Apart == /\ Closed(new)
                      /\ new.old # new.ino
                      /\ \A l \in 1..Len(t) : l # k =>
                           /\ new.ino # t[l].ino
                           /\ new.ino # t[l].old
                           /\ new.old # t[l].ino
                      /\ \A q \in Procs : q # p /\ arch[q].at = "publish" =>
                           arch[q].stage # new.ino /\ arch[q].stage # new.old
  <1>5. ASSUME new.ino = t[k].ino /\ new.old \in {NoIno, t[k].old}
        PROVE  Apart
    <2>1. Closed(new)
      <3>1. Closed(t[k])
        BY <1>2
      <3> QED BY <1>t, <1>5, <3>1 DEF Closed, Holds, End
    <2>2. new.old # new.ino
      BY <1>2, <1>3, <1>5
    <2>3. \A l \in 1..Len(t) : l # k =>
             /\ new.ino # t[l].ino
             /\ new.ino # t[l].old
             /\ new.old # t[l].ino
      BY <1>2, <1>3, <1>5
    <2>4. \A q \in Procs : arch[q].at = "publish" =>
            arch[q].stage # new.ino /\ arch[q].stage # new.old
      BY <1>2, <1>4, <1>5
    <2> QED BY <2>1, <2>2, <2>3, <2>4
  <1>6. ASSUME /\ arch[p].at = "publish" /\ new.ino = arch[p].stage
               /\ new.old = t[k].ino /\ arch[p].ino = t[k].ino
        PROVE  Apart
    <2>1. Closed(new)
      <3>1. Closed(t[k]) /\ Frozen(t[k].ino)
        BY <1>2, <1>3
      <3>2. /\ Frozen(new.ino) /\ new.ino \in named
            /\ content[new.ino] = content[t[k].ino]
            /\ new.start = t[k].start /\ new.length = t[k].length
        BY <1>4, <1>6, <1>t
      <3>3. Holds(new)
        BY <3>1, <3>2 DEF Closed, Holds, End
      <3> QED BY <1>6, <3>1, <3>2, <3>3 DEF Closed, End
    <2>2. new.old # new.ino
      BY <1>2, <1>4, <1>6
    <2>3. \A l \in 1..Len(t) : l # k =>
             /\ new.ino # t[l].ino
             /\ new.ino # t[l].old
             /\ new.old # t[l].ino
      BY <1>2, <1>4, <1>6
    <2>4. \A q \in Procs : q # p /\ arch[q].at = "publish" =>
            arch[q].stage # new.ino /\ arch[q].stage # new.old
      BY <1>0, <1>2, <1>4, <1>6 DEF ArchInv
    <2> QED BY <2>1, <2>2, <2>3, <2>4
  <1>7. Apart
    BY <1>5, <1>6, <1>t
  <1>8. /\ ChainInv' /\ ReadInv' /\ ReceiptInv'
        /\ manifest'.swap => Pinned(manifest)'
        /\ \A i : Frozen(i) => Frozen(i)'
        /\ Len(Eff'.segments) = Len(Eff.segments)
        /\ Eff'.segments[k] = new
        /\ \A l \in 1..Len(Eff.segments) : l # k =>
             Eff'.segments[l] = Eff.segments[l]
    BY <1>1, <1>7, <1>t, EntryRewritten
  <1>9. ArchInv'
    <2>1. \A i : Frozen(i) => content'[i] = content[i]
      BY <1>1
    <2>2. \A q \in Procs : arch'[q].at \in {"compress", "settle"} =>
            Frozen(arch'[q].ino)
      BY <1>0 DEF ArchInv
    <2>3. \A q \in Procs : arch'[q].at = "publish" =>
             /\ q # p
             /\ arch[q].at = "publish"
             /\ arch'[q].ino = arch[q].ino
             /\ arch'[q].stage = arch[q].stage
      OBVIOUS
    <2>4. \A q \in Procs : q # p /\ arch[q].at = "publish" =>
             \A l \in 1..Len(Eff'.segments) :
                  /\ arch[q].stage # Eff'.segments[l].ino
                  /\ arch[q].stage # Eff'.segments[l].old
      BY <1>4, <1>7, <1>8, <1>t
    <2> QED BY <1>0, <1>1, <1>4, <1>8, <2>1, <2>2, <2>3, <2>4, ArchKept
  <1>10. Alloc'
    BY <1>0, <1>1 DEF Alloc
  <1>11. PhaseInv'
    BY <1>8 DEF PhaseInv
  <1> QED BY <1>8, <1>9, <1>10, <1>11 DEF IInv

LEMMA Publishes ==
    ASSUME IInv, TypeOK', NEW p \in Procs, Publish(p)
    PROVE  IInv'
  <1>0. TypeOK /\ Alloc /\ ChainInv /\ PhaseInv /\ ArchInv
    BY DEF IInv
  <1>1. arch \in [Procs -> Archiver] /\ arch[p] \in Archiver
    BY <1>0 DEF TypeOK
  <1>2. /\ UNCHANGED <<content, synced, named, top, bus, fd, rd, history, holder,
                       phase, job>>
        /\ holder = NoProc /\ phase = "free" /\ job.m = Unmanaged
    BY <1>0 DEF Publish, PhaseInv
  <1>3. /\ Settled(arch[p], TRUE).at = "loop" /\ Settled(arch[p], FALSE).at = "loop"
        /\ [arch[p] EXCEPT !.at = "retire"].at = "retire"
    BY <1>1, SettledType DEF Archiver
  <1>4. \/ arch' = [arch EXCEPT ![p] = Settled(arch[p], TRUE)]
        \/ arch' = [arch EXCEPT ![p] = Settled(arch[p], FALSE)]
        \/ arch' = [arch EXCEPT ![p] = [arch[p] EXCEPT !.at = "retire"]]
    BY DEF Publish
  <1>5. /\ arch'[p].at \in {"loop", "retire"}
        /\ \A q \in Procs : q # p => arch'[q] = arch[q]
    BY <1>1, <1>3, <1>4
  <1>6. CASE manifest' = manifest
    <2>1. UNCHANGED <<disk, fd, holder, phase, job, rd, history>>
      BY <1>2, <1>6 DEF disk
    <2>2. \A q \in Procs : arch'[q].at \in {"compress", "settle"} =>
            Frozen(arch'[q].ino)
      BY <1>0, <1>5 DEF ArchInv
    <2>3. \A q \in Procs : arch'[q].at = "publish" =>
             /\ arch[q].at = "publish"
             /\ arch'[q].ino = arch[q].ino
             /\ arch'[q].stage = arch[q].stage
      BY <1>5
    <2> QED BY <2>1, <2>2, <2>3, ArchiverMoves
  <1>7. ASSUME NEW k \in Replaceable(arch[p]),
               arch[p].at \in {"publish", "settle"},
               manifest' = WithEntry(k,
                 IF arch[p].at = "settle"
                 THEN [Eff.segments[k] EXCEPT !.settled = TRUE]
                 ELSE [Eff.segments[k] EXCEPT
                         !.ino = arch[p].stage, !.settled = TRUE,
                         !.compressed = TRUE, !.old = Eff.segments[k].ino])
        PROVE  IInv'
    <2>1. k \in 1..Len(Eff.segments) /\ Eff.segments[k].ino = arch[p].ino
      BY <1>7 DEF Replaceable, Entries, Eff
    <2>s. PICK s : s = Eff.segments[k]
      OBVIOUS
    <2>2. s \in Segment /\ arch[p].stage \in Nat
      BY <1>0, <1>1, <2>1, <2>s, SegmentsType DEF Archiver
    <2>3. manifest.managed
      <3>1. ~manifest.managed => Eff.segments = <<>>
        BY <1>0 DEF ChainInv, ActiveInv, Eff, Effective, Swapped, Unmanaged
      <3> QED BY <2>1, <3>1
    <2>4. CASE arch[p].at = "settle"
      <3> DEFINE new == [s EXCEPT !.settled = TRUE]
      <3>1. /\ new \in Segment /\ new.start = s.start /\ new.length = s.length
            /\ new.ino = s.ino /\ new.old = s.old
        BY <2>2 DEF Segment
      <3>2. manifest' = WithEntry(k, new)
        BY <1>7, <2>4, <2>s
      <3> HIDE DEF new
      <3> QED BY <1>2, <1>5, <2>1, <2>3, <2>s, <3>1, <3>2, ArchiveRewrites
    <2>5. CASE arch[p].at = "publish"
      <3> DEFINE new == [s EXCEPT !.ino = arch[p].stage, !.settled = TRUE,
                                  !.compressed = TRUE, !.old = s.ino]
      <3>1. /\ new \in Segment /\ new.start = s.start /\ new.length = s.length
            /\ new.ino = arch[p].stage /\ new.old = s.ino
        BY <2>2 DEF Segment
      <3>2. manifest' = WithEntry(k, new)
        BY <1>7, <2>5, <2>s
      <3> HIDE DEF new
      <3> QED BY <1>2, <1>5, <2>1, <2>3, <2>5, <2>s, <3>1, <3>2, ArchiveRewrites
    <2> QED BY <1>7, <2>4, <2>5
  <1> QED BY <1>6, <1>7 DEF Publish, Eff

LEMMA Retires ==
    ASSUME IInv, TypeOK', NEW p \in Procs, Retire(p)
    PROVE  IInv'
  <1>0. TypeOK /\ Alloc /\ ChainInv /\ PhaseInv /\ ReceiptInv /\ ArchInv /\ ReadInv
    BY DEF IInv
  <1>1. arch \in [Procs -> Archiver] /\ arch[p] \in Archiver
    BY <1>0 DEF TypeOK
  <1>2. /\ UNCHANGED <<content, synced, top, bus, manifest, fd, rd, history, job>>
        /\ holder = NoProc /\ phase = "free" /\ job.m = Unmanaged
    BY <1>0 DEF Retire, PhaseInv
  <1>3. CASE /\ UNCHANGED <<named, holder, phase>>
             /\ \/ arch' = [arch EXCEPT ![p] = Settled(arch[p], TRUE)]
                \/ arch' = [arch EXCEPT ![p] = Settled(arch[p], FALSE)]
    <2>0. Settled(arch[p], TRUE).at = "loop" /\ Settled(arch[p], FALSE).at = "loop"
      BY <1>1, SettledType
    <2>1. arch'[p].at = "loop" /\ \A q \in Procs : q # p => arch'[q] = arch[q]
      BY <1>1, <1>3, <2>0
    <2>2. UNCHANGED <<disk, fd, holder, phase, job, rd, history>>
      BY <1>2, <1>3 DEF disk
    <2>3. \A q \in Procs : arch'[q].at \in {"compress", "settle"} =>
            Frozen(arch'[q].ino)
      BY <1>0, <2>1 DEF ArchInv
    <2>4. \A q \in Procs : arch'[q].at = "publish" =>
             /\ arch[q].at = "publish"
             /\ arch'[q].ino = arch[q].ino
             /\ arch'[q].stage = arch[q].stage
      BY <2>1
    <2> QED BY <2>2, <2>3, <2>4, ArchiverMoves
  <1>4. ASSUME NEW k \in 1..Len(Eff.segments),
               named' = named \ {Eff.segments[k].old},
               holder' = p, phase' = "unlinked", arch' = arch
        PROVE  IInv'
    <2>1. /\ bus' = bus /\ manifest' = manifest /\ content' = content
          /\ top' = top /\ synced' = synced /\ log' = log
          /\ receipts' = receipts /\ rows' = rows /\ job' = job /\ rd' = rd /\ fd' = fd
      BY <1>2 DEF history
    <2>2. \A l \in 1..Len(Eff.segments) : Eff.segments[l].ino \in named'
      BY <1>0, <1>4 DEF ChainInv, Closed, Distinct
    <2>3. top <= top'
      BY <1>0, <2>1 DEF TypeOK, Inodes
    <2>4. synced[bus] <= synced'[bus]
      BY <1>0, <2>1 DEF TypeOK
    <2>5. Calm /\ Eff' = Eff
      BY <1>0, <2>1, <2>2, <2>3, CalmSame DEF Frozen
    <2>6. ChainInv' /\ ReadInv' /\ ReceiptInv'
      BY <1>0, <2>1, <2>4, <2>5, CalmChain, CalmReader, CalmReceipts
    <2>7. ArchInv'
      <3>1. \A i : Frozen(i) => Frozen(i)'
        BY <2>5 DEF Calm
      <3>2. \A q \in Procs : arch[q].at = "publish" =>
             /\ arch[q].stage \in named'
             /\ \A l \in 1..Len(Eff'.segments) :
                  /\ arch[q].stage # Eff'.segments[l].ino
                  /\ arch[q].stage # Eff'.segments[l].old
        BY <1>0, <1>4, <2>5 DEF ArchInv
      <3>3. \A q \in Procs : arch'[q].at \in {"compress", "settle"} =>
              Frozen(arch'[q].ino)
        BY <1>0, <1>4 DEF ArchInv
      <3>4. \A i : Frozen(i) => content'[i] = content[i]
        BY <2>1
      <3> QED BY <1>0, <1>4, <3>1, <3>2, <3>3, <3>4, ArchKept
    <2>8. Alloc'
      BY <1>0, <1>4, <2>1 DEF Alloc
    <2>9. PhaseInv'
      <3>1. p # NoProc
        BY BusAssumption
      <3> QED BY <1>0, <1>2, <1>4, <2>1, <3>1 DEF PhaseInv, Pinned
    <2> QED BY <2>6, <2>7, <2>8, <2>9 DEF IInv
  <1> QED BY <1>3, <1>4 DEF Retire, Retirable, Entries, Eff

LEMMA Forgets ==
    ASSUME IInv, TypeOK', NEW p \in Procs, Forget(p)
    PROVE  IInv'
  <1>0. TypeOK /\ Alloc /\ ChainInv /\ PhaseInv /\ ReceiptInv /\ ArchInv /\ ReadInv
    BY DEF IInv
  <1>1. arch \in [Procs -> Archiver] /\ arch[p] \in Archiver
    BY <1>0 DEF TypeOK
  <1>2. /\ UNCHANGED <<content, synced, named, top, bus, fd, rd, history>>
        /\ job'.m = Unmanaged /\ holder' = NoProc /\ phase' = "free"
    BY BlankTypes DEF Forget, Release
  <1>3. arch'[p].at = "loop" /\ \A q \in Procs : q # p => arch'[q] = arch[q]
    <2>1. Settled(arch[p], TRUE).at = "loop" /\ Settled(arch[p], FALSE).at = "loop"
      BY <1>1, SettledType
    <2> QED BY <1>1, <2>1 DEF Forget
  <1>4. CASE manifest' = manifest
    <2>1. /\ bus' = bus /\ manifest' = manifest /\ content' = content
          /\ named' = named /\ top' = top /\ synced' = synced /\ log' = log
          /\ receipts' = receipts /\ rows' = rows /\ rd' = rd /\ fd' = fd
      BY <1>2, <1>4 DEF history
    <2>2. \A l \in 1..Len(Eff.segments) : Eff.segments[l].ino \in named'
      BY <1>0, <2>1 DEF ChainInv, Closed
    <2>3. top <= top'
      BY <1>0, <2>1 DEF TypeOK, Inodes
    <2>4. synced[bus] <= synced'[bus]
      BY <1>0, <2>1 DEF TypeOK
    <2>5. ~job'.m.swap
      BY <1>2 DEF Unmanaged
    <2>6. Calm
      BY <1>0, <2>1, <2>2, <2>3, <2>5, CalmSame
    <2>7. ChainInv' /\ ReadInv' /\ ReceiptInv'
      BY <1>0, <2>1, <2>4, <2>6, CalmChain, CalmReader, CalmReceipts
    <2>8. ArchInv'
      <3>1. \A q \in Procs : arch'[q].at \in {"compress", "settle"} =>
              Frozen(arch'[q].ino)
        BY <1>0, <1>3 DEF ArchInv
      <3>2. \A q \in Procs : arch'[q].at = "publish" =>
               /\ arch[q].at = "publish"
               /\ arch'[q].ino = arch[q].ino
               /\ arch'[q].stage = arch[q].stage
        BY <1>3
      <3>3. named \subseteq named'
        BY <2>1
      <3> QED BY <1>0, <2>6, <3>1, <3>2, <3>3, CalmArch
    <2>9. Alloc'
      BY <1>0, <2>1 DEF Alloc
    <2>10. PhaseInv'
      BY <1>0, <1>2, <2>1 DEF PhaseInv, Pinned
    <2> QED BY <2>7, <2>8, <2>9, <2>10 DEF IInv
  <1>5. ASSUME NEW k \in Retirable(arch[p]),
               manifest' = WithEntry(k, [Eff.segments[k] EXCEPT !.old = NoIno])
        PROVE  IInv'
    <2>1. k \in 1..Len(Eff.segments)
      BY <1>5 DEF Retirable, Entries, Eff
    <2>s. PICK s : s = Eff.segments[k]
      OBVIOUS
    <2>2. s \in Segment
      BY <1>0, <2>1, <2>s, SegmentsType
    <2>3. manifest.managed
      <3>1. ~manifest.managed => Eff.segments = <<>>
        BY <1>0 DEF ChainInv, ActiveInv, Eff, Effective, Swapped, Unmanaged
      <3> QED BY <2>1, <3>1
    <2> DEFINE new == [s EXCEPT !.old = NoIno]
    <2>4. /\ new \in Segment /\ new.start = s.start /\ new.length = s.length
          /\ new.ino = s.ino /\ new.old = NoIno
      BY <2>2 DEF Segment
    <2>5. manifest' = WithEntry(k, new)
      BY <1>5, <2>s
    <2> HIDE DEF new
    <2> QED BY <1>2, <1>3, <2>1, <2>3, <2>s, <2>4, <2>5, ArchiveRewrites
  <1> QED BY <1>4, <1>5 DEF Forget, Eff
-----------------------------------------------------------------------------
(* The reader changes nothing but its own view.                            *)

\* What holds of a manifest as it is read from the disk.
LEMMA ManifestReadable ==
    ASSUME TypeOK, ChainInv, PhaseInv, manifest.managed
    PROVE  /\ \A k \in 1..Len(manifest.segments) : Holds(manifest.segments[k])
           /\ WasActive(manifest.active)
           /\ manifest.swap =>
                \/ /\ bus = manifest.next.ino
                   /\ Holds(manifest.closed)
                   /\ manifest.next.start = ActiveStart
                \/ ~Swapped(manifest)
  <1>0. manifest \in Manifest /\ ActiveStart \in Nat
    BY SegmentsType DEF TypeOK
  <1>1. /\ manifest.segments \in Seq(Segment) /\ manifest.closed \in Segment
        /\ manifest.active \in Segment
    BY <1>0 DEF Manifest
  <1>2. CASE ~Swapped(manifest)
    <2>1. Eff = manifest
      BY <1>2 DEF Eff, Effective
    <2>2. \A k \in 1..Len(manifest.segments) : Holds(manifest.segments[k])
      BY <2>1 DEF ChainInv, Closed
    <2>3. manifest.active.ino = bus /\ manifest.active.start = ActiveStart
      BY <2>1 DEF ChainInv, ActiveInv, ActiveStart, Eff
    <2>4. WasActive(manifest.active)
      BY <1>0, <2>3 DEF WasActive
    <2> QED BY <1>2, <2>2, <2>4
  <1>3. CASE Swapped(manifest)
    <2>1. /\ Eff.segments = Append(manifest.segments, manifest.closed)
          /\ Eff.active = manifest.next /\ manifest.swap
          /\ bus = manifest.next.ino
      BY <1>0, <1>3, CompletedType DEF Eff, Effective, Swapped
    <2>2. /\ Len(Eff.segments) = Len(manifest.segments) + 1
          /\ Len(manifest.segments) \in Nat
          /\ Eff.segments[Len(manifest.segments) + 1] = manifest.closed
          /\ \A k \in 1..Len(manifest.segments) : Eff.segments[k] = manifest.segments[k]
      BY <1>1, <2>1
    <2>3. Len(manifest.segments) + 1 \in 1..Len(Eff.segments)
      BY <2>2
    <2>4. Closed(manifest.closed)
      BY <2>2, <2>3 DEF ChainInv
    <2>5. \A k \in 1..Len(manifest.segments) : Holds(manifest.segments[k])
      <3> SUFFICES ASSUME NEW k \in 1..Len(manifest.segments)
                   PROVE  Holds(manifest.segments[k])
        OBVIOUS
      <3>1. k \in 1..Len(Eff.segments) /\ Eff.segments[k] = manifest.segments[k]
        BY <2>2
      <3> QED BY <3>1 DEF ChainInv, Closed
    <2>6. /\ manifest.active.ino = manifest.closed.ino
          /\ manifest.active.start = manifest.closed.start
      BY <2>1 DEF PhaseInv, Pinned
    <2>7. manifest.closed.start <= ActiveStart
      BY <1>0, <1>1, <2>4 DEF Closed, End, Segment
    <2>8. WasActive(manifest.active)
      BY <2>4, <2>6, <2>7 DEF WasActive, Closed, Holds
    <2>9. manifest.next.start = ActiveStart
      BY <2>1 DEF ActiveStart, Eff
    <2> QED BY <2>1, <2>4, <2>5, <2>8, <2>9 DEF Closed
  <1> QED BY <1>2, <1>3

\* Only rd changes: it is enough that the new view is sound.
LEMMA Views ==
    ASSUME IInv, TypeOK',
           UNCHANGED <<disk, today, fd, holder, phase, job, arch, history, faults>>,
           /\ rd'.at \in {"check", "recheck", "stat"} =>
                /\ \A k \in 1..Len(rd'.m.segments) : Holds(rd'.m.segments[k])
                /\ WasActive(rd'.m.active)
           /\ rd'.at \in {"check", "recheck"} /\ rd'.m.swap =>
                \/ Frozen(rd'.m.next.ino)
                \/ /\ bus = rd'.m.next.ino
                   /\ Holds(rd'.m.closed)
                   /\ rd'.m.next.start = ActiveStart
                \/ /\ manifest.swap /\ ~Swapped(manifest)
                   /\ rd'.m.next = manifest.next /\ rd'.m.closed = manifest.closed
           /\ rd'.segs # <<>> =>
                /\ rd'.length <= Len(log)
                /\ \A k \in 1..(Len(rd'.segs) - 1) : Holds(rd'.segs[k])
                /\ WasActive(rd'.segs[Len(rd'.segs)])
           /\ rd'.at = "open" => rd'.segs # <<>>
           /\ rd'.at \in {"check", "recheck", "stat"} \/ Len(rd'.segs) > 1 =>
                manifest.managed
    PROVE  IInv'
  <1>0. TypeOK /\ Alloc /\ ChainInv /\ PhaseInv /\ ReceiptInv /\ ArchInv /\ ReadInv
    BY DEF IInv
  <1>1. /\ bus' = bus /\ manifest' = manifest /\ content' = content
        /\ named' = named /\ top' = top /\ synced' = synced
        /\ log' = log /\ receipts' = receipts /\ rows' = rows
        /\ job' = job /\ fd' = fd /\ holder' = holder /\ phase' = phase
        /\ arch' = arch
    BY DEF disk, history
  <1>2. Swapped(manifest)' = Swapped(manifest) /\ Eff' = Eff
    BY <1>1 DEF Swapped, Eff, Effective
  <1>3. ActiveStart' = ActiveStart
    BY <1>2 DEF ActiveStart, Eff
  <1>4. \A i : Frozen(i)' <=> Frozen(i)
    BY <1>1 DEF Frozen
  <1>5. \A s : Holds(s)' <=> Holds(s)
    BY <1>1, <1>4 DEF Holds, End
  <1>6. \A s : (WasActive(s)' <=> WasActive(s)) /\ (Closed(s)' <=> Closed(s))
    BY <1>1, <1>3, <1>4, <1>5 DEF WasActive, Closed, End
  <1>7. Alloc' /\ ReceiptInv'
    BY <1>0, <1>1, <1>3 DEF Alloc, ReceiptInv
  <1>8. PhaseInv'
    BY <1>0, <1>1, <1>2 DEF PhaseInv, Pinned, Ready
  <1>9. ChainInv'
    <2>1. ActiveInv' /\ Contiguous' /\ Distinct'
      BY <1>0, <1>1, <1>2, <1>3 DEF ChainInv, ActiveInv, Contiguous, Distinct
    <2>2. \A k \in 1..Len(Eff'.segments) : Closed(Eff.segments[k])'
      BY <1>0, <1>2, <1>6 DEF ChainInv
    <2> QED BY <2>1, <2>2 DEF ChainInv
  <1>10. ArchInv'
    BY <1>0, <1>1, <1>2, <1>4 DEF ArchInv
  <1>11. ReadInv'
    <2>1. rd'.at \in {"check", "recheck", "stat"} =>
            /\ \A k \in 1..Len(rd'.m.segments) : Holds(rd.m.segments[k])'
            /\ WasActive(rd.m.active)'
      BY <1>5, <1>6
    <2>2. rd'.at \in {"check", "recheck"} /\ rd'.m.swap =>
            \/ Frozen(rd.m.next.ino)'
            \/ /\ bus' = rd'.m.next.ino
               /\ Holds(rd.m.closed)'
               /\ rd'.m.next.start = ActiveStart'
            \/ /\ manifest'.swap /\ ~Swapped(manifest)'
               /\ rd'.m.next = manifest'.next /\ rd'.m.closed = manifest'.closed
      BY <1>1, <1>2, <1>3, <1>4, <1>5
    <2>3. rd'.segs # <<>> =>
            /\ rd'.length <= Len(log')
            /\ \A k \in 1..(Len(rd'.segs) - 1) : Holds(rd.segs[k])'
            /\ WasActive(rd.segs[Len(rd.segs)])'
      BY <1>1, <1>5, <1>6
    <2> QED BY <1>1, <2>1, <2>2, <2>3 DEF ReadInv
  <1> QED BY <1>7, <1>8, <1>9, <1>10, <1>11 DEF IInv

LEMMA Reads ==
    ASSUME IInv, TypeOK', Read
    PROVE  IInv'
  <1>0. TypeOK /\ Alloc /\ ChainInv /\ PhaseInv /\ ReceiptInv /\ ArchInv /\ ReadInv
    BY DEF IInv
  <1>1. UNCHANGED <<disk, today, fd, holder, phase, job, arch, history, faults>>
    BY DEF Read, ReaderOpens, ReaderChecks, ReaderStats, ReaderReads, ReaderCloses
  <1>2. rd \in ReaderState /\ rd.m \in Manifest /\ rd.segs \in Seq(Segment)
    BY <1>0 DEF TypeOK, ReaderState
  <1>3. /\ rd.m.segments \in Seq(Segment) /\ rd.m.active \in Segment
        /\ rd.m.closed \in Segment /\ rd.m.next \in Segment
    BY <1>2 DEF Manifest
  <1>4. /\ NoReader.at = "closed" /\ NoReader.segs = <<>>
        /\ [NoReader EXCEPT !.at = "again"].at = "again"
        /\ [NoReader EXCEPT !.at = "again"].segs = <<>>
        /\ Len(<<>>) = 0
    BY DEF NoReader
  <1>5. CASE rd' = NoReader \/ rd' = [NoReader EXCEPT !.at = "again"]
    <2>1. rd'.at \in {"closed", "again"} /\ rd'.segs = <<>>
      BY <1>4, <1>5
    <2> QED BY <1>1, <1>4, <2>1, Views
  <1>6. ASSUME manifest.managed, rd'.m = manifest, rd'.segs = rd.segs,
               rd'.length = rd.length, rd'.at \in {"check", "recheck"}
        PROVE  IInv'
    <2>1. /\ \A k \in 1..Len(manifest.segments) : Holds(manifest.segments[k])
          /\ WasActive(manifest.active)
          /\ manifest.swap =>
               \/ /\ bus = manifest.next.ino
                  /\ Holds(manifest.closed)
                  /\ manifest.next.start = ActiveStart
               \/ ~Swapped(manifest)
      BY <1>0, <1>6, ManifestReadable
    <2> QED BY <1>0, <1>1, <1>6, <2>1, Views DEF ReadInv
  <1>7. CASE ReaderOpens
    <2>1. CASE manifest.managed
      <3>1. /\ rd'.m = manifest /\ rd'.segs = rd.segs /\ rd'.length = rd.length
            /\ rd'.at \in {"check", "recheck"}
        BY <1>2, <1>7, <2>1 DEF ReaderOpens, ReaderState
      <3> QED BY <1>6, <2>1, <3>1
    <2>2. CASE ~manifest.managed
      <3>s. PICK seg : seg = [new_segment(bus, 0, Undated)
                                EXCEPT !.length = Len(content[bus])]
        OBVIOUS
      <3>1. rd' = [rd EXCEPT !.at = "open", !.segs = <<seg>>,
                             !.length = Len(content[bus])]
        BY <1>7, <2>2, <3>s DEF ReaderOpens
      <3>2. rd'.at = "open" /\ rd'.segs = <<seg>> /\ rd'.length = Len(content[bus])
        BY <1>2, <3>1 DEF ReaderState
      <3>3. /\ bus \in Nat /\ 0 \in 0..MaxDay /\ Len(content[bus]) \in Nat
        <4>0. bus \in Inodes
          BY <1>0 DEF TypeOK
        <4>1. content[bus] \in Seq(Nat) /\ bus \in Nat
          <5>1. bus \in Nat
            BY <4>0 DEF Inodes
          <5> QED BY <1>0, <4>0, <5>1 DEF TypeOK
        <4> QED BY <4>1, BusAssumption
      <3>4. seg.ino = bus /\ seg.start = 0
        <4>1. new_segment(bus, 0, Undated) \in Segment
              /\ new_segment(bus, 0, Undated).ino = bus
              /\ new_segment(bus, 0, Undated).start = 0
          BY <3>3, NewSegmentType
        <4> QED BY <3>s, <4>1 DEF Segment
      <3>5. ActiveStart = 0 /\ Len(content[bus]) = Len(log)
        <4>1. manifest = Unmanaged
          BY <1>0, <2>2 DEF ChainInv, ActiveInv
        <4>2. ActiveStart = 0
          BY <4>1 DEF ActiveStart, Effective, Swapped, Unmanaged, Blank
        <4> QED BY <1>0, <3>3, <4>2 DEF ChainInv, ActiveInv
      <3>6. WasActive(seg)
        BY <3>4, <3>5 DEF WasActive
      <3>7. /\ <<seg>> # <<>> /\ Len(<<seg>>) = 1 /\ <<seg>>[1] = seg
            /\ 1..(1 - 1) = {}
        OBVIOUS
      <3>8. rd'.length <= Len(log)
        BY <3>2, <3>3, <3>5
      <3> QED BY <1>1, <3>2, <3>6, <3>7, <3>8, Views
    <2> QED BY <2>1, <2>2
  <1>8. CASE ReaderChecks
    <2>1. CASE ~Resolves(rd.m)
      BY <1>5, <1>8, <2>1 DEF ReaderChecks
    <2>2. CASE Resolves(rd.m)
      <3>0. rd.at \in {"check", "recheck"}
        BY <1>8 DEF ReaderChecks
      <3>1. /\ rd'.at = "stat" /\ rd'.m = Effective(rd.m)
            /\ rd'.segs = rd.segs /\ rd'.length = rd.length
        BY <1>2, <1>8, <2>2 DEF ReaderChecks, ReaderState
      <3>2. /\ \A k \in 1..Len(rd.m.segments) : Holds(rd.m.segments[k])
            /\ WasActive(rd.m.active) /\ manifest.managed
        BY <1>0, <3>0 DEF ReadInv
      <3>3. /\ \A k \in 1..Len(rd'.m.segments) : Holds(rd'.m.segments[k])
            /\ WasActive(rd'.m.active)
        <4>1. CASE ~Swapped(rd.m)
          BY <3>1, <3>2, <4>1 DEF Effective
        <4>2. CASE Swapped(rd.m)
          <5>1. rd.m.swap /\ bus = rd.m.next.ino
            BY <4>2 DEF Swapped
          <5>2. Holds(rd.m.closed) /\ rd.m.next.start = ActiveStart
            BY <1>0, <3>0, <5>1 DEF ReadInv, Frozen, Swapped
          <5>3. rd'.m.segments = Append(rd.m.segments, rd.m.closed)
                /\ rd'.m.active = rd.m.next
            BY <1>2, <3>1, <4>2, CompletedType DEF Effective
          <5>4. /\ Len(rd'.m.segments) = Len(rd.m.segments) + 1
                /\ Len(rd.m.segments) \in Nat
                /\ rd'.m.segments[Len(rd.m.segments) + 1] = rd.m.closed
                /\ \A k \in 1..Len(rd.m.segments) : rd'.m.segments[k] = rd.m.segments[k]
            BY <1>3, <5>3
          <5>5. \A k \in 1..Len(rd'.m.segments) :
                  k \in 1..Len(rd.m.segments) \/ k = Len(rd.m.segments) + 1
            BY <5>4
          <5>6. \A k \in 1..Len(rd'.m.segments) : Holds(rd'.m.segments[k])
            BY <3>2, <5>2, <5>4, <5>5
          <5>7. WasActive(rd'.m.active)
            <6>1. ActiveStart \in Nat
              BY <1>0, SegmentsType
            <6> QED BY <5>1, <5>2, <5>3, <6>1 DEF WasActive
          <5> QED BY <5>6, <5>7
        <4> QED BY <4>1, <4>2
      <3> QED BY <1>0, <1>1, <3>1, <3>2, <3>3, Views DEF ReadInv
    <2> QED BY <2>1, <2>2
  <1>9. CASE ReaderStats
    <2>a. PICK active : active = [rd.m.active EXCEPT !.length = Len(content[bus])]
      OBVIOUS
    <2>b. PICK segs : segs = Append(rd.m.segments, active)
      OBVIOUS
    <2>1. \/ rd' = NoReader
          \/ /\ rd'.at = "open" /\ rd'.segs = segs
             /\ \/ rd.segs = <<>> /\ rd'.length = End(active)
                \/ rd.segs # <<>> /\ rd'.length = rd.length
      <3>1. \/ rd' = NoReader
            \/ rd.segs = <<>> /\ rd' = [rd EXCEPT !.at = "open", !.segs = segs,
                                        !.length = End(active), !.m = Unmanaged]
            \/ rd.segs # <<>> /\ rd' = [rd EXCEPT !.at = "open", !.segs = segs,
                                        !.m = Unmanaged, !.want = Blank]
        BY <1>9, <2>a, <2>b DEF ReaderStats
      <3> QED BY <1>2, <3>1 DEF ReaderState
    <2>2. CASE rd' = NoReader
      BY <1>5, <2>2
    <2>3. CASE /\ rd'.at = "open" /\ rd'.segs = segs
               /\ \/ rd.segs = <<>> /\ rd'.length = End(active)
                  \/ rd.segs # <<>> /\ rd'.length = rd.length
      <3>0. /\ \A k \in 1..Len(rd.m.segments) : Holds(rd.m.segments[k])
            /\ WasActive(rd.m.active) /\ manifest.managed
        BY <1>0, <1>9 DEF ReadInv, ReaderStats
      <3>1. /\ content[bus] \in Seq(Nat) /\ Len(content[bus]) \in Nat
            /\ ActiveStart \in Nat /\ ActiveStart + Len(content[bus]) = Len(log)
        <4>1. content[bus] \in Seq(Nat)
          BY <1>0 DEF TypeOK
        <4> QED BY <1>0, <4>1, SegmentsType DEF ChainInv, ActiveInv
      <3>2. /\ active \in Segment /\ active.ino = rd.m.active.ino
            /\ active.start = rd.m.active.start
            /\ active.length = Len(content[bus]) /\ active.start \in Nat
        BY <1>3, <2>a, <3>1 DEF Segment
      <3>3. WasActive(active)
        BY <3>0, <3>2 DEF WasActive
      <3>4. End(active) <= Len(log)
        BY <3>1, <3>2, <3>3 DEF WasActive, End
      <3>5. /\ Len(segs) = Len(rd.m.segments) + 1 /\ segs # <<>>
            /\ Len(rd.m.segments) \in Nat /\ segs[Len(segs)] = active
            /\ \A k \in 1..Len(rd.m.segments) : segs[k] = rd.m.segments[k]
        BY <1>3, <2>b, <3>2
      <3>6. 1..(Len(segs) - 1) = 1..Len(rd.m.segments)
        BY <3>5
      <3>7. rd'.length <= Len(log)
        BY <1>0, <2>3, <3>4 DEF ReadInv
      <3> QED BY <1>1, <2>3, <3>0, <3>3, <3>5, <3>6, <3>7, Views
    <2> QED BY <2>1, <2>2, <2>3
  <1>10. ASSUME NEW q \in 0..MaxRows, ReaderReads(q) PROVE IInv'
    <2>1. PICK k \in 1..Len(rd.segs) :
            rd' = IF Missing(k)
                  THEN [rd EXCEPT !.at = "check", !.m = manifest, !.want = rd.segs[k]]
                  ELSE NoReader
      BY <1>10 DEF ReaderReads
    <2>2. CASE ~Missing(k)
      BY <1>5, <2>1, <2>2
    <2>3. CASE Missing(k)
      <3>1. Len(rd.segs) \in Nat
        BY <1>2
      <3>2. Len(rd.segs) > 1
        BY <2>3, <3>1 DEF Missing
      <3>3. manifest.managed
        BY <1>0, <3>2 DEF ReadInv
      <3>4. /\ rd'.m = manifest /\ rd'.segs = rd.segs /\ rd'.length = rd.length
            /\ rd'.at = "check"
        BY <1>2, <2>1, <2>3 DEF ReaderState
      <3> QED BY <1>6, <3>3, <3>4
    <2> QED BY <2>2, <2>3
  <1>11. CASE ReaderCloses
    BY <1>5, <1>11 DEF ReaderCloses
  <1> QED BY <1>7, <1>8, <1>9, <1>10, <1>11 DEF Read
-----------------------------------------------------------------------------
(* The invariant holds.                                                    *)

LEMMA InitInv == Init => IInv
  <1> SUFFICES ASSUME Init PROVE IInv
    OBVIOUS
  <1>1. TypeOK
    BY InitTyped
  <1>2. /\ manifest = Unmanaged /\ bus = 1 /\ top = 1 /\ named = {}
        /\ log = content[1] /\ receipts = {} /\ holder = NoProc /\ phase = "free"
        /\ job = NoJob /\ arch = [p \in Procs |-> Idle] /\ rd = NoReader
        /\ fd = [p \in Procs |-> NoIno]
        /\ synced = [i \in Inodes |-> Len(content[i])]
        /\ \A i \in Inodes \ {1} : content[i] = <<>>
    BY DEF Init
  <1>3. ~Swapped(manifest) /\ Eff = Unmanaged
    BY <1>2 DEF Swapped, Eff, Effective, Unmanaged
  <1>4. ActiveStart = 0 /\ Eff.segments = <<>> /\ Eff.active.old = NoIno
    BY <1>3 DEF ActiveStart, Eff, Unmanaged, Blank
  <1>5. 1 \in Inodes /\ content[1] \in Seq(Nat) /\ Len(content[1]) \in Nat
    <2>1. 1 \in Inodes
      BY BusAssumption DEF Inodes
    <2> QED BY <1>1, <2>1 DEF TypeOK
  <1>6. Alloc
    <2>1. \A i \in Inodes : i > 1 => content[i] = <<>>
      BY <1>2 DEF Inodes
    <2> QED BY <1>2, <1>5, <2>1 DEF Alloc
  <1>7. ChainInv
    <2>1. ActiveInv
      <3>1. ~manifest.managed
        BY <1>2 DEF Unmanaged
      <3> QED BY <1>2, <1>4, <1>5, <3>1 DEF ActiveInv
    <2>2. Len(Eff.segments) = 0
      BY <1>4
    <2> QED BY <1>4, <2>1, <2>2 DEF ChainInv, Contiguous, Distinct
  <1>8. PhaseInv
    <2>1. job.m = Unmanaged /\ ~manifest.swap
      BY <1>2, BlankTypes DEF Unmanaged
    <2> QED BY <1>2, <1>3, <2>1 DEF PhaseInv
  <1>9. ReceiptInv /\ ArchInv
    BY <1>2 DEF ReceiptInv, ArchInv, Idle
  <1>10. ReadInv
    BY <1>2 DEF ReadInv, NoReader
  <1> QED BY <1>1, <1>6, <1>7, <1>8, <1>9, <1>10 DEF IInv

LEMMA StepInv == IInv /\ [Next]_vars => IInv'
  <1> SUFFICES ASSUME IInv, [Next]_vars PROVE IInv'
    OBVIOUS
  <1>0. TypeOK'
    BY StepTyped
  <1>1. ASSUME NEW p \in Procs, Append_(p) PROVE IInv'
    BY <1>0, <1>1, AppendCalm, Renames, WritesRow DEF Append_
  <1>2. ASSUME NEW p \in Procs, Fails(p) PROVE IInv'
    BY <1>0, <1>2, AppendCalm, WritesRow DEF Fails
  <1>3. ASSUME NEW p \in Procs, Archive(p) PROVE IInv'
    BY <1>0, <1>3, ArchiveReads, Compresses, Publishes, Retires, Forgets DEF Archive
  <1>4. CASE PowerLoss
    BY <1>0, <1>4, LosesPower
  <1>5. CASE Read
    BY <1>0, <1>5, Reads
  <1>6. CASE UNCHANGED vars
    <2>1. /\ UNCHANGED <<disk, today, fd, holder, phase, job, arch, history, faults>>
          /\ rd' = rd
      BY <1>6 DEF vars, disk, history
    <2> QED BY <1>0, <2>1, Views DEF IInv, ReadInv
  <1> QED BY <1>1, <1>2, <1>3, <1>4, <1>5, <1>6 DEF Next

LEMMA Invariance == Spec => []IInv
  BY InitInv, StepInv, PTL DEF Spec

\* Type correctness, for any number of processes, inodes, rows, days, faults.
THEOREM BusTyped == Spec => []TypeOK
  <1>1. IInv => TypeOK
    BY DEF IInv
  <1> QED BY Invariance, <1>1, PTL

LEMMA Resolving == IInv => AlwaysResolves
  <1> SUFFICES ASSUME IInv, manifest.managed PROVE ChainChecks(Eff)
    BY DEF AlwaysResolves, Resolves, Eff
  <1>1. TypeOK /\ ChainInv
    BY DEF IInv
  <1>2. \A k \in 1..Len(Eff.segments) :
          /\ Eff.segments[k].ino \in named
          /\ Len(content[Eff.segments[k].ino]) = Eff.segments[k].length
    BY <1>1 DEF ChainInv, Closed, Holds
  <1> QED BY <1>1, <1>2 DEF ChainChecks, ChainInv, ActiveInv, Contiguous, ActiveStart, Eff

\* prepare_append and Reader::open never meet a chain that resolved()
\* refuses, whatever deaths, failing writes and power losses went before.
THEOREM ChainAlwaysResolves == Spec => []AlwaysResolves
  BY Invariance, Resolving, PTL

\* Every position of the chain holds its row of the log.
LEMMA RowsAreLogged ==
    ASSUME IInv
    PROVE  /\ Length = Len(log) /\ Len(log) \in Nat
           /\ \A n \in 1..Len(log) : RowAt(n) = log[n]
  <1>0. TypeOK /\ ChainInv
    BY DEF IInv
  <1>1. /\ content[bus] \in Seq(Nat) /\ Len(content[bus]) \in Nat
        /\ ActiveStart \in Nat /\ Len(log) \in Nat
    <2>1. content[bus] \in Seq(Nat) /\ log \in Seq(Nat)
      BY <1>0 DEF TypeOK
    <2> QED BY <1>0, <2>1, SegmentsType
  <1>2. ActiveStart + Len(content[bus]) = Len(log)
    BY <1>0 DEF ChainInv, ActiveInv
  <1>3. ASSUME NEW n \in 1..Len(log) PROVE RowAt(n) = log[n]
    <2>1. CASE n > ActiveStart
      <3>1. n - ActiveStart \in 1..Len(content[bus]) /\ ActiveStart + (n - ActiveStart) = n
        BY <1>1, <1>2, <2>1
      <3>2. content[bus][n - ActiveStart] = log[ActiveStart + (n - ActiveStart)]
        BY <1>0, <3>1 DEF ChainInv, ActiveInv
      <3> QED BY <2>1, <3>1, <3>2 DEF RowAt
    <2>2. CASE ~(n > ActiveStart)
      <3>1. n \in 1..ActiveStart
        BY <1>1, <2>2
      <3> DEFINE In(j) == Eff.segments[j].start < n /\ n <= End(Eff.segments[j])
                 k == CHOOSE j \in 1..Len(Eff.segments) : In(j)
      <3>2. \E j \in 1..Len(Eff.segments) : In(j)
        BY <1>0, <3>1 DEF ChainInv, Contiguous
      <3>3. k \in 1..Len(Eff.segments) /\ In(k)
        BY <3>2
      <3>4. RowAt(n) = content[Eff.segments[k].ino][n - Eff.segments[k].start]
        BY <2>2 DEF RowAt, Eff
      <3> HIDE DEF k
      <3>s. PICK s : s = Eff.segments[k]
        OBVIOUS
      <3>5. s \in Segment /\ Holds(s) /\ s.start < n /\ n <= End(s)
        BY <1>0, <3>3, <3>s, SegmentsType DEF ChainInv, Closed
      <3>6. s.start \in Nat /\ s.length \in Nat
        BY <3>5 DEF Segment
      <3>7. n - s.start \in 1..s.length /\ s.start + (n - s.start) = n
        BY <3>5, <3>6 DEF End
      <3>8. content[s.ino][n - s.start] = log[s.start + (n - s.start)]
        BY <3>5, <3>7 DEF Holds
      <3> QED BY <3>4, <3>7, <3>8, <3>s
    <2> QED BY <2>1, <2>2
  <1> QED BY <1>1, <1>2, <1>3 DEF Length

LEMMA StreamIsLog == IInv => Stream = log
  <1> SUFFICES ASSUME IInv PROVE Stream = log
    OBVIOUS
  <1>1. log \in Seq(Nat)
    BY DEF IInv, TypeOK
  <1>2. log = [n \in 1..Len(log) |-> log[n]]
    BY <1>1
  <1>3. Stream = [n \in 1..Len(log) |-> RowAt(n)]
    BY RowsAreLogged DEF Stream
  <1> QED BY <1>2, <1>3, RowsAreLogged

LEMMA ReceiptsNameRows == IInv => ReceiptsHold
  <1> SUFFICES ASSUME IInv, NEW r \in receipts
               PROVE  r[1] \in 1..Length /\ Stream[r[1]] = r[2]
    BY DEF ReceiptsHold
  <1>1. TypeOK /\ Alloc /\ ChainInv /\ ReceiptInv
    BY DEF IInv
  <1>2. /\ Len(content[bus]) \in Nat /\ synced[bus] \in Nat /\ ActiveStart \in Nat
        /\ synced[bus] <= Len(content[bus])
    <2>1. content[bus] \in Seq(Nat) /\ synced[bus] \in Nat
      BY <1>1 DEF TypeOK
    <2> QED BY <1>1, <2>1, SegmentsType DEF Alloc
  <1>3. r[1] \in 1..(ActiveStart + synced[bus]) /\ log[r[1]] = r[2]
    BY <1>1 DEF ReceiptInv
  <1>4. r[1] \in 1..Length
    BY <1>2, <1>3 DEF Length
  <1> QED BY <1>3, <1>4, StreamIsLog

\* A durable receipt keeps naming its row across rollovers, archiving,
\* deaths of any process and power losses.
THEOREM ReceiptsKept == Spec => []ReceiptsHold
  BY Invariance, ReceiptsNameRows, PTL

LEMMA ViewsAreFaithful == IInv => ReaderIsFaithful
  <1> SUFFICES ASSUME IInv, rd.at = "open"
               PROVE  /\ rd.length <= Length
                      /\ \A q \in 0..(rd.length - 1) : \A k \in 1..Len(rd.segs) :
                           Covers(k, q) /\ Gives(k) =>
                             content[FileOf(k)][q - rd.segs[k].start + 1] = RowAt(q + 1)
    BY DEF ReaderIsFaithful
  <1>0. TypeOK /\ ChainInv /\ ReadInv
    BY DEF IInv
  <1>1. /\ rd.segs # <<>> /\ rd.length <= Len(log)
        /\ \A k \in 1..(Len(rd.segs) - 1) : Holds(rd.segs[k])
        /\ WasActive(rd.segs[Len(rd.segs)])
    BY <1>0 DEF ReadInv
  <1>2. /\ rd.segs \in Seq(Segment) /\ Len(rd.segs) \in Nat /\ rd.length \in Nat
        /\ \A k \in 1..Len(rd.segs) : rd.segs[k] \in Segment
    <2>1. rd.segs \in Seq(Segment) /\ rd.length \in Nat
      BY <1>0 DEF TypeOK, ReaderState
    <2> QED BY <2>1
  <1>3. /\ Length = Len(log) /\ Len(log) \in Nat
        /\ \A n \in 1..Len(log) : RowAt(n) = log[n]
    BY RowsAreLogged
  <1>4. ASSUME NEW q \in 0..(rd.length - 1), NEW k \in 1..Len(rd.segs),
               Covers(k, q), Gives(k)
        PROVE  content[FileOf(k)][q - rd.segs[k].start + 1] = RowAt(q + 1)
    <2>s. PICK s : s = rd.segs[k]
      OBVIOUS
    <2>1. /\ s.start \in Nat /\ s.length \in Nat /\ q \in Nat
          /\ s.start <= q /\ q < s.start + s.length
      <3>1. s \in Segment
        BY <1>2, <2>s
      <3>2. s.start \in Nat /\ s.length \in Nat /\ q \in Nat
        BY <3>1 DEF Segment
      <3>3. s.start <= q /\ q < s.start + s.length
        BY <1>4, <2>s DEF Covers, End
      <3> QED BY <3>2, <3>3
    <2>2. FileOf(k) = s.ino /\ Len(content[s.ino]) >= s.length
      BY <1>4, <2>s DEF Gives
    <2>3. q + 1 \in 1..Len(log)
      BY <1>1, <1>2, <1>3, <2>1
    <2>4. q - s.start + 1 \in 1..s.length /\ s.start + (q - s.start + 1) = q + 1
      BY <2>1
    <2>5. CASE k # Len(rd.segs)
      <3>1. k \in 1..(Len(rd.segs) - 1)
        BY <1>2, <2>5
      <3>2. Holds(s)
        BY <1>1, <2>s, <3>1
      <3>3. content[s.ino][q - s.start + 1] = log[s.start + (q - s.start + 1)]
        BY <2>4, <3>2 DEF Holds
      <3> QED BY <1>3, <2>2, <2>3, <2>4, <2>s, <3>3
    <2>6. CASE k = Len(rd.segs)
      <3>1. s.ino = bus
        BY <2>2, <2>6, <2>s DEF FileOf
      <3>2. s.start = ActiveStart
        BY <1>1, <2>6, <2>s, <3>1 DEF WasActive, Frozen
      <3>3. /\ Len(content[bus]) \in Nat
            /\ \A i \in 1..Len(content[bus]) : content[bus][i] = log[ActiveStart + i]
        <4>1. content[bus] \in Seq(Nat)
          BY <1>0 DEF TypeOK
        <4> QED BY <1>0, <4>1 DEF ChainInv, ActiveInv
      <3>4. q - s.start + 1 \in 1..Len(content[bus])
        BY <2>1, <2>2, <2>4, <3>1, <3>3
      <3>5. content[bus][q - s.start + 1] = log[s.start + (q - s.start + 1)]
        BY <3>2, <3>3, <3>4
      <3> QED BY <1>3, <2>2, <2>3, <2>4, <2>s, <3>1, <3>5
    <2> QED BY <2>5, <2>6
  <1> QED BY <1>1, <1>3, <1>4

\* A lock-free reader is given rows of the stream at their own positions or
\* none, whatever rollovers and archiving do under its view.
THEOREM ReadersFaithful == Spec => []ReaderIsFaithful
  BY Invariance, ViewsAreFaithful, PTL
-----------------------------------------------------------------------------
(* The refinement: the chain of files implements one append-only log.      *)

Durable == ActiveStart + synced[bus]

LEMMA DurableBound ==
    IInv => /\ ActiveStart \in Nat /\ synced[bus] \in Nat /\ Len(log) \in Nat
            /\ Len(content[bus]) \in Nat
            /\ ActiveStart + Len(content[bus]) = Len(log)
            /\ Durable \in Nat /\ Durable <= Len(log)
  <1> SUFFICES ASSUME IInv
               PROVE  /\ ActiveStart \in Nat /\ synced[bus] \in Nat /\ Len(log) \in Nat
                      /\ Len(content[bus]) \in Nat
                      /\ ActiveStart + Len(content[bus]) = Len(log)
                      /\ Durable \in Nat /\ Durable <= Len(log)
    OBVIOUS
  <1>0. TypeOK /\ Alloc /\ ChainInv
    BY DEF IInv
  <1>1. content[bus] \in Seq(Nat) /\ synced[bus] \in Nat /\ log \in Seq(Nat)
    BY <1>0 DEF TypeOK
  <1>2. /\ ActiveStart + Len(content[bus]) = Len(log)
        /\ synced[bus] <= Len(content[bus])
    BY <1>0 DEF ChainInv, ActiveInv, Alloc
  <1>3. ActiveStart \in Nat /\ Len(content[bus]) \in Nat /\ Len(log) \in Nat
    BY <1>0, <1>1, SegmentsType
  <1> QED BY <1>1, <1>2, <1>3 DEF Durable

\* A step that changes neither the log nor the file at the Bus path makes
\* rows durable at most.
Quiet ==
    /\ log' = log /\ bus' = bus /\ content'[bus] = content[bus]
    /\ synced[bus] <= synced'[bus]

LEMMA QuietSteps ==
    ASSUME IInv, IInv', [Next]_vars
    PROVE  \/ Quiet
           \/ PowerLoss
           \/ \E p \in Procs : RenameNext(p)
           \/ \E row \in Nat : /\ log' = Append(log, row) /\ bus' = bus
                               /\ content'[bus] = Append(content[bus], row)
                               /\ synced' = synced
  <1>0. TypeOK /\ Alloc /\ ChainInv /\ PhaseInv
    BY DEF IInv
  <1>1. /\ bus \in Inodes /\ synced \in [Inodes -> Nat] /\ content \in [Inodes -> Seq(Nat)]
        /\ synced[bus] \in Nat /\ synced[bus] <= Len(content[bus])
        /\ synced[bus] <= synced[bus] /\ Len(content[bus]) \in Nat
    <2>1. /\ bus \in Inodes /\ synced \in [Inodes -> Nat]
          /\ content \in [Inodes -> Seq(Nat)]
      BY <1>0 DEF TypeOK
    <2>2. synced[bus] \in Nat /\ content[bus] \in Seq(Nat)
      BY <2>1
    <2> QED BY <1>0, <2>1, <2>2 DEF Alloc
  <1>2. ASSUME NEW i, log' = log, bus' = bus, content' = content,
               synced' = [synced EXCEPT ![i] = Len(content[i])]
        PROVE  Quiet
    BY <1>1, <1>2 DEF Quiet
  <1>3. ASSUME log' = log, bus' = bus, content' = content, synced' = synced
        PROVE  Quiet
    BY <1>1, <1>3 DEF Quiet
  <1>4. ASSUME NEW p \in Procs, NEW row \in Nat, AppendRow(p, row),
               holder = p, phase = "write", bus' = bus, synced' = synced
        PROVE  /\ log' = Append(log, row) /\ bus' = bus
               /\ content'[bus] = Append(content[bus], row)
               /\ synced' = synced
    <2>1. fd[p] = bus
      BY <1>0, <1>4 DEF PhaseInv
    <2> QED BY <1>1, <1>4, <2>1 DEF AppendRow
  <1>5. ASSUME NEW p \in Procs, Append_(p), ~RenameNext(p), ~WriteRow(p)
        PROVE  Quiet
    <2>1. \/ log' = log /\ bus' = bus /\ content' = content /\ synced' = synced
          \/ /\ log' = log /\ bus' = bus /\ content' = content
             /\ \E i : synced' = [synced EXCEPT ![i] = Len(content[i])]
      BY <1>5 DEF Append_, Acquire, PrepareAppend, Stage,
                  StagePending, WritePending, WriteFinal, SyncRow, disk, history
    <2> QED BY <1>2, <1>3, <2>1
  <1>6. ASSUME NEW p \in Procs, WriteRow(p)
        PROVE  \E row \in Nat : /\ log' = Append(log, row) /\ bus' = bus
                                /\ content'[bus] = Append(content[bus], row)
                                /\ synced' = synced
    <2>1. rows + 1 \in Nat
      BY <1>0 DEF TypeOK
    <2> QED BY <1>4, <1>6, <2>1 DEF WriteRow
  <1>7. ASSUME NEW p \in Procs, Fails(p)
        PROVE  \/ Quiet
               \/ \E row \in Nat : /\ log' = Append(log, row) /\ bus' = bus
                                   /\ content'[bus] = Append(content[bus], row)
                                   /\ synced' = synced
    <2>1. \/ log' = log /\ bus' = bus /\ content' = content /\ synced' = synced
          \/ /\ AppendRow(p, Torn) /\ holder = p /\ phase = "write"
             /\ bus' = bus /\ synced' = synced
      BY <1>7 DEF Fails, PrepareFails, PendingFails, RenameFails, FinalFails,
                  WriteTears, SyncFails, Die, disk, history
    <2>2. Torn \in Nat
      OBVIOUS
    <2> QED BY <1>3, <1>4, <2>1, <2>2
  <1>8. ASSUME NEW p \in Procs, Archive(p) PROVE Quiet
    <2>1. CASE Compress(p)
      <3>1. /\ log' = log /\ bus' = bus
            /\ \/ content' = content /\ synced' = synced
               \/ /\ top' = top + 1
                  /\ content' = [content EXCEPT ![top'] = content[arch[p].ino]]
                  /\ synced' = [synced EXCEPT ![top'] = Len(content[arch[p].ino])]
        BY <2>1 DEF Compress, history
      <3>2. bus # top + 1
        BY <1>0 DEF Alloc, TypeOK, Inodes
      <3> QED BY <1>1, <1>3, <3>1, <3>2 DEF Quiet
    <2>2. CASE ~Compress(p)
      <3>1. log' = log /\ bus' = bus /\ content' = content /\ synced' = synced
        BY <1>8, <2>2 DEF Archive, ArchiveLoop, ArchiveLook, Publish, Retire, Forget,
                          disk, history
      <3> QED BY <1>3, <3>1
    <2> QED BY <2>1, <2>2
  <1>9. CASE Read
    <2>1. log' = log /\ bus' = bus /\ content' = content /\ synced' = synced
      BY <1>9 DEF Read, ReaderOpens, ReaderChecks, ReaderStats, ReaderReads,
                  ReaderCloses, disk, history
    <2> QED BY <1>3, <2>1
  <1>10. CASE UNCHANGED vars
    BY <1>3, <1>10 DEF vars
  <1> QED BY <1>5, <1>6, <1>7, <1>8, <1>9, <1>10 DEF Next

LEMMA LogStep ==
    IInv /\ IInv' /\ [Next]_vars => [Log!Next]_<<Stream, Durable>>
  <1> SUFFICES ASSUME IInv, IInv', [Next]_vars
               PROVE  [Log!Next]_<<Stream, Durable>>
    OBVIOUS
  <1>1. Stream = log
    BY StreamIsLog
  <1>2. Stream' = log'
    <2>1. (IInv => Stream = log)'
      BY StreamIsLog, PTL
    <2> QED BY <2>1
  <1>3. /\ ActiveStart \in Nat /\ synced[bus] \in Nat /\ Len(log) \in Nat
        /\ Len(content[bus]) \in Nat
        /\ ActiveStart + Len(content[bus]) = Len(log)
        /\ Durable \in Nat /\ Durable <= Len(log)
    BY DurableBound
  <1>4. /\ ActiveStart' \in Nat /\ synced'[bus'] \in Nat /\ Len(log') \in Nat
        /\ Len(content'[bus']) \in Nat
        /\ ActiveStart' + Len(content'[bus']) = Len(log')
        /\ Durable' \in Nat /\ Durable' <= Len(log')
    <2>1. (IInv => /\ ActiveStart \in Nat /\ synced[bus] \in Nat /\ Len(log) \in Nat
                   /\ Len(content[bus]) \in Nat
                   /\ ActiveStart + Len(content[bus]) = Len(log)
                   /\ Durable \in Nat /\ Durable <= Len(log))'
      BY DurableBound, PTL
    <2> QED BY <2>1
  <1>t. log \in Seq(Nat) /\ content[bus] \in Seq(Nat)
    BY DEF IInv, TypeOK
  <1>5. CASE Quiet
    <2>1. ActiveStart' = ActiveStart
      BY <1>3, <1>4, <1>5 DEF Quiet
    <2>2. Durable' \in Durable..Len(log)
      BY <1>3, <1>4, <1>5, <2>1 DEF Quiet, Durable
    <2>3. Log!MakeDurable
      BY <1>1, <1>2, <1>5, <2>2 DEF Log!MakeDurable, Quiet, Durable
    <2> QED BY <2>3 DEF Log!Next
  <1>6. ASSUME NEW p \in Procs, RenameNext(p) PROVE Log!Next
    <2>0. TypeOK'
      BY DEF IInv
    <2>1. ActiveStart' = Len(log) /\ log' = log
      BY <1>6, <2>0, Renames DEF RenameNext, history
    <2>2. Durable' \in Durable..Len(log)
      BY <1>3, <1>4, <2>1 DEF Durable
    <2>3. Log!MakeDurable
      BY <1>1, <1>2, <2>1, <2>2 DEF Log!MakeDurable, Durable
    <2> QED BY <2>3 DEF Log!Next
  <1>7. ASSUME NEW row \in Nat, log' = Append(log, row), bus' = bus,
               content'[bus] = Append(content[bus], row), synced' = synced
        PROVE  Log!Next
    <2>1. /\ Len(log') = Len(log) + 1
          /\ \A n \in 1..Len(log) : log'[n] = log[n]
      BY <1>7, <1>t
    <2>2. Len(content'[bus]) = Len(content[bus]) + 1
      BY <1>7, <1>t
    <2>3. ActiveStart' = ActiveStart
      BY <1>3, <1>4, <1>7, <2>1, <2>2
    <2>4. Durable' = Durable
      BY <1>7, <2>3 DEF Durable
    <2>5. Log!AppendOne
      BY <1>1, <1>2, <2>1, <2>4 DEF Log!AppendOne, Durable
    <2> QED BY <2>5 DEF Log!Next
  <1>8. CASE PowerLoss
    <2>0. TypeOK'
      BY DEF IInv
    <2>1. ActiveStart' = ActiveStart /\ bus' = bus
      BY <1>8, <2>0, LosesPower
    <2>2. PICK n \in Nat : Cut(n)
      BY <1>8, PowerLossCuts
    <2>3. n \in synced[bus]..Len(content[bus]) /\ log' = SubSeq(log, 1, ActiveStart + n)
      BY <2>2 DEF Cut
    <2>4. /\ Len(log') = ActiveStart + n
          /\ \A i \in 1..Len(log') : log'[i] = log[i]
      BY <1>3, <1>t, <2>3
    <2>5. CASE synced' = [synced EXCEPT ![bus] = n]
      <3>1. synced'[bus] = n
        BY <2>5 DEF IInv, TypeOK
      <3>2. Durable' = Len(log')
        BY <2>1, <2>4, <3>1 DEF Durable
      <3>3. Len(log') \in Durable..Len(log)
        BY <1>3, <2>3, <2>4 DEF Durable
      <3>4. Log!PowerLoss
        BY <1>1, <1>2, <2>4, <3>2, <3>3 DEF Log!PowerLoss, Durable
      <3> QED BY <3>4 DEF Log!Next
    <2>6. CASE synced' = synced /\ n = Len(content[bus])
      <3>1. log' = log
        BY <1>3, <1>t, <2>3, <2>6
      <3>2. Durable' = Durable
        BY <2>1, <2>6 DEF Durable
      <3> QED BY <1>1, <1>2, <3>1, <3>2
    <2> QED BY <2>2, <2>5, <2>6 DEF Cut
  <1> QED BY <1>5, <1>6, <1>7, <1>8, QuietSteps

\* Seen through the chain of files, the processes together only append rows,
\* make rows durable from the front, or lose rows that were not durable.
THEOREM BusImplementsLog == Spec => ImplementsLog
  <1>1. Init => Log!Init
    <2> SUFFICES ASSUME Init PROVE Log!Init
      OBVIOUS
    <2>1. IInv
      BY InitInv
    <2>2. Stream = log
      BY <2>1, StreamIsLog
    <2>3. bus \in Inodes /\ synced[bus] = Len(content[bus])
      BY <2>1 DEF Init, IInv, TypeOK
    <2>4. ActiveStart + Len(content[bus]) = Len(log)
      BY <2>1, DurableBound
    <2> QED BY <2>2, <2>3, <2>4 DEF Log!Init
  <1>2. IInv /\ IInv' /\ [Next]_vars =>
          [Log!Next]_<<Stream, ActiveStart + synced[bus]>>
    BY LogStep DEF Durable
  <1> QED BY <1>1, <1>2, Invariance, PTL DEF Spec, ImplementsLog, Log!Spec

-----------------------------------------------------------------------------
(* An interrupted rollover can be completed while the date does not return. *)

\* The pending swap of m closes the whole, synced file at the Bus path, whose
\* day is over, and its empty replacement is still there.
Reusable(m) ==
    /\ m.closed = [m.active EXCEPT !.length = Len(content[bus])]
    /\ m.active.ino = bus
    /\ m.closed.ino \in named
    /\ m.next.ino \in named
    /\ content[m.next.ino] = <<>>
    /\ m.next.start = End(m.closed)
    /\ synced[bus] = Len(content[bus])
    /\ m.active.day < m.next.day

\* No segment is dated after today, so a file with a pending swap is never
\* the file of today: no append reaches it before the swap is complete.
ReuseInv ==
    /\ manifest.active.day <= today
    /\ manifest.swap => manifest.next.day <= today
    /\ manifest.swap /\ ~Swapped(manifest) => Reusable(manifest)
    /\ phase = "roll" => manifest.active.day # today
    /\ phase = "pend" => Reusable(job.m) /\ job.m.next.day <= today
    /\ phase = "write" => ~manifest.swap

LEMMA DayTypes ==
    ASSUME NEW m \in Manifest
    PROVE  m.active.day \in Nat /\ m.next.day \in Nat
  <1>1. m.active \in Segment /\ m.next \in Segment
    BY DEF Manifest
  <1> QED BY <1>1 DEF Segment

\* What a step must leave alone to keep the invariant when it touches
\* neither the Bus path nor a pending swap.
LEMMA ReuseFrame ==
    ASSUME TypeOK, TypeOK', ReuseInv, bus' = bus, today <= today',
           manifest'.active.day <= today',
           manifest'.swap =>
             /\ manifest.swap
             /\ manifest'.active = manifest.active
             /\ manifest'.closed = manifest.closed
             /\ manifest'.next = manifest.next
             /\ ~Swapped(manifest) =>
                  /\ content'[bus] = content[bus]
                  /\ synced'[bus] = synced[bus]
                  /\ content'[manifest.next.ino] = content[manifest.next.ino]
                  /\ manifest.closed.ino \in named'
                  /\ manifest.next.ino \in named',
           phase' = "roll" => manifest'.active.day # today',
           phase' = "pend" => Reusable(job.m)' /\ job'.m.next.day <= today',
           phase' = "write" => ~manifest'.swap
    PROVE  ReuseInv'
  <1>1. today \in Nat /\ today' \in Nat
    BY DEF TypeOK, Days
  <1>2. manifest.next.day \in Nat /\ manifest'.next.day \in Nat
    BY DEF TypeOK, Manifest, Segment
  <1>3. manifest'.swap => manifest'.next.day <= today'
    BY <1>1, <1>2 DEF ReuseInv
  <1>4. ASSUME manifest'.swap, ~Swapped(manifest)' PROVE Reusable(manifest)'
    <2>1. manifest.swap /\ ~Swapped(manifest)
      BY <1>4 DEF Swapped
    <2> QED BY <1>4, <2>1 DEF ReuseInv, Reusable, End
  <1> QED BY <1>3, <1>4 DEF ReuseInv

\* What prepare_append finds or writes is not dated after today.
LEMMA PreparedDay ==
    ASSUME TypeOK, ChainInv, ReuseInv
    PROVE  /\ Prepared.active.day <= today
           /\ Prepared.swap =>
                /\ manifest.swap /\ ~Swapped(manifest)
                /\ Prepared = manifest
                /\ Prepared.active.day # today
  <1>1. today \in Days /\ today \in Nat
    BY DEF TypeOK, Days
  <1>2. CASE manifest.managed
    <2>1. Prepared = Eff
      BY <1>2 DEF Prepared, Eff
    <2>2. CASE Swapped(manifest)
      <3>1. Eff = Completed(manifest)
        BY <2>2 DEF Eff, Effective
      <3>2. Eff.active = manifest.next /\ ~Eff.swap
        BY <3>1, CompletedType DEF TypeOK
      <3> QED BY <2>1, <2>2, <3>2 DEF ReuseInv, Swapped
    <2>3. CASE ~Swapped(manifest)
      <3>1. Eff = manifest
        BY <2>3 DEF Eff, Effective
      <3>2. manifest.active.day \in Nat /\ manifest.next.day \in Nat
        BY DEF TypeOK, Manifest, Segment
      <3> QED BY <1>1, <2>1, <2>3, <3>1, <3>2 DEF ReuseInv, Reusable
    <2> QED BY <2>2, <2>3
  <1>3. CASE ~manifest.managed
    <2> DEFINE day == IF content[bus] = <<>> THEN today ELSE Undated
    <2>1. day <= today /\ day \in 0..MaxDay /\ bus \in Nat
      BY <1>1, BusAssumption DEF TypeOK, Inodes, Days
    <2>2. Prepared = [Unmanaged EXCEPT !.managed = TRUE,
                                       !.active = new_segment(bus, 0, day)]
      BY <1>3 DEF Prepared
    <2> HIDE DEF day
    <2>3. new_segment(bus, 0, day).day = day
      BY DEF new_segment, Blank
    <2>4. Prepared.active = new_segment(bus, 0, day) /\ ~Prepared.swap
      BY <2>2 DEF Unmanaged
    <2> QED BY <2>1, <2>3, <2>4
  <1> QED BY <1>2, <1>3

\* The steps of an append that write no row.
LEMMA AppendReuse ==
    ASSUME ~DateMayReturn, IInv, IInv', ReuseInv, NEW p \in Procs,
           \/ Acquire(p)     \/ PrepareAppend(p) \/ Stage(p)
           \/ StagePending(p) \/ WritePending(p) \/ WriteFinal(p)
           \/ SyncRow(p)     \/ PrepareFails(p)
           \/ PendingFails(p) \/ RenameFails(p)  \/ FinalFails(p)
           \/ SyncFails(p)   \/ RenameNext(p)
    PROVE  ReuseInv'
  <1>0. TypeOK /\ TypeOK' /\ Alloc /\ ChainInv /\ PhaseInv /\ PhaseInv'
    BY DEF IInv
  <1>1. /\ today \in Nat /\ today' \in Nat /\ today \in Days
        /\ manifest \in Manifest /\ job \in Job /\ job.m \in Manifest
        /\ content \in [Inodes -> Seq(Nat)] /\ synced \in [Inodes -> Nat]
        /\ bus \in Inodes /\ Len(content[bus]) \in Nat /\ synced[bus] \in Nat
    <2>1. content \in [Inodes -> Seq(Nat)] /\ bus \in Inodes /\ synced \in [Inodes -> Nat]
      BY <1>0 DEF TypeOK
    <2>2. content[bus] \in Seq(Nat) /\ synced[bus] \in Nat
      BY <2>1
    <2>3. today \in Days /\ today' \in Days /\ manifest \in Manifest /\ job \in Job
      BY <1>0 DEF TypeOK
    <2>4. today \in Nat /\ today' \in Nat /\ job.m \in Manifest
      BY <2>3 DEF Days, Job
    <2> QED BY <2>1, <2>2, <2>3, <2>4
  <1>2. today <= today
    BY <1>1
  <1>3. manifest.swap /\ ~Swapped(manifest) =>
          /\ manifest.closed.ino \in named /\ manifest.next.ino \in named
          /\ synced[bus] = Len(content[bus])
    BY DEF ReuseInv, Reusable
  <1>4. CASE Acquire(p)
    <2>1. today <= today' /\ UNCHANGED disk /\ phase' = "prepare"
      BY <1>1, <1>4 DEF Acquire
    <2>2. manifest'.active.day <= today'
      <3>1. manifest.active.day \in Nat
        BY <1>1 DEF Manifest, Segment
      <3> QED BY <1>1, <2>1, <3>1 DEF ReuseInv, disk
    <2> QED BY <1>0, <1>3, <2>1, <2>2, ReuseFrame DEF disk
  <1>5. CASE PrepareAppend(p) \/ PrepareFails(p)
    <2>1. /\ manifest' \in {manifest, Prepared}
          /\ UNCHANGED <<content, synced, named, top, bus, today>>
          /\ phase' \in {"free", "write", "roll"}
          /\ phase' = "write" => manifest' = Prepared /\ Prepared.active.day = today
          /\ phase' = "roll" => manifest' = Prepared /\ Prepared.active.day # today
      BY <1>5 DEF PrepareAppend, PrepareFails, Release
    <2>2. manifest'.active.day <= today'
      BY <1>0, <2>1, PreparedDay DEF ReuseInv
    <2>3. manifest'.swap => manifest' = manifest
      BY <1>0, <2>1, PreparedDay
    <2>4. phase' = "write" => ~manifest'.swap
      BY <1>0, <2>1, PreparedDay
    <2> QED BY <1>0, <1>2, <1>3, <2>1, <2>2, <2>3, <2>4, ReuseFrame
  <1>6. CASE Stage(p)
    <2>1. /\ job.m = manifest /\ manifest.managed /\ ~Swapped(manifest)
          /\ ~job.m.swap
      BY <1>0, <1>6 DEF Stage, PhaseInv
    <2>2. Eff = manifest /\ manifest.active.ino = bus
      BY <1>0, <2>1 DEF Eff, Effective, ChainInv, ActiveInv
    <2>n. PICK c : c = ClosedNow
      OBVIOUS
    <2>3. c \in Segment /\ c = [manifest.active EXCEPT !.length = Len(content[bus])]
      BY <1>1, <2>1, <2>2, <2>n DEF ClosedNow, Manifest, Segment
    <2>4. End(c) \in Nat
      BY <2>3, EndType
    <2>5. /\ top' = top + 1 /\ top' \in Inodes /\ top' \in Nat
          /\ UNCHANGED <<content, bus, manifest, today>> /\ phase' = "pend"
          /\ synced' = [synced EXCEPT ![bus] = Len(content[bus])]
          /\ named' = named \cup {bus, top'}
          /\ job' = [job EXCEPT !.m.swap = TRUE, !.m.closed = c,
                                !.m.next = new_segment(top', End(c), today)]
      BY <1>0, <1>6, <2>1, <2>2, <2>n DEF Stage, TypeOK, Inodes
    <2>x. PICK x : x = new_segment(top', End(c), today)
      OBVIOUS
    <2>6. x.ino = top' /\ x.start = End(c) /\ x.day = today
      BY <2>x DEF new_segment, Blank
    <2>7. /\ job'.m.closed = c /\ job'.m.next = x
          /\ job'.m.active = manifest.active
      BY <1>1, <2>1, <2>5, <2>x DEF Job, Manifest
    <2>8. content'[x.ino] = <<>>
      BY <1>0, <1>1, <2>5, <2>6 DEF Alloc, TypeOK, Inodes
    <2>9. manifest.active.day < today
      <3>1. manifest.active.day \in Nat
        BY <1>1 DEF Manifest, Segment
      <3> QED BY <1>1, <1>6, <3>1 DEF ReuseInv, Stage
    <2>10. c.ino = bus
      BY <1>1, <2>2, <2>3 DEF Manifest, Segment
    <2>11. Reusable(job.m)'
      <3>1. synced'[bus] = Len(content[bus])
        BY <1>1, <2>5
      <3>2. c.ino \in named' /\ x.ino \in named' /\ bus' = bus /\ content' = content
        BY <2>5, <2>6, <2>10
      <3> QED BY <2>2, <2>3, <2>6, <2>7, <2>8, <2>9, <3>1, <3>2 DEF Reusable
    <2> QED BY <1>0, <1>2, <2>1, <2>5, <2>6, <2>7, <2>9, <2>11, ReuseFrame DEF ReuseInv
  <1>7. CASE StagePending(p)
    <2>1. job.m = manifest /\ manifest.managed /\ ~Swapped(manifest) /\ manifest.swap
      BY <1>0, <1>7 DEF StagePending, PhaseInv
    <2>2. manifest.active.ino = bus
      BY <2>1 DEF ReuseInv, Reusable
    <2>3. synced' = [synced EXCEPT ![bus] = Len(content[bus])]
      BY <1>7, <2>1, <2>2 DEF StagePending
    <2>4. synced'[bus] = synced[bus]
      BY <1>1, <1>3, <2>1, <2>3
    <2>5. /\ UNCHANGED <<content, named, bus, manifest, today>>
          /\ phase' \in {"rename", "free"}
      BY <1>7 DEF StagePending, Release
    <2> QED BY <1>0, <1>2, <1>3, <2>4, <2>5, ReuseFrame DEF ReuseInv
  <1>8. CASE WritePending(p) \/ PendingFails(p)
    <2>1. /\ UNCHANGED <<content, synced, named, bus, today>>
          /\ phase' \in {"rename", "free"} /\ phase = "pend"
          /\ manifest' \in {manifest, job.m}
      BY <1>8 DEF WritePending, PendingFails, Release
    <2>2. CASE manifest' = manifest
      BY <1>0, <1>2, <1>3, <2>1, <2>2, ReuseFrame DEF ReuseInv
    <2>3. CASE manifest' = job.m
      <3>1. Reusable(job.m) /\ job.m.next.day <= today
        BY <2>1 DEF ReuseInv
      <3>2. Reusable(manifest)'
        BY <2>1, <2>3, <3>1 DEF Reusable
      <3>3. manifest'.active.day <= today'
        <4>1. job.m.active.day \in Nat /\ job.m.next.day \in Nat
          BY <1>1, DayTypes
        <4> QED BY <1>1, <2>1, <2>3, <3>1, <4>1 DEF Reusable
      <3> QED BY <2>1, <2>3, <3>1, <3>2, <3>3 DEF ReuseInv
    <2> QED BY <2>1, <2>2, <2>3
  <1>9. CASE RenameNext(p)
    <2>1. job.m = manifest /\ manifest.swap
      BY <1>0, <1>9 DEF RenameNext, PhaseInv
    <2>2. /\ bus' = manifest.next.ino /\ UNCHANGED <<manifest, today>>
          /\ phase' = "final"
      BY <1>9, <2>1 DEF RenameNext
    <2>3. Swapped(manifest)'
      BY <2>1, <2>2 DEF Swapped
    <2> QED BY <2>2, <2>3 DEF ReuseInv
  <1>10. CASE WriteFinal(p) \/ FinalFails(p)
    <2>1. job.m = manifest /\ manifest.swap
      BY <1>0, <1>10 DEF WriteFinal, FinalFails, PhaseInv, Swapped
    <2>2. /\ manifest' \in {manifest, Completed(manifest)}
          /\ UNCHANGED <<content, synced, named, bus, today>>
          /\ phase' \in {"write", "free"}
          /\ phase' = "write" => manifest' = Completed(manifest)
      BY <1>10, <2>1 DEF WriteFinal, FinalFails, Release
    <2>3. ~Completed(manifest).swap /\ Completed(manifest).active = manifest.next
      BY <1>1, CompletedType
    <2> QED BY <1>0, <1>2, <1>3, <2>1, <2>2, <2>3, ReuseFrame DEF ReuseInv
  <1>11. CASE SyncRow(p)
    <2>1. fd[p] = bus
      BY <1>0, <1>11 DEF SyncRow, PhaseInv
    <2>2. /\ synced' = [synced EXCEPT ![bus] = Len(content[bus])]
          /\ UNCHANGED <<content, named, bus, manifest, today>> /\ phase' = "free"
      BY <1>11, <2>1 DEF SyncRow, Finish, Release
    <2> QED BY <1>0, <1>1, <1>2, <1>3, <2>2, ReuseFrame DEF ReuseInv
  <1>12. CASE RenameFails(p) \/ SyncFails(p)
    <2>1. UNCHANGED <<content, synced, named, bus, manifest, today>> /\ phase' = "free"
      BY <1>12 DEF RenameFails, SyncFails, Release, disk
    <2> QED BY <1>0, <1>2, <1>3, <2>1, ReuseFrame DEF ReuseInv
  <1> QED BY <1>4, <1>5, <1>6, <1>7, <1>8, <1>9, <1>10, <1>11, <1>12

\* A row is written, or torn, only into a file without a pending swap; a
\* power loss finds the file of a pending swap synced.
LEMMA FaultsReuse ==
    ASSUME IInv, IInv', ReuseInv,
           \/ \E p \in Procs : WriteRow(p) \/ WriteTears(p) \/ Die(p)
           \/ PowerLoss
    PROVE  ReuseInv'
  <1>0. TypeOK /\ TypeOK' /\ Alloc /\ PhaseInv
    BY DEF IInv
  <1>1. /\ today \in Nat /\ today <= today
        /\ content \in [Inodes -> Seq(Nat)] /\ synced \in [Inodes -> Nat]
        /\ bus \in Inodes /\ content[bus] \in Seq(Nat)
    <2>1. content \in [Inodes -> Seq(Nat)] /\ bus \in Inodes
      BY <1>0 DEF TypeOK
    <2>2. today \in Nat /\ synced \in [Inodes -> Nat]
      BY <1>0 DEF TypeOK, Days
    <2> QED BY <2>1, <2>2
  <1>3. manifest.swap /\ ~Swapped(manifest) =>
          /\ manifest.closed.ino \in named /\ manifest.next.ino \in named
          /\ synced[bus] = Len(content[bus])
          /\ content[manifest.next.ino] = <<>>
    BY DEF ReuseInv, Reusable
  <1>4. ASSUME NEW p \in Procs, WriteRow(p) \/ WriteTears(p) PROVE ReuseInv'
    <2>1. /\ UNCHANGED <<synced, named, bus, manifest, today>>
          /\ phase' \in {"free", "sync"} /\ phase = "write"
      BY <1>4 DEF WriteRow, WriteTears, Finish, Release
    <2>2. ~manifest.swap
      BY <2>1 DEF ReuseInv
    <2> QED BY <1>0, <1>1, <2>1, <2>2, ReuseFrame DEF ReuseInv
  <1>5. ASSUME NEW p \in Procs, Die(p) PROVE ReuseInv'
    <2>1. UNCHANGED <<synced, named, bus, manifest, today>>
      BY <1>5 DEF Die
    <2>2. CASE phase = "write" /\ phase' = "free"
      <3>1. ~manifest.swap
        BY <2>2 DEF ReuseInv
      <3> QED BY <1>0, <1>1, <2>1, <2>2, <3>1, ReuseFrame DEF ReuseInv
    <2>3. CASE content' = content /\ phase' = "free"
      BY <1>0, <1>1, <1>3, <2>1, <2>3, ReuseFrame DEF ReuseInv
    <2>4. CASE content' = content /\ phase' = phase /\ job' = job
      BY <2>1, <2>4 DEF ReuseInv, Reusable, Swapped
    <2> QED BY <1>5, <2>2, <2>3, <2>4 DEF Die, Release
  <1>6. CASE PowerLoss
    <2>i. PICK i \in Inodes : \E n \in synced[i]..Len(content[i]) :
            /\ content' = [content EXCEPT ![i] = SubSeq(content[i], 1, n)]
            /\ synced' = [synced EXCEPT ![i] = n]
      BY <1>6 DEF PowerLoss
    <2>1. PICK n \in synced[i]..Len(content[i]) :
            /\ content' = [content EXCEPT ![i] = SubSeq(content[i], 1, n)]
            /\ synced' = [synced EXCEPT ![i] = n]
      BY <2>i
    <2>2. UNCHANGED <<named, bus, manifest, today>> /\ phase' = "free"
      BY <1>6 DEF PowerLoss, Release
    <2>3. ASSUME manifest.swap, ~Swapped(manifest)
          PROVE  /\ content'[bus] = content[bus]
                 /\ synced'[bus] = synced[bus]
                 /\ content'[manifest.next.ino] = content[manifest.next.ino]
      <3>0. content[i] \in Seq(Nat) /\ synced[i] \in Nat /\ n \in Nat
        BY <1>1, <2>1
      <3>1. manifest.next.ino \in Inodes
        BY <1>0, <1>3, <2>3 DEF TypeOK
      <3>2. CASE i = bus
        <4>1. n = Len(content[bus])
          BY <1>1, <1>3, <2>1, <2>3, <3>0, <3>2
        <4>2. SubSeq(content[i], 1, n) = content[i]
          BY <3>0, <3>2, <4>1
        <4> QED BY <1>1, <1>3, <2>1, <2>3, <3>1, <3>2, <4>1, <4>2
      <3>3. CASE i # bus
        <4>1. i = manifest.next.ino => SubSeq(content[i], 1, n) = <<>>
          <5> SUFFICES ASSUME i = manifest.next.ino
                       PROVE  SubSeq(content[i], 1, n) = <<>>
            OBVIOUS
          <5>1. content[i] = <<>>
            BY <1>3, <2>3
          <5>2. n = 0
            BY <2>1, <3>0, <5>1
          <5> QED BY <5>1, <5>2
        <4> QED BY <1>1, <1>3, <2>1, <2>3, <3>1, <3>3, <4>1
      <3> QED BY <3>2, <3>3
    <2> QED BY <1>0, <1>1, <1>3, <2>2, <2>3, ReuseFrame DEF ReuseInv
  <1> QED BY <1>4, <1>5, <1>6

\* The archive allocates fresh files and deletes frozen ones; a replaced
\* entry leaves the active file and the pending swap as they were.
LEMMA ArchiveReuse ==
    ASSUME IInv, IInv', ReuseInv, NEW p \in Procs, Archive(p)
    PROVE  ReuseInv'
  <1>0. TypeOK /\ TypeOK' /\ Alloc /\ ChainInv /\ PhaseInv /\ PhaseInv'
    BY DEF IInv
  <1>1. /\ today \in Nat /\ today <= today /\ manifest \in Manifest
        /\ bus \in Inodes /\ top \in Nat /\ named \subseteq Inodes
        /\ content \in [Inodes -> Seq(Nat)] /\ synced \in [Inodes -> Nat]
    BY <1>0 DEF TypeOK, Days, Inodes
  <1>3. manifest.swap /\ ~Swapped(manifest) =>
          manifest.closed.ino \in named /\ manifest.next.ino \in named
    BY DEF ReuseInv, Reusable
  <1>4. CASE ArchiveLoop(p) \/ \E id \in Inodes : ArchiveLook(p, id)
    <2>0. UNCHANGED <<disk, today, fd, holder, phase, job, rd, history, faults>>
      <3>1. CASE ArchiveLoop(p)
        BY <3>1, Zenon DEF ArchiveLoop
      <3>2. ASSUME NEW id \in Inodes, ArchiveLook(p, id)
            PROVE  UNCHANGED <<disk, today, fd, holder, phase, job, rd, history,
                               faults>>
        BY <3>2, Zenon DEF ArchiveLook
      <3> QED BY <1>4, <3>1, <3>2, Zenon
    <2>1. UNCHANGED <<content, synced, named, bus, manifest, today, phase, job>>
      BY <2>0 DEF disk
    <2> QED BY <2>1 DEF ReuseInv, Reusable, Swapped
  <1>5. CASE Compress(p)
    <2>1. /\ UNCHANGED <<bus, manifest, today, phase, job>>
          /\ \/ UNCHANGED <<content, synced, named>>
             \/ /\ content' = [content EXCEPT ![top + 1] = content[arch[p].ino]]
                /\ synced' = [synced EXCEPT ![top + 1] = Len(content[arch[p].ino])]
                /\ named' = named \cup {top + 1}
      BY <1>5 DEF Compress
    <2>2. top + 1 \notin named /\ top + 1 # bus
      BY <1>0, <1>1 DEF Alloc
    <2>3. /\ content'[bus] = content[bus] /\ synced'[bus] = synced[bus]
          /\ named \subseteq named'
          /\ \A i \in named : content'[i] = content[i]
      BY <1>1, <2>1, <2>2
    <2>4. ASSUME phase' = "pend" PROVE Reusable(job.m)' /\ job'.m.next.day <= today'
      BY <2>1, <2>3, <2>4 DEF ReuseInv, Reusable
    <2> QED BY <1>0, <1>1, <1>3, <2>1, <2>3, <2>4, ReuseFrame DEF ReuseInv
  <1>6. CASE Retire(p)
    <2>1. /\ UNCHANGED <<content, synced, bus, manifest, today>>
          /\ holder = NoProc /\ phase = "free"
          /\ phase' \in {"free", "unlinked"}
          /\ \/ named' = named
             \/ \E k \in 1..Len(Eff.segments) :
                  /\ Eff.segments[k].old # NoIno
                  /\ named' = named \ {Eff.segments[k].old}
      BY <1>0, <1>6 DEF Retire, Retirable, Entries, PhaseInv, Eff
    <2>2. manifest.swap /\ ~Swapped(manifest) =>
            manifest.closed.ino \in named' /\ manifest.next.ino \in named'
      <3>1. \A k \in 1..Len(Eff.segments) :
              Eff.segments[k].old # NoIno => Frozen(Eff.segments[k].old)
        BY <1>0 DEF ChainInv, Closed
      <3>2. manifest.swap /\ ~Swapped(manifest) => manifest.closed.ino = bus
        BY <1>0 DEF ReuseInv, Reusable, PhaseInv, Pinned
      <3> QED BY <1>3, <2>1, <3>1, <3>2 DEF Frozen
    <2> QED BY <1>0, <1>1, <2>1, <2>2, ReuseFrame DEF ReuseInv
  <1>7. CASE Publish(p) \/ Forget(p)
    <2>1. /\ UNCHANGED <<content, synced, named, bus, today>> /\ phase' = "free"
      <3>1. CASE Publish(p)
        <4>1. /\ UNCHANGED <<content, synced, named, top, bus, today, fd, holder,
                             phase, job, rd, history>>
              /\ holder = NoProc
          BY <3>1, Zenon DEF Publish
        <4> QED BY <1>0, <4>1 DEF PhaseInv
      <3>2. CASE Forget(p)
        BY <3>2 DEF Forget, Release
      <3> QED BY <1>7, <3>1, <3>2
    <2>w. manifest' = manifest \/ \E k, s : manifest' = WithEntry(k, s)
      <3>1. CASE Publish(p)
        BY <3>1, Zenon DEF Publish
      <3>2. CASE Forget(p)
        BY <3>2, Zenon DEF Forget
      <3> QED BY <1>7, <3>1, <3>2
    <2>2. CASE manifest' = manifest
      BY <1>0, <1>1, <1>3, <2>1, <2>2, ReuseFrame DEF ReuseInv
    <2>3. ASSUME NEW k, NEW s, manifest' = WithEntry(k, s) PROVE ReuseInv'
      <3>1. Effective(manifest) \in Manifest
        BY <1>0, EffectiveType DEF TypeOK
      <3>2. /\ manifest'.swap = Effective(manifest).swap
            /\ manifest'.active = Effective(manifest).active
            /\ manifest'.closed = Effective(manifest).closed
            /\ manifest'.next = Effective(manifest).next
        BY <2>3, <3>1 DEF WithEntry, Manifest
      <3>3. CASE Swapped(manifest)
        <4>1. Effective(manifest) = Completed(manifest)
          BY <3>3 DEF Effective
        <4>2. ~manifest'.swap /\ manifest'.active = manifest.next
          BY <1>1, <3>2, <4>1, CompletedType
        <4> QED BY <1>0, <1>1, <2>1, <3>3, <4>2, ReuseFrame DEF ReuseInv, Swapped
      <3>4. CASE ~Swapped(manifest)
        <4>1. Effective(manifest) = manifest
          BY <3>4 DEF Effective
        <4> QED BY <1>0, <1>1, <1>3, <2>1, <3>2, <4>1, ReuseFrame DEF ReuseInv
      <3> QED BY <3>3, <3>4
    <2> QED BY <2>w, <2>2, <2>3
  <1> QED BY <1>4, <1>5, <1>6, <1>7 DEF Archive

LEMMA StepReuse ==
    ASSUME ~DateMayReturn
    PROVE  IInv /\ IInv' /\ ReuseInv /\ [Next]_vars => ReuseInv'
  <1> SUFFICES ASSUME IInv, IInv', ReuseInv, [Next]_vars PROVE ReuseInv'
    OBVIOUS
  <1>1. ASSUME NEW p \in Procs, Append_(p) PROVE ReuseInv'
    BY <1>1, AppendReuse, FaultsReuse DEF Append_
  <1>2. ASSUME NEW p \in Procs, Fails(p) PROVE ReuseInv'
    BY <1>2, AppendReuse, FaultsReuse DEF Fails
  <1>3. ASSUME NEW p \in Procs, Archive(p) PROVE ReuseInv'
    BY <1>3, ArchiveReuse
  <1>4. CASE PowerLoss
    BY <1>4, FaultsReuse
  <1>5. CASE Read \/ UNCHANGED vars
    <2>0. UNCHANGED <<disk, today, fd, holder, phase, job, arch, history, faults>>
      <3>1. CASE Read
        BY <3>1, Zenon DEF Read, ReaderOpens, ReaderChecks, ReaderStats,
                           ReaderReads, ReaderCloses
      <3>2. CASE UNCHANGED vars
        BY <3>2 DEF vars, disk, history
      <3> QED BY <1>5, <3>1, <3>2
    <2>1. UNCHANGED <<content, synced, named, bus, manifest, today, phase, job>>
      BY <2>0 DEF disk
    <2> QED BY <2>1 DEF ReuseInv, Reusable, Swapped
  <1> QED BY <1>1, <1>2, <1>3, <1>4, <1>5 DEF Next

LEMMA ReuseInvariance == ~DateMayReturn => (Spec => []ReuseInv)
  <1> SUFFICES ASSUME ~DateMayReturn PROVE Spec => []ReuseInv
    OBVIOUS
  <1>1. Init => ReuseInv
    BY DEF Init, ReuseInv, Unmanaged, Blank
  <1>2. IInv /\ IInv' /\ ReuseInv /\ [Next]_vars => ReuseInv'
    BY StepReuse
  <1> QED BY Invariance, <1>1, <1>2, PTL DEF Spec

\* While the local date does not return to an earlier day, a rollover that a
\* death, a failing call or a power loss interrupted can be completed: the
\* pending swap still names the whole active file and an empty replacement.
THEOREM PendingStaysReusable == ~DateMayReturn => (Spec => []PendingIsReusable)
  <1>1. TypeOK /\ ReuseInv => PendingIsReusable
    <2> SUFFICES ASSUME TypeOK, ReuseInv, manifest.swap, ~Swapped(manifest)
                 PROVE  /\ manifest.closed.ino = bus
                        /\ manifest.closed.length = Len(content[bus])
                        /\ manifest.next.ino \in named
                        /\ content[manifest.next.ino] = <<>>
      BY DEF PendingIsReusable
    <2>1. manifest.active \in Segment /\ Reusable(manifest)
      BY DEF TypeOK, Manifest, ReuseInv
    <2> QED BY <2>1 DEF Reusable, Segment
  <1> QED BY BusTyped, ReuseInvariance, <1>1, PTL

\* prepare_append never refuses an append for a pending swap it cannot reuse
\* (the error of stage_rollover's identity check).
NoPendingRefused == phase = "roll" /\ job.m.swap => PendingMatches

\* Under the same assumption the identity check of a pending swap never
\* fails: an interrupted rollover does not stop later appends.
THEOREM PendingNeverRefused == ~DateMayReturn => (Spec => []NoPendingRefused)
  <1>1. IInv /\ ReuseInv => NoPendingRefused
    <2> SUFFICES ASSUME IInv, ReuseInv, phase = "roll", job.m.swap
                 PROVE  PendingMatches
      BY DEF NoPendingRefused
    <2>1. job.m = manifest /\ ~Swapped(manifest) /\ manifest.swap
      BY DEF IInv, PhaseInv
    <2>2. Reusable(manifest)
      BY <2>1 DEF ReuseInv
    <2>3. ClosedNow = manifest.closed
      BY <2>1, <2>2 DEF ClosedNow, Reusable
    <2> QED BY <2>1, <2>2, <2>3 DEF PendingMatches, Reusable
  <1> QED BY Invariance, ReuseInvariance, <1>1, PTL

=============================================================================
