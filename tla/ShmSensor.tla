----------------------------- MODULE ShmSensor -----------------------------
(***************************************************************************)
(* A satellite sensor whose readings come through shared memory            *)
(* (src/src/satellite/vHMCShmLayout.hpp, vHMCShmReader.cpp,                *)
(* SatelliteSensor.cpp): a writer in another process updates a record      *)
(* under a sequence number, odd while it writes, and may crash and start   *)
(* again, on the same file or a new one; the reader maps the file, checks  *)
(* that it is the writer's, and copies the record until the number is even *)
(* and the same before and after.                                          *)
(*                                                                         *)
(* A record is two parts that are copied one after the other; the writer   *)
(* writes its n-th value as n in both.                                     *)
(***************************************************************************)
EXTENDS Naturals

CONSTANTS
    Retries,            \* loads of the sequence number in one reading, 99 in the code
    ErrorThreshold,     \* bad readings until the sensor is not functional, 5 in the code
    MaxWrites,          \* bound: values written
    MaxShmEvents        \* bound: crashes, changes of the host's power and values out of range

ShmAssumption == {Retries, ErrorThreshold} \subseteq Nat \ {0} /\ {MaxWrites, MaxShmEvents} \subseteq Nat

VARIABLES
    files,              \* contents of the inodes
    path,               \* the inode /tmp/Sensors.shm names; 0 when there is none
    writer,             \* "down", "fill", "lock", "idle", "first", "second" or "end"
    written,            \* values the writer began to write
    mapping,            \* the inode mapped - 0 for none - and its epoch then
    reader,             \* where the reader is, and what it loaded and copied
    seenWriter,
    satellite,          \* what the sensor shows
    power,              \* the host is on
    shmEvents           \* how many crashes and changes of power there were

shmVars == <<files, path, writer, written, mapping, reader, seenWriter, satellite, power,
             shmEvents>>

Empty == [ready |-> FALSE, held |-> FALSE, epoch |-> 0, seq |-> 0, first |-> 0, second |-> 0,
          last |-> 0]
NotMapped == [inode |-> 0, epoch |-> 0]
Idle == [at |-> "idle", seq1 |-> 0, seq2 |-> 0, first |-> 0, second |-> 0, tries |-> 0,
         floor |-> 0, crossed |-> FALSE]
NaN == 0
Blank(available) ==
    [value |-> NaN, second |-> NaN, available |-> available, errors |-> 0, floor |-> 0,
     crossed |-> FALSE]

Start ==
    /\ files = [i \in 1..2 |-> Empty] /\ path = 0
    /\ writer = "down" /\ written = 0
    /\ mapping = NotMapped /\ reader = Idle /\ seenWriter = FALSE
    /\ satellite = Blank(TRUE) /\ power = TRUE /\ shmEvents = 0

Init == Start

-----------------------------------------------------------------------------
(* The writer.  A reading during which its file is emptied is marked.      *)
WriterUnchanged == UNCHANGED <<mapping, seenWriter, satellite, power>>

\* The file is created, or emptied and filled again.
Fill ==
    /\ writer = "down"
    /\ \E i \in 1..2 :
          /\ i = path \/ i # mapping.inode
          /\ files' = [files EXCEPT ![i] = [Empty EXCEPT !.epoch = files[i].epoch + 1]]
          /\ path' = i
    /\ writer' = "fill"
    /\ reader' = IF path' = mapping.inode THEN [reader EXCEPT !.crossed = TRUE] ELSE reader
    /\ UNCHANGED <<written, shmEvents>> /\ WriterUnchanged

Ready ==
    /\ writer = "fill"
    /\ files' = [files EXCEPT ![path].ready = TRUE] /\ writer' = "lock"
    /\ UNCHANGED <<path, written, reader, shmEvents>> /\ WriterUnchanged

HoldLock ==
    /\ writer = "lock"
    /\ files' = [files EXCEPT ![path].held = TRUE] /\ writer' = "idle"
    /\ UNCHANGED <<path, written, reader, shmEvents>> /\ WriterUnchanged

Crash ==
    /\ writer # "down" /\ shmEvents < MaxShmEvents
    /\ files' = [files EXCEPT ![path].held = FALSE] /\ writer' = "down"
    /\ shmEvents' = shmEvents + 1
    /\ UNCHANGED <<path, written, reader>> /\ WriterUnchanged

\* seqlockWrite: the fences order the sequence number and the value.
Write(at, then, new) ==
    /\ writer = at /\ writer' = then
    /\ files' = [files EXCEPT ![path] = new]
    /\ UNCHANGED <<path, reader, shmEvents>> /\ WriterUnchanged

Record == files[path]
BeginWrite ==
    /\ written < MaxWrites /\ written' = written + 1
    /\ Write("idle", "first", [Record EXCEPT !.seq = @ + 1])
FirstPart == Write("first", "second", [Record EXCEPT !.first = written]) /\ UNCHANGED written
SecondPart == Write("second", "end", [Record EXCEPT !.second = written]) /\ UNCHANGED written
EndWrite ==
    Write("end", "idle", [Record EXCEPT !.seq = @ + 1, !.last = written]) /\ UNCHANGED written

WriterStep ==
    \/ Fill \/ Ready \/ HoldLock \/ Crash \/ BeginWrite \/ FirstPart \/ SecondPart \/ EndWrite

-----------------------------------------------------------------------------
(* The reader.                                                             *)
ReaderUnchanged == UNCHANGED <<files, path, writer, written, power>>

\* A file can be mapped when its writer is ready and holds the lock.
TryMap ==
    IF path # 0 /\ files[path].ready /\ files[path].held
    THEN [inode |-> path, epoch |-> files[path].epoch] ELSE NotMapped

\* The same file under the path, ready and locked, in the epoch it was mapped.
EnsureMapped ==
    IF mapping.inode = 0 \/ mapping.inode # path THEN TryMap
    ELSE IF ~files[path].ready \/ ~files[path].held THEN mapping
    ELSE IF files[path].epoch # mapping.epoch THEN TryMap
    ELSE mapping

Usable(map) == map.inode # 0 /\ files[map.inode].ready /\ files[map.inode].held

MarkAvailable(is) == IF is THEN [satellite EXCEPT !.available = TRUE, !.errors = 0] ELSE Blank(FALSE)

IncrementError ==
    IF satellite.errors >= ErrorThreshold THEN satellite
    ELSE IF satellite.errors + 1 = ErrorThreshold
         THEN [Blank(satellite.available) EXCEPT !.errors = ErrorThreshold]
         ELSE [satellite EXCEPT !.errors = @ + 1]

\* The timer expires: the sensor is read, if the host's power allows.
\* Until the writer is first seen, its absence is no error.
Poll ==
    /\ reader.at = "idle"
    /\ IF ~power
       THEN /\ satellite' = MarkAvailable(FALSE)
            /\ UNCHANGED <<mapping, reader, seenWriter>>
       ELSE /\ mapping' = EnsureMapped
            /\ seenWriter' = (seenWriter \/ (mapping' # mapping /\ mapping'.inode # 0))
            /\ IF Usable(mapping')
               THEN /\ reader' = [Idle EXCEPT !.at = "load1", !.floor = files[mapping'.inode].last]
                    /\ UNCHANGED satellite
               ELSE /\ satellite' = IF seenWriter' THEN IncrementError ELSE MarkAvailable(FALSE)
                    /\ UNCHANGED reader
    /\ UNCHANGED shmEvents /\ ReaderUnchanged

Mapped == files[mapping.inode]

ReadStep(at, new) ==
    /\ reader.at = at /\ reader' = new
    /\ UNCHANGED <<mapping, seenWriter, satellite, shmEvents>> /\ ReaderUnchanged

AgainIfOdd(r) == r.seq2 % 2 = 1

\* The condition of the loop is evaluated after a continue, too.
Again(r) == r.seq1 # r.seq2 \/ r.seq2 % 2 = 1
Loop(r) == IF Again(r) THEN [r EXCEPT !.at = "load1"] ELSE [r EXCEPT !.at = "done"]

Load1 ==
    ReadStep("load1",
        IF reader.tries = Retries THEN [reader EXCEPT !.at = "contention"]
        ELSE LET r == [reader EXCEPT !.seq1 = Mapped.seq, !.tries = @ + 1]
             IN  IF r.seq1 % 2 = 1 THEN Loop(r) ELSE [r EXCEPT !.at = "first"])
CopyFirst == ReadStep("first", [reader EXCEPT !.at = "second", !.first = Mapped.first])
CopySecond == ReadStep("second", [reader EXCEPT !.at = "load2", !.second = Mapped.second])
Load2 == ReadStep("load2", Loop([reader EXCEPT !.seq2 = Mapped.seq]))

\* A value in range is shown; anything else is a bad reading.
Finish ==
    /\ reader.at \in {"done", "contention"}
    /\ \/ /\ reader.at = "done" /\ reader.first # 0
          /\ satellite' = [value |-> reader.first, second |-> reader.second, available |-> TRUE,
                        errors |-> 0, floor |-> reader.floor, crossed |-> reader.crossed]
          /\ UNCHANGED shmEvents
       \/ /\ \/ (reader.at = "contention" \/ reader.first = 0) /\ UNCHANGED shmEvents
             \/ shmEvents < MaxShmEvents /\ shmEvents' = shmEvents + 1
          /\ satellite' = IncrementError
    /\ reader' = Idle
    /\ UNCHANGED <<mapping, seenWriter>> /\ ReaderUnchanged

\* powerStateChanged comes between two readings.
PowerStateChanged ==
    /\ reader.at = "idle" /\ shmEvents < MaxShmEvents
    /\ power' = ~power /\ shmEvents' = shmEvents + 1
    /\ satellite' = MarkAvailable(power')
    /\ UNCHANGED <<files, path, writer, written, mapping, reader, seenWriter>>

Next ==
    WriterStep \/ Poll \/ Load1 \/ CopyFirst \/ CopySecond \/ Load2 \/ Finish \/ PowerStateChanged

Spec == Init /\ [][Next]_shmVars

-----------------------------------------------------------------------------
TypeOK ==
    /\ writer \in {"down", "fill", "lock", "idle", "first", "second", "end"}
    /\ path \in 0..2 /\ mapping.inode \in 0..2
    /\ \A i \in 1..2 : files[i].held => i = path /\ writer # "down"
    /\ satellite.errors \in 0..ErrorThreshold /\ reader.tries \in 0..Retries
    /\ written \in 0..MaxWrites /\ shmEvents \in 0..MaxShmEvents

(* A value shown is one the writer wrote, whole, and none older than the   *)
(* last it had written when the reading began - unless the writer crashed  *)
(* and emptied the file during the reading, when the sequence number may   *)
(* come to the same value again.                                           *)
ShownIsWhole ==
    satellite.value # NaN /\ ~satellite.crossed =>
        satellite.second = satellite.value /\ satellite.value >= satellite.floor
=============================================================================
