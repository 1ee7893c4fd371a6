------------------------------ MODULE HourFile ------------------------------
(***************************************************************************)
(* The hourly recordings of the price feed (price_feed/src/collect.rs):    *)
(* ParquetBuf and its two users AssetWriters (poly and book) and           *)
(* BinanceWriters (one file).  Rows are collected in memory, flushed now   *)
(* and then to an hour's .parquet.tmp, and become a .parquet when the hour *)
(* ends or the process is asked to stop.                                   *)
(*                                                                         *)
(* Directory entries and files are kept apart, as they are on the disk: a  *)
(* rename takes the entry, a writer keeps the file it has open.            *)
(***************************************************************************)
EXTENDS Naturals, Sequences, FiniteSets

CONSTANTS
    Kinds,          \* files of a writer in their order, a sequence of names
    MaxHour,        \* bound on the hour
    MaxRows,        \* bound on the samples
    MaxCrashes,     \* bound
    MaxStops,       \* bound on orderly stops
    MaxFailures     \* bound on failing file operations

ASSUME KindsAssumption == Kinds \in Seq(STRING) /\ Kinds # <<>>
ASSUME BoundAssumption ==
    {MaxHour, MaxRows, MaxCrashes, MaxStops, MaxFailures} \subseteq Nat

VARIABLES
    hkt,            \* the hour it is: hkt_hour_string()
    proc,           \* where the process is: [at, k]; k is the file it works on
    hourKey,        \* AssetWriters::hour_key
    buf,            \* by file: the open ParquetBuf
    old,            \* the buffer taken out by mem::replace
    dir,            \* directory: the file an entry names, 0 when there is none
    file,           \* every file ever created: its readable rows, its footer
    aside,          \* by kind: rows of the *.unrecovered-<secs> files
    rows,           \* number of samples taken
    faults,         \* history: crashes, orderly stops, failures so far
    doubt           \* history: a seal failed, or a start found .tmp and .parquet

diskVars == <<dir, file, aside>>
hourFileVars == <<hkt, proc, hourKey, buf, old, diskVars, rows, faults, doubt>>

Hours == 0..MaxHour
Files == 1..Len(Kinds)
Entries == Files \X Hours \X {"tmp", "parquet"}
Tmp(k, h) == <<k, h, "tmp">>
Parquet(k, h) == <<k, h, "parquet">>

NoBuf == [file |-> 0, hour |-> 0, flushed |-> {}, memory |-> {}]
Empty == [rows |-> {}, footer |-> FALSE]
At(where, k) == [at |-> where, k |-> k]
Down == At("down", 0)

Exists(e) == dir[e] # 0
Content(e) == file[dir[e]]

(* What a reader or the page scanner of recover_rust_parquet.py can find.  *)
OnDisk(k) ==
    aside[k] \cup UNION {Content(e).rows : e \in {x \in Entries : x[1] = k /\ Exists(x)}}
InMemory(k) == buf[k].memory \cup (IF proc.k = k THEN old.memory ELSE {})

HourFileInit ==
    /\ hkt = 0 /\ proc = Down /\ hourKey = 0
    /\ buf = [k \in Files |-> NoBuf] /\ old = NoBuf
    /\ dir = [e \in Entries |-> 0] /\ file = <<>>
    /\ aside = [k \in Files |-> {}]
    /\ rows = 0
    /\ faults = [crash |-> 0, stop |-> 0, failure |-> 0]
    /\ doubt = FALSE
-----------------------------------------------------------------------------
(* ParquetBuf                                                              *)

(* open(): an entry that exists keeps its file and loses what is in it.    *)
OpenTruncated(e, d, f) ==
    IF d[e] # 0 THEN [dir |-> d, file |-> [f EXCEPT ![d[e]] = Empty], id |-> d[e]]
    ELSE [dir |-> [d EXCEPT ![e] = Len(f) + 1], file |-> Append(f, Empty), id |-> Len(f) + 1]

(* The writer puts what it holds after what it has written; rows it once   *)
(* wrote are gone if the file was truncated under it, and rows of another  *)
(* writer are overwritten.                                                 *)
Put(b, footer) ==
    [file EXCEPT ![b.file] =
        [rows |-> (@.rows \cap b.flushed) \cup b.memory, footer |-> footer]]
Flushed(b) == [b EXCEPT !.flushed = @ \cup b.memory, !.memory = {}]

(* try_carry(): the rows of a file that has its footer.                    *)
Readable(e) == Exists(e) /\ Content(e).footer

CarryTmpOnly(tmp, final) == tmp     \* mutant: the sealed file is not looked at
CarrySource(tmp, final) == IF Exists(tmp) THEN tmp ELSE final

(* open_for_hour(): the rows of a .tmp left by a crash, else of the sealed *)
(* file of this hour, are given to the new writer, which has not written   *)
(* them yet.  A .tmp that cannot be read and is not empty is moved aside.  *)
OpenForHour(k) ==
    LET tmp == Tmp(k, hkt)
        final == Parquet(k, hkt)
        source == CarrySource(tmp, final)
        carry == IF Readable(source) THEN Content(source).rows ELSE {}
        keep == Exists(tmp) /\ ~Readable(tmp) /\ Content(tmp).rows # {}
        opened == OpenTruncated(tmp, IF keep THEN [dir EXCEPT ![tmp] = 0] ELSE dir, file)
    IN  /\ aside' = [aside EXCEPT ![k] = @ \cup (IF keep THEN Content(tmp).rows ELSE {})]
        /\ dir' = opened.dir /\ file' = opened.file
        /\ buf' = [buf EXCEPT ![k] =
                    [file |-> opened.id, hour |-> hkt, flushed |-> {}, memory |-> carry]]
        /\ doubt' = (doubt \/ (Exists(tmp) /\ Exists(final)))

(* write(): flushed when 500 rows or 10 seconds have gathered.             *)
Write ==
    /\ proc.at = "write" /\ rows < MaxRows
    /\ \E full \in SUBSET Files :
         LET with(k) == [buf[k] EXCEPT !.memory = @ \cup {rows + 1}]
         IN  /\ buf' = [k \in Files |-> IF k \in full THEN Flushed(with(k)) ELSE with(k)]
             /\ file' = [i \in DOMAIN file |->
                    IF \E k \in full : buf[k].file = i
                    THEN LET k == CHOOSE x \in full : buf[x].file = i
                         IN  [rows |-> (file[i].rows \cap buf[k].flushed) \cup with(k).memory,
                              footer |-> FALSE]
                    ELSE file[i]]
    /\ rows' = rows + 1
    /\ proc' = At("check", 0)
    /\ UNCHANGED <<hkt, hourKey, old, dir, aside, faults, doubt>>

(* A tick on which no market has a quote writes nothing.                   *)
NoSample ==
    /\ proc.at = "write" /\ proc' = At("check", 0)
    /\ UNCHANGED <<hkt, hourKey, buf, old, diskVars, rows, faults, doubt>>
-----------------------------------------------------------------------------
(* run(): start                                                            *)

StartProcess ==
    /\ proc = Down
    /\ proc' = At("orphans", 0)
    /\ UNCHANGED <<hkt, hourKey, buf, old, diskVars, rows, faults, doubt>>

(* seal_orphaned_tmp(): a .tmp of another hour whose hour is not sealed    *)
(* and that can be read is copied to its final name and then removed.  The *)
(* copy is made under the final name.                                      *)
Orphans == {e \in Entries : /\ e[3] = "tmp" /\ e[2] # hkt /\ Readable(e)
                            /\ ~Exists(Parquet(e[1], e[2]))}
RenameOrphanFirst ==            \* mutant: the orphan goes before its copy is whole
    /\ proc = At("orphans", 0)
    /\ \E e \in Orphans :
         LET opened == OpenTruncated(Parquet(e[1], e[2]), dir, file)
         IN  /\ dir' = [opened.dir EXCEPT ![e] = 0] /\ file' = opened.file
             /\ old' = [file |-> opened.id, hour |-> e[2], flushed |-> {},
                        memory |-> Content(e).rows]
             /\ proc' = At("copy", e[1])
    /\ UNCHANGED <<hkt, hourKey, buf, aside, rows, faults, doubt>>

OpenOrphan ==
    /\ proc = At("orphans", 0)
    /\ \E e \in Orphans :
         LET opened == OpenTruncated(Parquet(e[1], e[2]), dir, file)
         IN  /\ dir' = opened.dir /\ file' = opened.file
             /\ old' = [file |-> opened.id, hour |-> e[2], flushed |-> {},
                        memory |-> Content(e).rows]
             /\ proc' = At("copy", e[1])
    /\ UNCHANGED <<hkt, hourKey, buf, aside, rows, faults, doubt>>
FinishOrphan ==
    /\ proc.at = "copy"
    /\ file' = Put(old, TRUE) /\ old' = Flushed(old)
    /\ proc' = [proc EXCEPT !.at = "copied"]
    /\ UNCHANGED <<hkt, hourKey, buf, dir, aside, rows, faults, doubt>>
RemoveOrphan ==
    /\ proc.at = "copied"
    /\ dir' = [dir EXCEPT ![Tmp(proc.k, old.hour)] = 0]
    /\ old' = NoBuf /\ proc' = At("orphans", 0)
    /\ UNCHANGED <<hkt, hourKey, buf, file, aside, rows, faults, doubt>>

Recovered ==
    /\ proc = At("orphans", 0) /\ Orphans = {}
    /\ proc' = At("new", 1)
    /\ UNCHANGED <<hkt, hourKey, buf, old, diskVars, rows, faults, doubt>>

KeyOfStart == hkt

(* AssetWriters::new(): file after file, all with one hour key, taken when *)
(* the markets have been found, which may be in another hour.              *)
New ==
    /\ proc.at = "new"
    /\ OpenForHour(proc.k)
    /\ hourKey' = KeyOfStart
    /\ proc' = IF proc.k = Len(Kinds) THEN At("check", 0) ELSE At("new", proc.k + 1)
    /\ UNCHANGED <<hkt, old, rows, faults>>
-----------------------------------------------------------------------------
(* seal_if_hour_changed() and finish()                                     *)

(* Checked on every tick, before the sample is written.                    *)
CheckHour ==
    /\ proc.at = "check"
    /\ proc' = IF hkt = hourKey THEN At("write", 0) ELSE At("open", 1)
    /\ UNCHANGED <<hkt, hourKey, buf, old, diskVars, rows, faults, doubt>>

(* mem::replace(): the new hour's .tmp is opened before the old is sealed. *)
OpenNext ==
    /\ proc.at = "open"
    /\ LET k == proc.k
           opened == OpenTruncated(Tmp(k, hkt), dir, file)
       IN  /\ dir' = opened.dir /\ file' = opened.file
           /\ buf' = [buf EXCEPT ![k] =
                        [file |-> opened.id, hour |-> hkt, flushed |-> {}, memory |-> {}]]
           /\ old' = buf[k]
           /\ proc' = At("close", k)
    /\ UNCHANGED <<hkt, hourKey, aside, rows, faults, doubt>>

(* close(): the rest of the rows and the footer.                           *)
Close ==
    /\ proc.at \in {"close", "last"}
    /\ file' = Put(old, TRUE) /\ old' = Flushed(old)
    /\ proc' = [proc EXCEPT !.at = IF @ = "close" THEN "rename" ELSE "lastRename"]
    /\ UNCHANGED <<hkt, hourKey, buf, dir, aside, rows, faults, doubt>>

(* rename(): over whatever the hour already had.  hour_key moves when the  *)
(* last file is sealed.                                                    *)
RenameOk == Exists(Tmp(proc.k, old.hour))
Renamed(k) == [dir EXCEPT ![Parquet(k, hourKey)] = dir[Tmp(k, old.hour)],
                          ![Tmp(k, old.hour)] = 0]
Rename ==
    /\ proc.at = "rename" /\ RenameOk
    /\ dir' = Renamed(proc.k) /\ old' = NoBuf
    /\ IF proc.k < Len(Kinds)
       THEN proc' = At("open", proc.k + 1) /\ hourKey' = hourKey
       ELSE proc' = At("write", 0) /\ hourKey' = hkt
    /\ UNCHANGED <<hkt, buf, file, aside, rows, faults, doubt>>

(* finish(), on SIGTERM, ctrl-c or the request of the reconciler.          *)
Stop ==
    /\ proc.at \in {"check", "write"} /\ faults.stop < MaxStops
    /\ faults' = [faults EXCEPT !.stop = @ + 1]
    /\ proc' = At("last", 1) /\ old' = buf[1]
    /\ buf' = [buf EXCEPT ![1] = NoBuf]
    /\ UNCHANGED <<hkt, hourKey, diskVars, rows, doubt>>
LastRename ==
    /\ proc.at = "lastRename" /\ RenameOk
    /\ dir' = Renamed(proc.k)
    /\ IF proc.k < Len(Kinds)
       THEN /\ proc' = At("last", proc.k + 1) /\ old' = buf[proc.k + 1]
            /\ buf' = [buf EXCEPT ![proc.k + 1] = NoBuf]
       ELSE proc' = Down /\ old' = NoBuf /\ buf' = buf
    /\ UNCHANGED <<hkt, hourKey, file, aside, rows, faults, doubt>>
-----------------------------------------------------------------------------
(* Faults                                                                  *)

(* One file operation of a seal returns an error: what was taken out by    *)
(* mem::replace is dropped, hour_key stays, the error is printed, and the  *)
(* tick writes its sample.  A failed finish() skips the files that follow. *)
SealFails ==
    /\ proc.at \in {"open", "close", "rename", "last", "lastRename"}
    /\ \/ faults.failure < MaxFailures /\ faults' = [faults EXCEPT !.failure = @ + 1]
       \/ /\ proc.at \in {"rename", "lastRename"} /\ ~RenameOk /\ UNCHANGED faults
    /\ old' = NoBuf
    /\ doubt' = TRUE
    /\ IF proc.at \in {"last", "lastRename"}
       THEN proc' = Down /\ buf' = [k \in Files |-> NoBuf]
       ELSE proc' = At("write", 0) /\ buf' = buf
    /\ UNCHANGED <<hkt, hourKey, diskVars, rows>>

CrashProcess ==
    /\ proc # Down /\ faults.crash < MaxCrashes
    /\ faults' = [faults EXCEPT !.crash = @ + 1]
    /\ proc' = Down /\ old' = NoBuf
    /\ buf' = [k \in Files |-> NoBuf]
    /\ UNCHANGED <<hkt, hourKey, diskVars, rows, doubt>>

NextHour ==
    /\ hkt < MaxHour
    /\ proc.at \in {"down", "check", "write"} \/ proc = At("new", 1)
    /\ hkt' = hkt + 1
    /\ UNCHANGED <<proc, hourKey, buf, old, diskVars, rows, faults, doubt>>

Work == \/ StartProcess \/ OpenOrphan \/ FinishOrphan \/ RemoveOrphan
        \/ Recovered \/ New \/ CheckHour \/ Write \/ NoSample \/ OpenNext \/ Close \/ Rename \/ LastRename
HourFileNext == Work \/ Stop \/ SealFails \/ CrashProcess \/ NextHour

HourFileSpec == HourFileInit /\ [][HourFileNext]_hourFileVars
-----------------------------------------------------------------------------
(* Only a crash takes recorded rows away, and it takes those the writer    *)
(* had in memory: no start, seal or stop leaves a row of any hour behind,  *)
(* whatever was on the disk when the process came up, unless a seal has    *)
(* failed or a start has found both files of its hour.                     *)
OnlyCrashLoses ==
    [][\A k \in Files :
         \/ doubt'
         \/ OnDisk(k) \cup InMemory(k) \subseteq (OnDisk(k) \cup InMemory(k))'
         \/ proc' = Down /\ OnDisk(k) \subseteq OnDisk(k)']_hourFileVars

(* A sealed name without a footer is the unfinished copy of an orphan, and *)
(* the orphan is still there with its rows: the .tmp goes only after its   *)
(* copy is whole, also when the copy is cut short by a crash.              *)
CopyKeepsOrphan ==
    ~doubt => \A k \in Files, h \in Hours :
        Exists(Parquet(k, h)) /\ ~Content(Parquet(k, h)).footer
            => Readable(Tmp(k, h))
=============================================================================
