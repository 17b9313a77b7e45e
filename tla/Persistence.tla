---------------------------- MODULE Persistence ----------------------------
(***************************************************************************)
(* Saving and loading: persistence.cpp, the SAVE command, the save of a    *)
(* graceful stop and the load of the next start.                           *)
(*                                                                         *)
(* save() is a sequence of system calls.  The process runs no command      *)
(* between two of them, but it can be killed there, a call can fail, and   *)
(* the power can go.  A file is a sequence of lines; what write() has      *)
(* handed to the kernel survives the process and not a loss of power,      *)
(* unless it was written back: no call of save() forces it to.             *)
(***************************************************************************)
EXTENDS Commands

CONSTANTS
    Requests,   \* client commands tried
    Empty,      \* the empty string: what is left of a value cut at its start
    RdbPath,    \* rdb_path_, the file that --rdb names
    Mishaps,    \* what can go wrong: subset of MishapKinds
    MaxWrites,  \* bound on the commands executed
    MaxSaves,   \* bound on the calls of save()
    MaxStarts,  \* bound on the starts of the server
    MaxTime     \* bound on the clock

MishapKinds == {"kill", "open_fails", "write_fails", "close_fails", "rename_fails", "power_loss"}

ASSUME MishapAssumption == Mishaps \subseteq MishapKinds
ASSUME RequestsAssumption == \A c \in Requests : WellTyped(c)
ASSUME EmptyAssumption == Empty \in Value
ASSUME TimeAssumption == MaxTime \in Nat
\* Loading runs in a heap that has room for a full LRU list.
ASSUME HeapAssumption == IsFiniteSet(Cell) => Cardinality(Cell) > MaxCapacity

VARIABLES
    db,       \* db_
    now,      \* the wall clock, in milliseconds
    mode,     \* the process: down, serving, or stopping (running_ is false)
    saving,   \* the call of save() under way, or Idle
    file,     \* the database files, as the file system shows them
    tmp,      \* the temporary file beside each of them
    durable,  \* the database files, as a loss of power leaves them
    saved,    \* the database at the last successful save of rdb_path_ (history)
    harmed,   \* a close failed or the power went before now (history)
    count     \* commands, saves and starts so far

vars == <<db, now, mode, saving, file, tmp, durable, saved, harmed, count>>

\* kDbPath of command.cpp, the only file the SAVE command writes.
SavePath == "redis.rdb"
Path == {SavePath, RdbPath}

Header == [type |-> "header"]
Footer == [type |-> "footer"]
Malformed == [type |-> "malformed"]

\* Without expiry, Absent for -1.
Record(type, Data) == [type : {type}, key : Key, expiry : Int \cup {Absent}, data : Data]
Line == {Header, Footer, Malformed} \cup Record("string", Value) \cup Record("list", Seq(Value))

ASSUME AbsentFileAssumption == Absent \notin Seq(Line)

\* save() in four steps: write the lines, look at ofs.fail(), close, rename.
\* pending holds the lines still in the buffer of the stream.
Idle == [step |-> "idle"]
Saving(path, step, pending, lines) ==
    [step |-> step, path |-> path, pending |-> pending, lines |-> lines]

-----------------------------------------------------------------------------
(* Files. *)

Files(d, t) == {<<Header>> \o entries \o <<Footer>> : entries \in Snapshots(d, t)}

\* What a line can be when only its beginning was written: a record without all
\* of its fields, a value cut at its start, or a list that lacks its last elements or
\* the last digits of their number.
CutLine(l) ==
    {Malformed} \cup
    (IF l.type = "string" THEN {[l EXCEPT !.data = Empty]}
     ELSE IF l.type = "list"
          THEN {[l EXCEPT !.data = [i \in DOMAIN @ |-> IF i < n THEN @[i] ELSE Empty]] :
                n \in DOMAIN l.data}
               \cup {[l EXCEPT !.data = [i \in 1..n |-> Empty]] :
                     n \in {m \in 1..Len(l.data) :
                              \E j \in 1..Len(l.data) : m = Len(l.data) \div (10 ^ j)}}
          ELSE {})

\* What a file can be when not all of its lines were written.
CutOff(lines) ==
    {SubSeq(lines, 1, n) : n \in 0..(Len(lines) - 1)} \cup
    UNION {{Append(SubSeq(lines, 1, n - 1), cut) : cut \in CutLine(lines[n])} :
           n \in 1..Len(lines)}

\* Mutants: a list is pushed in front; a string is stored without set().
LoadLineReversed(d, l, t) ==
    LET put == IF l.type = "string" THEN Set(d, l.key, l.data)
               ELSE WithList(d, l.key, Reverse(l.data) \o ListAt(d, l.key))
    IN  IF l.type \notin {"string", "list"} \/ (l.expiry # Absent /\ t >= l.expiry) THEN d
        ELSE IF l.expiry = Absent THEN put ELSE ExpireAt(put, l.key, l.expiry)

LoadLineUntracked(d, l, t) ==
    LET put == IF l.type = "string"
               THEN [d EXCEPT !.string_store = [@ EXCEPT ![l.key] = l.data]]
               ELSE RPushAll(d, l.key, l.data)
    IN  IF l.type \notin {"string", "list"} \/ (l.expiry # Absent /\ t >= l.expiry) THEN d
        ELSE IF l.expiry = Absent THEN put ELSE ExpireAt(put, l.key, l.expiry)

\* One record of load(), on a clock read once.
LoadLine(d, l, t) ==
    LET put == IF l.type = "string" THEN Set(d, l.key, l.data)
               ELSE RPushAll(d, l.key, l.data)
    IN  IF l.type \notin {"string", "list"} \/ (l.expiry # Absent /\ t >= l.expiry) THEN d
        ELSE IF l.expiry = Absent THEN put ELSE ExpireAt(put, l.key, l.expiry)

\* load(): nothing without a file or its header; a missing footer is only reported.
Load(f, t) ==
    IF f = Absent \/ f = <<>> THEN EmptyDb
    ELSE IF f[1] # Header THEN EmptyDb
    ELSE LET loaded[n \in 1..Len(f)] ==
                 IF n = 1 THEN EmptyDb ELSE LoadLine(loaded[n - 1], f[n], t)
         IN  loaded[Len(f)]

-----------------------------------------------------------------------------
(* The process. *)

NoFiles == [p \in Path |-> Absent]

Init == /\ db = EmptyDb /\ now = 0 /\ mode = "serving" /\ saving = Idle
        /\ file = NoFiles /\ tmp = NoFiles /\ durable = NoFiles
        /\ saved = EmptyDb /\ harmed = FALSE
        /\ count = [writes |-> 0, saves |-> 0, starts |-> 0]

HeapHasCell == \E c \in Cell : FreeCell(db, c)

\* The loop finishes its iteration after a stop, so it may still serve commands.
HandleCommand(c) ==
    LET r == Execute(db, c, now)
    IN  /\ mode # "down" /\ saving = Idle /\ HeapHasCell
        /\ count.writes < MaxWrites
        /\ db' = r.db
        /\ mode' = IF r.reply = Aborted THEN "down" ELSE mode
        /\ count' = [count EXCEPT !.writes = @ + 1]
        /\ UNCHANGED <<now, saving, file, tmp, durable, saved, harmed>>

\* open() truncates whatever an earlier save left in the temporary file.
BeginSave(path) ==
    /\ count.saves < MaxSaves
    /\ count' = [count EXCEPT !.saves = @ + 1]
    /\ \/ /\ \E lines \in Files(db, now) : saving' = Saving(path, "write", lines, lines)
          /\ tmp' = [tmp EXCEPT ![path] = <<>>]
       \/ "open_fails" \in Mishaps /\ UNCHANGED <<saving, tmp>>
    /\ UNCHANGED <<db, now, file, durable, saved, harmed>>

\* The SAVE command.
HandleSave == /\ mode # "down" /\ saving = Idle
              /\ BeginSave(SavePath)
              /\ UNCHANGED mode

\* stop(), from the signal handler: only the first call saves.
Stop == /\ mode = "serving" /\ saving = Idle
        /\ mode' = "stopping"
        /\ BeginSave(RdbPath)

\* The end of start() and of main().
Exit == /\ mode = "stopping" /\ saving = Idle
        /\ mode' = "down"
        /\ UNCHANGED <<db, now, saving, file, tmp, durable, saved, harmed, count>>

\* init(): load the file that --rdb names.
Start == /\ mode = "down" /\ count.starts < MaxStarts
         /\ mode' = "serving"
         /\ db' = Load(file[RdbPath], now)
         /\ count' = [count EXCEPT !.starts = @ + 1]
         /\ UNCHANGED <<now, saving, file, tmp, durable, saved, harmed>>

-----------------------------------------------------------------------------
(* The steps of save(). *)

In(step) == saving.step = step

\* A full buffer is written out: some of the pending lines, or the write fails and
\* everything after it is lost.
FlushBuffer ==
    /\ In("write")
    /\ \/ \E n \in 1..Len(saving.pending) :
            /\ tmp' = [tmp EXCEPT ![saving.path] = @ \o SubSeq(saving.pending, 1, n)]
            /\ saving' = [saving EXCEPT !.pending = SubSeq(@, n + 1, Len(@))]
       \/ /\ "write_fails" \in Mishaps
          /\ saving' = [saving EXCEPT !.step = "failed"]
          /\ \E cut \in CutOff(saving.pending) :
               tmp' = [tmp EXCEPT ![saving.path] = @ \o cut]
    /\ UNCHANGED <<db, now, mode, file, durable, saved, harmed, count>>

\* Mutants: the failure is not looked at, or looked at without the return.
CheckStreamNever ==
    /\ In("write") \/ In("failed")
    /\ saving' = [saving EXCEPT !.step = "close", !.pending = IF In("failed") THEN <<>> ELSE @]
    /\ UNCHANGED <<db, now, mode, file, tmp, durable, saved, harmed, count>>

CheckStreamGoesOn ==
    /\ \/ In("write") /\ UNCHANGED tmp
       \/ In("failed") /\ tmp' = [tmp EXCEPT ![saving.path] = Absent]
    /\ saving' = [saving EXCEPT !.step = "close"]
    /\ UNCHANGED <<db, now, mode, file, durable, saved, harmed, count>>

\* ofs.fail() is looked at while the last buffer is still in memory.
CheckStream ==
    /\ \/ /\ In("write")
          /\ saving' = [saving EXCEPT !.step = "close"]
          /\ UNCHANGED tmp
       \/ /\ In("failed")
          /\ saving' = Idle
          /\ tmp' = [tmp EXCEPT ![saving.path] = Absent]
    /\ UNCHANGED <<db, now, mode, file, durable, saved, harmed, count>>

\* ofs.close() writes that buffer; nobody looks at the outcome.
CloseStream ==
    /\ In("close")
    /\ \/ tmp' = [tmp EXCEPT ![saving.path] = @ \o saving.pending] /\ UNCHANGED harmed
       \/ /\ "close_fails" \in Mishaps /\ harmed' = TRUE
          /\ \E cut \in CutOff(saving.pending) :
               tmp' = [tmp EXCEPT ![saving.path] = @ \o cut]
    /\ saving' = [saving EXCEPT !.step = "rename", !.pending = <<>>]
    /\ UNCHANGED <<db, now, mode, file, durable, saved, count>>

RenameFile ==
    /\ In("rename")
    /\ \/ /\ file' = [file EXCEPT ![saving.path] = tmp[saving.path]]
          /\ saved' = IF saving.path = RdbPath THEN db ELSE saved
       \/ "rename_fails" \in Mishaps /\ UNCHANGED <<file, saved>>
    /\ tmp' = [tmp EXCEPT ![saving.path] = Absent]
    /\ saving' = Idle
    /\ UNCHANGED <<db, now, mode, durable, harmed, count>>

-----------------------------------------------------------------------------
(* What happens to the process and to the machine. *)

Kill == /\ "kill" \in Mishaps
        /\ mode # "down"
        /\ mode' = "down" /\ saving' = Idle
        /\ UNCHANGED <<db, now, file, tmp, durable, saved, harmed, count>>

\* The kernel writes back what the files hold, in its own time.
WriteBack == /\ durable' = file
             /\ UNCHANGED <<db, now, mode, saving, file, tmp, saved, harmed, count>>

\* Of a file that was not written back, the power leaves the version before the
\* rename, the new one, or as much of it as had reached the disk.
PowerLoss ==
    /\ "power_loss" \in Mishaps /\ harmed' = TRUE
    /\ mode' = "down" /\ saving' = Idle
    /\ \E p \in Path :
         \E left \in {durable[p], file[p]}
                     \cup (IF file[p] \in {durable[p], Absent} THEN {} ELSE CutOff(file[p])) :
            /\ file' = [durable EXCEPT ![p] = left]
            /\ durable' = file'
    /\ tmp' = NoFiles
    /\ UNCHANGED <<db, now, saved, count>>

Advance == /\ now < MaxTime
           /\ now' = now + 1
           /\ UNCHANGED <<db, mode, saving, file, tmp, durable, saved, harmed, count>>

SaveStep == FlushBuffer \/ CheckStream \/ CloseStream \/ RenameFile

Next == \/ \E c \in Requests : HandleCommand(c)
        \/ HandleSave \/ Stop \/ Exit \/ Start
        \/ SaveStep
        \/ Kill \/ WriteBack \/ PowerLoss \/ Advance

Spec == Init /\ [][Next]_vars

-----------------------------------------------------------------------------
(* Properties. *)

TypeOK == /\ db \in Database /\ saved \in Database /\ harmed \in BOOLEAN
          /\ now \in 0..MaxTime
          /\ mode \in {"down", "serving", "stopping"}
          /\ saving.step \in {"idle", "write", "failed", "close", "rename"}
          /\ \A disk \in {file, tmp, durable} : disk \in [Path -> Seq(Line) \cup {Absent}]
          /\ saving # Idle => mode # "down" /\ tmp[saving.path] # Absent

\* What a client reads under a key.
Data(d, k) == IF ~Visible(d, k, now) THEN Absent
              ELSE IF IsString(d, k) THEN [string |-> d.string_store[k]]
              ELSE [list |-> d.list_store[k]]

\* A database file changes only to the complete snapshot of the save under way,
\* whatever the process or the calls of save() do in between, up to the first failure
\* of a close and the first loss of power.
Complete(p) == saving # Idle /\ p = saving.path /\ file'[p] = saving.lines
OldOrNew == [][harmed' \/ \A p \in Path : file'[p] # file[p] => Complete(p)]_vars

\* A start recovers every key of the last successful save of its file with its value,
\* the order of its list and its deadline, except the keys that expired meanwhile, and
\* nothing else: loading evicts nothing, on stores as full as they get, and what an
\* unsuccessful save or a killed process left on disk is not taken for data.
RecoversLastSave ==
    [][Start /\ ~harmed => \A k \in Key :
          /\ Data(db', k) = Data(saved, k)
          /\ Data(saved, k) # Absent => db'.expiry[k] = saved.expiry[k]]_vars

\* README: "we guarantee the on-disk state is always either the old valid snapshot or
\* the new one".
AlwaysOldOrNew == [][\A p \in Path : file'[p] # file[p] => Complete(p)]_vars

\* Whatever a failed close or a loss of power left of the files, a start makes a
\* database of it that the commands can work on: strings within capacity and each
\* with a valid iterator, no empty list, no key of two types, no orphan deadline.
LoadedIsSound ==
    /\ Cardinality(Held(db.string_store)) <= MaxCapacity
    /\ \A k \in Key :
          /\ Has(db.string_store, k) => \E i \in 1..Len(db.lru_order) : Points(db, k, i)
          /\ ~(Has(db.string_store, k) /\ Has(db.list_store, k))
          /\ db.list_store[k] # <<>>
          /\ Has(db.expiry, k) => Present(db, k)
=============================================================================
