------------------------------ MODULE EventLog ------------------------------
(***************************************************************************)
(* An append-only record file of src/src/eventlog.py: emit from several    *)
(* threads, rotation to one older generation, a disk that fails in the     *)
(* middle of a write, a process that dies in it, and read, which another   *)
(* thread (the /audit page) or another process (logquery) runs without the *)
(* lock, once or, as logquery's tail --follow does, again and again to     *)
(* print what is new.  cap = 0 is audit.jsonl, which never rotates; any    *)
(* other cap is diagnostic.jsonl.                                          *)
(*                                                                         *)
(* A record is named by its number, which is its place in the order of     *)
(* (ts, seq).  A file holds what was written to it: lines, each a record   *)
(* and its newline, and pieces of lines.  A line has a number of           *)
(* characters and, when some are not ASCII (ensure_ascii=False), so many   *)
(* bytes more.  A piece lacks more than the newline: with the whole record *)
(* on disk it would read as one.                                           *)
(*                                                                         *)
(* An operator that no step of Next uses, placed before the definition it  *)
(* resembles, is a plausible slip in that definition.                      *)
(***************************************************************************)
EXTENDS Integers, SequencesExt

CONSTANTS
    Writers,     \* threads that emit
    Caps,        \* the rotation caps to consider, in bytes
    Lengths,     \* how many characters a line can have, its newline included
    Extras,      \* how many bytes more than characters it can take
    None,        \* nobody holds the lock
    Torn,        \* what is left of a record whose write was cut short
    Split,       \* the same, when the cut is inside a non-ASCII character
    MaxRecords,  \* bound: records emitted
    MaxTears     \* bound: writes cut short

ASSUME LogAssumption ==
    /\ None \notin Writers /\ Torn # Split /\ {Torn, Split} \cap Nat = {}
    /\ Lengths \subseteq {n \in Nat : n > 2} /\ 0 \in Extras /\ Extras \subseteq Nat
    /\ Caps \subseteq Nat /\ MaxRecords \in Nat /\ MaxTears \in Nat

VARIABLES
    cap,       \* rotate_at, fixed at construction
    old,       \* the .1 generation
    current,   \* the file appended to
    lock,      \* the log's lock: the thread holding it, or None
    writer,    \* what each thread's emit is doing
    emitted,   \* records numbered so far
    written,   \* history: records written whole, in order
    tears,     \* writes cut short so far
    reader     \* the read in progress: what it got and must find, and what
               \* tail --follow has counted as seen and has printed

vars == <<cap, old, current, lock, writer, emitted, written, tears, reader>>

NoFile     == [data |-> <<>>, size |-> 0, exists |-> FALSE]
IdleWriter == [pc |-> "idle", id |-> 0, chars |-> 0, extra |-> 0]
IdleReader == [pc |-> "idle", got |-> <<>>, there |-> {}, seen |-> 0, printed |-> <<>>]

Init ==
    /\ cap \in Caps
    /\ old = NoFile /\ current = NoFile
    /\ lock = None
    /\ writer = [w \in Writers |-> IdleWriter]
    /\ emitted = 0 /\ written = <<>> /\ tears = 0
    /\ reader = IdleReader

----------------------------------------------------------------------------
(* emit. *)

\* The record gets its time and number before the lock is asked for.
Stamp(w, chars, extra) ==
    /\ writer[w].pc = "idle"
    /\ emitted < MaxRecords
    /\ emitted' = emitted + 1
    /\ writer' = [writer EXCEPT ![w] =
          [pc |-> "stamped", id |-> emitted + 1, chars |-> chars, extra |-> extra]]
    /\ UNCHANGED <<cap, old, current, lock, written, tears, reader>>

\* _maybe_rotate compares the file's bytes and the line's characters with the
\* cap.  There is nothing to measure when the file does not exist, and a line
\* longer than the cap is written all the same.
MustRollAlways(w) == current.exists /\ current.size + writer[w].chars > cap
MustRollLate(w) == cap # 0 /\ current.exists /\ current.size > cap
MustRoll(w) == cap # 0 /\ current.exists /\ current.size + writer[w].chars > cap

MeasureUnlocked(w) ==
    /\ writer[w].pc = "stamped"
    /\ lock' = w
    /\ writer' = [writer EXCEPT ![w].pc = IF MustRoll(w) THEN "roll" ELSE "write"]
    /\ UNCHANGED <<cap, old, current, emitted, written, tears, reader>>

Measure(w) ==
    /\ writer[w].pc = "stamped" /\ lock = None
    /\ lock' = w
    /\ writer' = [writer EXCEPT ![w].pc = IF MustRoll(w) THEN "roll" ELSE "write"]
    /\ UNCHANGED <<cap, old, current, emitted, written, tears, reader>>

\* The file replaces the older generation.
Roll(w) ==
    /\ writer[w].pc = "roll"
    /\ old' = current /\ current' = NoFile
    /\ writer' = [writer EXCEPT ![w].pc = "write"]
    /\ UNCHANGED <<cap, lock, emitted, written, tears, reader>>

Pieces == {Torn, Split}

Extend(f, x, bytes) ==
    [data |-> Append(f.data, x), size |-> f.size + bytes, exists |-> TRUE]

Bytes(w) == writer[w].chars + writer[w].extra

Write(w) ==
    /\ writer[w].pc = "write"
    /\ current' = Extend(current, writer[w].id, Bytes(w))
    /\ written' = Append(written, writer[w].id)
    /\ lock' = None
    /\ writer' = [writer EXCEPT ![w] = IdleWriter]
    /\ UNCHANGED <<cap, old, emitted, tears, reader>>

\* The file is opened, which creates it, and no part of the line reaches it.
Open(w) == writer[w].pc = "write" /\ current' = [current EXCEPT !.exists = TRUE]

\* OSError: nothing is left of the record ...
EmitFails(w) ==
    /\ writer[w].pc \in {"roll", "write"}
    /\ UNCHANGED current \/ Open(w)
    /\ lock' = None
    /\ writer' = [writer EXCEPT ![w] = IdleWriter]
    /\ UNCHANGED <<cap, old, emitted, written, tears, reader>>

\* Part of a line reaches the disk.  Only non-ASCII text can be cut inside a
\* character.
Tear(w) ==
    /\ writer[w].pc = "write"
    /\ tears < MaxTears
    /\ tears' = tears + 1
    /\ \E rest \in IF writer[w].extra > 0 THEN Pieces ELSE {Torn}, bytes \in 1..(Bytes(w) - 2) :
          current' = Extend(current, rest, bytes)

\* ... or a part of its line; emit returns all the same.
WriteTears(w) ==
    /\ Tear(w)
    /\ lock' = None
    /\ writer' = [writer EXCEPT ![w] = IdleWriter]
    /\ UNCHANGED <<cap, old, emitted, written, reader>>

\* The process is killed, maybe in the middle of a write, and started again.
Kill ==
    /\ \E w \in Writers : writer[w].pc # "idle"
    /\ \/ UNCHANGED <<current, tears>>
       \/ \E w \in Writers : Tear(w) \/ (Open(w) /\ UNCHANGED tears)
    /\ lock' = None
    /\ writer' = [w \in Writers |-> IdleWriter]
    /\ UNCHANGED <<cap, old, emitted, written, reader>>

----------------------------------------------------------------------------
(* read. *)

\* The elements of s in the order of their places: place maps their positions
\* to 1, 2, ...
By(s, place) ==
    [i \in 1..Cardinality(DOMAIN place) |-> s[CHOOSE k \in DOMAIN place : place[k] = i]]

\* The elements of s at the positions K, from left to right.
Pick(s, K) == By(s, [k \in K |-> Cardinality({j \in K : j <= k})])

\* _read_file skips the lines that are not one JSON object: a piece is none,
\* and neither is the record that was appended to its line.
WholeAny(f) == DOMAIN f.data
WholeToTear(f) == {k \in DOMAIN f.data : \A j \in 1..k : f.data[j] \notin Pieces}

Whole(f) ==
    {k \in DOMAIN f.data : f.data[k] \notin Pieces /\ (k > 1 => f.data[k - 1] \notin Pieces)}

Parse(f) == Pick(f.data, Whole(f))

OnDisk == Parse(old) \o Parse(current)

\* UnicodeDecodeError is no OSError: half a character anywhere in the file
\* ends the read.
Undecodable(f) == Split \in ToSet(f.data)

\* The order in which the generations are read.
GenerationNewestFirst(k) == IF k = 1 THEN current ELSE old
Generation(k) == IF k = 1 THEN old ELSE current

ReadFirst ==
    /\ reader.pc \in {"idle", "done", "raised"}
    /\ ~Undecodable(Generation(1))
    /\ reader' = [reader EXCEPT !.pc = "half", !.got = Parse(Generation(1)), !.there = ToSet(OnDisk)]
    /\ UNCHANGED <<cap, old, current, lock, writer, emitted, written, tears>>

\* cmd_tail --stream audit or diagnostic: the records in the order of (ts, seq),
\* what it prints of them, and how many it has seen then.  The first round
\* prints them all (-n is larger).  The merge of both streams is left out.
Sorted(got) ==
    By(got, [k \in DOMAIN got |->
                 Cardinality({j \in DOMAIN got : got[j] < got[k] \/ (got[j] = got[k] /\ j <= k)})])

UnseenFromLast(records) == SubSeq(records, Max({reader.seen, 1}), Len(records))
Unseen(records) == SubSeq(records, reader.seen + 1, Len(records))

Follow(got) ==
    LET records == Sorted(got)
    IN  IF Len(records) > reader.seen
        THEN [pc |-> "done", got |-> got, there |-> reader.there,
              seen |-> Len(records), printed |-> reader.printed \o Unseen(records)]
        ELSE [reader EXCEPT !.pc = "done", !.got = got]

\* Other threads may have written and rotated since.
ReadSecond ==
    /\ reader.pc = "half"
    /\ ~Undecodable(Generation(2))
    /\ reader' = Follow(reader.got \o Parse(Generation(2)))
    /\ UNCHANGED <<cap, old, current, lock, writer, emitted, written, tears>>

\* The page's request fails; logquery ends and has to be started again.
ReadRaises ==
    /\ Undecodable(Generation(IF reader.pc = "half" THEN 2 ELSE 1))
    /\ reader' = [IdleReader EXCEPT !.pc = "raised"]
    /\ UNCHANGED <<cap, old, current, lock, writer, emitted, written, tears>>

Next ==
    \/ \E w \in Writers :
          \/ \E chars \in Lengths, extra \in Extras : Stamp(w, chars, extra)
          \/ Measure(w) \/ Roll(w) \/ Write(w) \/ EmitFails(w) \/ WriteTears(w)
    \/ Kill
    \/ ReadFirst \/ ReadSecond \/ ReadRaises

Spec == Init /\ [][Next]_vars

----------------------------------------------------------------------------
(* Properties. *)

File == [data : Seq(Nat \cup Pieces), size : Nat, exists : BOOLEAN]

\* Every variable stays in the shape the code gives it.
TypeOK ==
    /\ cap \in Caps
    /\ old \in File /\ current \in File
    /\ lock \in Writers \cup {None}
    /\ writer \in [Writers -> [pc : {"idle", "stamped", "roll", "write"}, id : Nat,
                              chars : Lengths \cup {0}, extra : Extras]]
    /\ emitted \in 0..MaxRecords /\ written \in Seq(Nat) /\ tears \in 0..MaxTears
    /\ reader \in [pc : {"idle", "half", "done", "raised"}, got : Seq(Nat), there : SUBSET Nat,
                  seen : Nat, printed : Seq(Nat)]

\* What was written is on disk in the order of the writes, without a gap: a
\* rotation drops only the oldest records, and the audit trail drops none
\* ("Never rotated or truncated", eventlog.py:10).
Kept(f) == Pick(f.data, {k \in DOMAIN f.data : f.data[k] \notin Pieces})

DiskIsRecent ==
    LET kept == Kept(old) \o Kept(current)
    IN  IsSuffix(kept, written) /\ (cap = 0 => kept = written)

\* A rotation throws a generation away only for a file that has no room for
\* the line of the thread that rotates, however many threads find it so at
\* once (the measure is inside the lock).
RollsOnlyFull ==
    [][old' # old => \E w \in Writers : /\ writer[w].pc = "roll" /\ writer'[w].pc = "write"
                                        /\ old'.size + writer[w].chars > cap]_vars

\* A file that fits takes no more than the cap, except for the bytes of one
\* line's non-ASCII characters: len(line) counts characters ...
Fits(f) == \E extra \in Extras : f.size <= cap + extra

\* ... and one that does not fit holds a single line, which is too long: it is
\* written whole into a file that was not there.
OneLine(f) ==
    Len(f.data) = 1 /\ \E chars \in Lengths, extra \in Extras : f.size <= chars + extra

\* "the size in bytes past which the file is rolled" (eventlog.py:95): each
\* generation of the diagnostic stream fits or is one line.
DiskIsBounded ==
    cap # 0 => \A f \in {old, current} : Fits(f) \/ OneLine(f)

\* "All records, oldest first" (eventlog.py:151): a read that a rotation or a
\* write overtakes never returns a record twice or before one that was written
\* earlier.
ReadIsOrdered ==
    \A i, j \in 1..Len(reader.got) :
        i < j => \E k, l \in 1..Len(written) :
                     k < l /\ written[k] = reader.got[i] /\ written[l] = reader.got[j]

\* "All records, oldest first, rotated generation included" (eventlog.py:151):
\* a read returns every record that could be read when it began ...
ReadIsComplete == reader.pc = "done" => reader.there \subseteq ToSet(reader.got)

\* ... which holds of the audit trail, which is never rotated.
AuditReadIsComplete == cap = 0 => ReadIsComplete

\* A record is late when one with a later stamp was written before it.
Late == {written[k] : k \in {j \in 1..Len(written) :
                               \E i \in 1..(j - 1) : written[i] > written[j]}}

\* "watch it live" (logquery.py:12): tail --stream audit --follow prints each
\* record that it has read, once and in order, if the record is not late.
\* A late one shifts those after it: it is not printed, and for each one that
\* is missed one is printed twice.
FollowMissesOnlyLate ==
    cap = 0 /\ reader.pc = "done" =>
        /\ ToSet(reader.got) \ ToSet(reader.printed) \subseteq Late
        /\ Len(reader.printed) = Len(reader.got)
        /\ Late = {} => reader.printed = reader.got

\* A write that was cut short costs, at most, the one record that is appended
\* to its line, unless a character was cut.
TearCostsOne ==
    ~Undecodable(old) /\ ~Undecodable(current)
        => Len(Kept(old) \o Kept(current)) - Len(OnDisk) <= tears

\* "Malformed lines (a torn write from a killed process) are skipped rather
\* than raising" (eventlog.py:153).
ReadsAnswer == reader.pc # "raised"

\* "watch it live" (logquery.py:12): when tail --stream diagnostic --follow has
\* so far printed the records one after the other, and reads what is on disk,
\* the newest one is printed.
FollowShowsNewest ==
    /\ reader.pc = "done" /\ OnDisk # <<>>
    /\ reader.got = OnDisk /\ IsPrefix(reader.printed, written)
    => Contains(reader.printed, Last(OnDisk))
=============================================================================
