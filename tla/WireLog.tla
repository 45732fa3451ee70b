------------------------------- MODULE WireLog -------------------------------
(***************************************************************************)
(* The format of a session's journal, wire.jsonl: what an append writes,   *)
(* what a reader makes of the bytes it finds, and what the incremental     *)
(* absorber consumes from a byte offset on (mirri-persistence's            *)
(* append_log.rs and migration.rs, mirri-core's SessionWireLog).           *)
(*                                                                         *)
(* A file is a sequence of bytes.  A byte is a pair <<o, i>>: the i-th of  *)
(* the RecordLen[o] bytes of the line of op o; the last one is the         *)
(* newline.  A line parses iff its bytes are the whole body of one op: a   *)
(* fragment, or two records on one line, is no JSON document.              *)
(***************************************************************************)
EXTENDS Integers, Sequences, FiniteSets, FiniteSetsExt, Functions, SeqPick

CONSTANTS
    MaxOps,      \* bound: ops recorded
    RecordLen    \* the length of an op's line, newline included

\* Creation records, loop events and messages are "event"; the brackets of a
\* turn are told apart.
Kinds == {"prompt", "event", "ended"}

\* The ops a session may ever record; n is the order of recording.
Op == [n : 1..MaxOps, kind : Kinds]

ASSUME MaxOpsAssumption == MaxOps \in Nat
ASSUME RecordLenAssumption == RecordLen \in [Op -> Nat \ {0, 1}]

Byte == {<<o, i>> : o \in Op, i \in 1..Max({RecordLen[p] : p \in Op})}

\* append: the line of one op, newline included.
Record(o) == [i \in 1..RecordLen[o] |-> <<o, i>>]

IsNewline(b) == b[2] = RecordLen[b[1]]

NewlineBytes == {<<o, RecordLen[o]>> : o \in Op}

Newlines(file) == {i \in DOMAIN file : IsNewline(file[i])}

LastNewline(file) == Max(Newlines(file) \cup {0})

\* The bytes after the last newline: empty, or a torn final line.
TornTail(file) == SubSeq(file, LastNewline(file) + 1, Len(file))

\* The line whose newline is at e, without it.
Body(file, e) ==
    SubSeq(file, Max({n \in Newlines(file) : n < e} \cup {0}) + 1, e - 1)

Parses(body) ==
    /\ body # <<>>
    /\ LET o == body[1][1] IN body = SubSeq(Record(o), 1, RecordLen[o] - 1)

\* The ops of lines that all parse: each ends with its own newline.
Ops(lines) ==
    LET ends == Pick(lines, NewlineBytes)
    IN  [i \in 1..Len(ends) |-> ends[i][1]]

(***************************************************************************)
(* read_from, and the same policy in migrate_records_in_memory: an         *)
(* unparseable final line without a newline is dropped as a torn write,    *)
(* one that parses is accepted, and any other unparseable line makes the   *)
(* whole log Corrupted.  (Blank lines are skipped by the code; no write    *)
(* begins with a newline, so a file has none.)                             *)
(***************************************************************************)
Corrupted(file) == \E e \in Newlines(file) : ~Parses(Body(file, e))

ReadAll(file) ==
    LET tail == TornTail(file)
    IN  Ops(file) \o (IF Parses(tail) THEN <<tail[1][1]>> ELSE <<>>)

(***************************************************************************)
(* drain_foreign_ops: read from the anchor to the end, hand over complete  *)
(* lines in order, stop before the first that does not parse (a blank line *)
(* does not), leave a torn tail for the next round.                        *)
(***************************************************************************)
Drain(file, anchor) ==
    LET raw      == SubSeq(file, anchor + 1, Len(file))
        good     == {e \in Newlines(raw) :
                        \A n \in Newlines(raw) : n <= e => Parses(Body(raw, n))}
        consumed == Max(good \cup {0})
    IN  [ops |-> Ops(SubSeq(raw, 1, consumed)), consumed |-> consumed]

=============================================================================
