----------------------------- MODULE AuditChain -----------------------------
(***************************************************************************)
(* The hash-chained audit file: append_audit of                             *)
(* src/platform_core/audit/writer.py run by several processes under the     *)
(* advisory lock of io/locked_jsonl.py, the tip anchor beside it and the    *)
(* verifier of audit/tip_anchor.py, which takes no lock.                    *)
(*                                                                          *)
(* A record is its identity (the uuid and the body it is hashed with); a    *)
(* SHA-256 value is the sequence of identities it was computed over, which  *)
(* is what a collision-free hash can tell apart.  The file is its newline-  *)
(* terminated lines and what follows the last newline.                      *)
(***************************************************************************)
EXTENDS Integers, Sequences

CONSTANTS Writers,      \* processes that call append_audit
          NoWriter,     \* the lock is free
          MaxRecords,   \* bound on the number of calls of append_audit
          MaxFailures   \* bound on crashes and failed writes

ASSUME ConstantsAssumption == /\ NoWriter \notin Writers
                              /\ MaxRecords \in Nat
                              /\ MaxFailures \in Nat

VARIABLES lines,     \* the newline-terminated lines of the audit file
          tail,      \* what follows the last newline
          tip,       \* the tip anchor file
          lock,      \* holder of the sibling .lock file
          pc,        \* where each writer is in append_audit
          row,       \* the record of each writer's call
          glued,     \* its line was started on a line that had no newline
          acked,     \* records append_audit has returned to its caller
          issued,    \* calls so far; each call's record has its own identity
          failures,  \* crashes and failed writes so far
          reader,    \* verify_audit_with_tip between its two reads
          verdict    \* what it last returned

writerVars == <<lock, pc, row, glued, acked, issued>>
readerVars == <<reader, verdict>>
vars == <<lines, tail, tip, writerVars, failures, readerVars>>

-----------------------------------------------------------------------------
Genesis == <<>>
chain_hash(prev, id) == Append(prev, id)

Row == [id : Nat, hash : Seq(Nat)]
Junk == [id |-> 0, hash |-> Genesis]       \* a line json.loads rejects
IsRecord(l) == l.id # 0

NoTail == [kind |-> "none", row |-> Junk]
Torn == [kind |-> "torn", row |-> Junk]                \* part of a record
Undecodable == [kind |-> "undecodable", row |-> Junk]  \* cut inside a character
Whole(r) == [kind |-> "whole", row |-> r]              \* only the newline missing
Tails == [kind : {"none", "torn", "undecodable", "whole"}, row : Row]

NoTip == [count |-> 0, hash |-> Genesis]   \* missing, empty or cut short

LastPhysical == IF tail # NoTail THEN tail.row
                ELSE IF lines = <<>> THEN Junk ELSE lines[Len(lines)]

\* Mutant of read_chain_tip: the first line instead of the last.
read_chain_tip_First == IF lines = <<>> THEN Genesis ELSE lines[1].hash

(***************************************************************************)
(* _read_chain_tip parses the last physical line only: an empty file and a  *)
(* line that does not parse both restart the chain at genesis (the hash of  *)
(* Junk).                                                                   *)
(***************************************************************************)
read_chain_tip == LastPhysical.hash

\* The loop of read_audit_records: the rows of the lines that parse, in their order.
ParsedRows(physical) ==
    LET records[i \in 0 .. Len(physical)] ==
            IF i = 0 THEN <<>>
            ELSE IF IsRecord(physical[i]) THEN Append(records[i - 1], physical[i])
            ELSE records[i - 1]
    IN  records[Len(physical)]

\* Mutants of count_records: a header and a trailing blank line are taken off; only
\* the lines that parse are counted.
count_records_Trimmed == Len(lines) - 2

count_records_Parsed == Len(ParsedRows(lines))

\* _count_records counts the non-blank lines, the unparsable ones included.
count_records == Len(lines) + (IF tail = NoTail THEN 0 ELSE 1)

\* read_audit_records keeps the lines that parse, the unterminated one included.
read_audit_records ==
    ParsedRows(IF tail = NoTail THEN lines ELSE Append(lines, tail.row))

\* verify_chain recomputes every hash from genesis.
verify_chain(records) ==
    \A i \in 1 .. Len(records) :
        records[i].hash =
            chain_hash(IF i = 1 THEN Genesis ELSE records[i - 1].hash, records[i].id)

\* The records a reader has in hand.
Identities(records) == {records[i].id : i \in 1 .. Len(records)}

\* The tip comparison of verify_audit_with_tip.
TipStatus(records) ==
    IF tip = NoTip THEN "missing"
    ELSE IF /\ tip.hash = (IF records = <<>> THEN Genesis
                           ELSE records[Len(records)].hash)
            /\ tip.count = Len(records)
         THEN "match" ELSE "mismatch"

-----------------------------------------------------------------------------
Holding == {"locked", "hashed", "writing", "wrote", "truncated", "tipped"}

IdleReader == [pc |-> "idle", rows |-> <<>>, quiet |-> FALSE, seen |-> 0,
               owed |-> {}]
NoVerdict == [chain |-> TRUE, tip |-> "missing", quiet |-> FALSE, complete |-> TRUE]

Init == /\ lines = <<>>
        /\ tail = NoTail
        /\ tip = NoTip
        /\ lock = NoWriter
        /\ pc = [w \in Writers |-> "idle"]
        /\ row = [w \in Writers |-> Junk]
        /\ glued = [w \in Writers |-> FALSE]
        /\ acked = {}
        /\ issued = 0
        /\ failures = 0
        /\ reader = IdleReader
        /\ verdict = NoVerdict

\* A caller enters append_audit and starts polling for the lock.
Call(w) == /\ pc[w] = "idle"
           /\ issued < MaxRecords
           /\ issued' = issued + 1
           /\ row' = [row EXCEPT ![w] = [id |-> issued + 1, hash |-> Genesis]]
           /\ pc' = [pc EXCEPT ![w] = "waiting"]
           /\ UNCHANGED <<lines, tail, tip, lock, glued, acked, failures, readerVars>>

\* Mutant of Acquire: the lock is taken over from its holder.
Acquire_Unchecked(w) == /\ pc[w] = "waiting"
                        /\ lock' = w
                        /\ pc' = [pc EXCEPT ![w] = "locked"]
                        /\ UNCHANGED <<lines, tail, tip, row, glued, acked, issued,
                                       failures, readerVars>>

\* jsonl_file_lock: the non-blocking attempt succeeds.
Acquire(w) == /\ pc[w] = "waiting"
              /\ lock = NoWriter
              /\ lock' = w
              /\ pc' = [pc EXCEPT ![w] = "locked"]
              /\ UNCHANGED <<lines, tail, tip, row, glued, acked, issued,
                             failures, readerVars>>

\* jsonl_file_lock: an attempt fails after the deadline, TimeoutError.
LockTimeout(w) == /\ pc[w] = "waiting"
                  /\ lock # NoWriter
                  /\ pc' = [pc EXCEPT ![w] = "idle"]
                  /\ UNCHANGED <<lines, tail, tip, lock, row, glued, acked,
                                 issued, failures, readerVars>>

\* The chain tip is read and the new record hashed onto it.
HashRecord(w) ==
    /\ pc[w] = "locked"
    /\ tail # Undecodable
    /\ row' = [row EXCEPT ![w] =
                 [id |-> row[w].id, hash |-> chain_hash(read_chain_tip, row[w].id)]]
    /\ pc' = [pc EXCEPT ![w] = "hashed"]
    /\ UNCHANGED <<lines, tail, tip, lock, glued, acked, issued, failures, readerVars>>

\* Mutant of ReadRaises: the file is read again until it decodes.
ReadRaises_Retries(w) == /\ pc[w] = "locked"
                         /\ tail = Undecodable
                         /\ UNCHANGED vars

(***************************************************************************)
(* read_text of a file cut inside a multi-byte character raises             *)
(* UnicodeDecodeError, which _read_chain_tip does not catch: append_audit   *)
(* leaves through the lock's finally.                                       *)
(***************************************************************************)
ReadRaises(w) == /\ pc[w] = "locked"
                 /\ tail = Undecodable
                 /\ lock' = NoWriter
                 /\ pc' = [pc EXCEPT ![w] = "idle"]
                 /\ UNCHANGED <<lines, tail, tip, row, glued, acked, issued,
                                failures, readerVars>>

\* The append has put a part of the line into the file, its newline excluded.
BeginWrite(w) ==
    /\ pc[w] = "hashed"
    /\ tail' \in {Torn, Undecodable} \cup (IF tail = NoTail THEN {Whole(row[w])} ELSE {})
    /\ glued' = [glued EXCEPT ![w] = tail # NoTail]
    /\ pc' = [pc EXCEPT ![w] = "writing"]
    /\ UNCHANGED <<lines, tip, lock, row, acked, issued, failures, readerVars>>

\* Mutant of EndWrite: the file is opened for writing instead of appending.
EndWrite_Truncates(w) ==
    /\ pc[w] = "writing"
    /\ lines' = <<IF glued[w] THEN Junk ELSE row[w]>>
    /\ tail' = NoTail
    /\ pc' = [pc EXCEPT ![w] = "wrote"]
    /\ UNCHANGED <<tip, lock, row, glued, acked, issued, failures, readerVars>>

(***************************************************************************)
(* The line is complete.  On a file that ended without a newline it is the  *)
(* old rest and the new record on one line, which does not parse.           *)
(***************************************************************************)
EndWrite(w) ==
    /\ pc[w] = "writing"
    /\ lines' = Append(lines, IF glued[w] THEN Junk ELSE row[w])
    /\ tail' = NoTail
    /\ pc' = [pc EXCEPT ![w] = "wrote"]
    /\ UNCHANGED <<tip, lock, row, glued, acked, issued, failures, readerVars>>

\* write_tip_anchor: write_text opens the anchor file, which empties it ...
TruncateTip(w) == /\ pc[w] = "wrote"
                  /\ tip' = NoTip
                  /\ pc' = [pc EXCEPT ![w] = "truncated"]
                  /\ UNCHANGED <<lines, tail, lock, row, glued, acked, issued,
                                 failures, readerVars>>

\* Mutants of FillTip: the count runs one ahead; the hash is the previous record's.
FillTip_CountsNext(w) ==
    /\ pc[w] = "truncated"
    /\ tip' = [count |-> count_records + 1, hash |-> row[w].hash]
    /\ pc' = [pc EXCEPT ![w] = "tipped"]
    /\ UNCHANGED <<lines, tail, lock, row, glued, acked, issued, failures, readerVars>>

FillTip_PreviousHash(w) ==
    /\ pc[w] = "truncated"
    /\ tip' = [count |-> count_records,
               hash |-> SubSeq(row[w].hash, 1, Len(row[w].hash) - 1)]
    /\ pc' = [pc EXCEPT ![w] = "tipped"]
    /\ UNCHANGED <<lines, tail, lock, row, glued, acked, issued, failures, readerVars>>

\* ... and fills it.
FillTip(w) ==
    /\ pc[w] = "truncated"
    /\ tip' = [count |-> count_records, hash |-> row[w].hash]
    /\ pc' = [pc EXCEPT ![w] = "tipped"]
    /\ UNCHANGED <<lines, tail, lock, row, glued, acked, issued, failures, readerVars>>

\* write_tip_anchor gets an OSError, before or after the file was emptied; the
\* writer ignores the result.
TipFails(w) == /\ pc[w] \in {"wrote", "truncated"}
               /\ failures < MaxFailures
               /\ failures' = failures + 1
               /\ pc' = [pc EXCEPT ![w] = "tipped"]
               /\ UNCHANGED <<lines, tail, tip, lock, row, glued, acked, issued,
                              readerVars>>

\* Mutant of Release: append_audit returns before it has renewed the anchor.
Release_BeforeTip(w) == /\ pc[w] \in {"wrote", "tipped"}
                        /\ lock' = NoWriter
                        /\ acked' = acked \cup {row[w].id}
                        /\ pc' = [pc EXCEPT ![w] = "idle"]
                        /\ UNCHANGED <<lines, tail, tip, row, glued, issued, failures,
                                       readerVars>>

\* The lock is released and the record returned.
Release(w) == /\ pc[w] = "tipped"
              /\ lock' = NoWriter
              /\ acked' = acked \cup {row[w].id}
              /\ pc' = [pc EXCEPT ![w] = "idle"]
              /\ UNCHANGED <<lines, tail, tip, row, glued, issued, failures, readerVars>>

(***************************************************************************)
(* The writer dies, or its append raises OSError, while it holds the lock:  *)
(* the file keeps what has reached it, the lock is released by the system   *)
(* or by the finally clause, and nothing is returned to the caller.         *)
(***************************************************************************)
Abort(w) == /\ pc[w] \in Holding
            /\ failures < MaxFailures
            /\ failures' = failures + 1
            /\ lock' = NoWriter
            /\ pc' = [pc EXCEPT ![w] = "idle"]
            /\ UNCHANGED <<lines, tail, tip, row, glued, acked, issued, readerVars>>

\* verify_audit_with_tip reads the audit file without the lock (and raises, with
\* no verdict, when the file does not decode) ...
VerifyReadRows ==
    /\ reader.pc = "idle"
    /\ tail # Undecodable
    /\ reader' = [pc |-> "rows", rows |-> read_audit_records,
                  quiet |-> lock = NoWriter, seen |-> Len(lines), owed |-> acked]
    /\ UNCHANGED <<lines, tail, tip, writerVars, failures, verdict>>

\* ... and the tip anchor later.
VerifyReadTip ==
    /\ reader.pc = "rows"
    /\ verdict' = [chain |-> verify_chain(reader.rows),
                   tip |-> TipStatus(reader.rows),
                   quiet |-> reader.quiet /\ lock = NoWriter /\ Len(lines) = reader.seen,
                   complete |-> reader.owed \subseteq Identities(reader.rows)]
    /\ reader' = IdleReader
    /\ UNCHANGED <<lines, tail, tip, writerVars, failures>>

WriterStep(w) == \/ Call(w) \/ Acquire(w) \/ LockTimeout(w) \/ HashRecord(w)
                 \/ ReadRaises(w) \/ BeginWrite(w) \/ EndWrite(w)
                 \/ TruncateTip(w) \/ FillTip(w) \/ TipFails(w) \/ Release(w)
                 \/ Abort(w)

Next == (\E w \in Writers : WriterStep(w)) \/ VerifyReadRows \/ VerifyReadTip

Spec == Init /\ [][Next]_vars

(***************************************************************************)
(* Inside append_audit a process that is alive keeps running, and the       *)
(* polling loop of jsonl_file_lock ends: it takes the lock or times out.    *)
(* Nobody is obliged to call append_audit, to fail, or to verify.           *)
(***************************************************************************)
Progress(w) == \/ Acquire(w) \/ LockTimeout(w) \/ HashRecord(w) \/ ReadRaises(w)
               \/ BeginWrite(w) \/ EndWrite(w) \/ TruncateTip(w) \/ FillTip(w)
               \/ Release(w)

FairSpec == Spec /\ \A w \in Writers : WF_vars(Progress(w))
-----------------------------------------------------------------------------
\* Every variable stays in its set.
TypeOK == /\ lines \in Seq(Row)
          /\ tail \in Tails
          /\ tip \in [count : Nat, hash : Seq(Nat)]
          /\ lock \in Writers \cup {NoWriter}
          /\ pc \in [Writers -> Holding \cup {"idle", "waiting"}]
          /\ row \in [Writers -> Row]
          /\ glued \in [Writers -> BOOLEAN]
          /\ acked \subseteq Nat
          /\ issued \in 0 .. MaxRecords
          /\ failures \in 0 .. MaxFailures

\* Where the chain stands before line i: at the line above, or at genesis on
\* the first line.
HashAbove(i) == IF i = 1 THEN Genesis ELSE lines[i - 1].hash

(***************************************************************************)
(* Whatever interleaving of writers, crashes and failed writes produced the *)
(* file, every record in it is hashed onto the line directly above it, or   *)
(* onto genesis where that line does not parse: concurrent appends never    *)
(* fork the chain.  This is what the lock window of append_audit, from      *)
(* _read_chain_tip to the append, is for.                                   *)
(***************************************************************************)
Linked == \A i \in 1 .. Len(lines) :
             IsRecord(lines[i]) => lines[i].hash = chain_hash(HashAbove(i), lines[i].id)

(***************************************************************************)
(* As long as no append was cut short, verify_chain accepts the file at     *)
(* every moment, also in the middle of somebody's append.                   *)
(***************************************************************************)
ChainIntact == failures = 0 => verify_chain(lines)

(***************************************************************************)
(* The tip anchor never runs ahead of the file nor describes a line that is *)
(* not in it: it names some line of the file by number and, if that line is *)
(* a record, by its hash.  An older anchor is stale, never wrong.           *)
(***************************************************************************)
TipDescribesPrefix ==
    tip # NoTip => /\ tip.count \in 1 .. Len(lines)
                   /\ LET l == lines[tip.count] IN IsRecord(l) => tip.hash = l.hash

(***************************************************************************)
(* Without failures, whoever looks while no append is under way finds the   *)
(* anchor at the last record: write_tip_anchor runs inside the lock window. *)
(***************************************************************************)
TipCurrentWhenFree ==
    failures = 0 /\ lock = NoWriter /\ lines # <<>> =>
        tip = [count |-> Len(lines), hash |-> lines[Len(lines)].hash]

(***************************************************************************)
(* verify_audit_with_tip takes no lock and may see half a line, an emptied  *)
(* anchor, or an anchor newer than its rows.  Without failures its chain    *)
(* check still never fails, and its tip check fails only if an append       *)
(* overlapped the two reads.                                                *)
(***************************************************************************)
NoFalseAlarm ==
    failures = 0 => /\ verdict.chain
                    /\ verdict.quiet => verdict.tip # "mismatch"

(***************************************************************************)
(* After a single failure the verifier cannot be satisfied with a file that *)
(* lost a record: if the tip agrees, every record append_audit had returned *)
(* when it read the file is among the rows it read, whatever the chain      *)
(* check says.  (A lost record is on a line glued to a torn one, which      *)
(* _count_records counts and read_audit_records does not.)                  *)
(***************************************************************************)
VerifiedIsComplete ==
    failures <= 1 /\ verdict.tip = "match" => verdict.complete

(***************************************************************************)
(* A record append_audit returned to its caller can be read back: "Append   *)
(* one hash-chained audit row".                                             *)
(***************************************************************************)
AppendedIsReadable == acked \subseteq Identities(lines)

\* Every call of append_audit ends, by returning or by raising, whatever a crash
\* has left in the file.
CallReturns == \A w \in Writers : pc[w] # "idle" ~> pc[w] = "idle"

(***************************************************************************)
(* The file and its anchor are an append-only log with an anchor that is    *)
(* renewed or lost, never falsified (AuditLog).                             *)
(***************************************************************************)
Abstract == INSTANCE AuditLog WITH Line <- Row, log <- lines, anchor <- tip.count
ImplementsAuditLog == Abstract!Spec
=============================================================================
