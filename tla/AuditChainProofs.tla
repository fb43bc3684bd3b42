-------------------------- MODULE AuditChainProofs --------------------------
(***************************************************************************)
(* Proofs about AuditChain, for any number of writers, records and          *)
(* failures: first what the writers keep, with the refinement of AuditLog,  *)
(* then what the parser of the file returns, then what the verifier may     *)
(* conclude from its two reads.                                             *)
(***************************************************************************)
EXTENDS AuditChain, SequenceTheorems, WellFoundedInduction, TLAPS

-----------------------------------------------------------------------------
(***************************************************************************)
(* The inductive invariant.  The properties speak of the file while nobody  *)
(* works on it; these conjuncts say what the lock holder knows on its way.  *)
(***************************************************************************)
LastHash == IF lines = <<>> THEN Genesis ELSE lines[Len(lines)].hash

\* Only the lock holder is inside the lock window of append_audit.
MutualExclusion == \A w \in Writers : pc[w] \in Holding => lock = w

\* The holder's hash is computed onto what it will write after.
HashFresh ==
    \A w \in Writers :
        /\ pc[w] = "hashed" => row[w].hash = chain_hash(read_chain_tip, row[w].id)
        /\ pc[w] = "writing" /\ ~ glued[w] =>
              row[w].hash = chain_hash(LastHash, row[w].id)

\* A completed append leaves no rest and its own record (or junk) on top.
LineOnTop ==
    \A w \in Writers : pc[w] \in {"wrote", "truncated"} =>
        /\ tail = NoTail
        /\ lines # <<>>
        /\ IsRecord(lines[Len(lines)]) => lines[Len(lines)].hash = row[w].hash

\* Without failures nothing is glued, every line is a record and the anchor
\* lags only while its refresh is under way.
Clean ==
    failures = 0 =>
        /\ (\A w \in Writers : pc[w] # "writing") => tail = NoTail
        /\ \A w \in Writers : pc[w] = "writing" => ~ glued[w]
        /\ \A w \in Writers : pc[w] # "idle" => row[w].id # 0
        /\ \A i \in 1 .. Len(lines) : IsRecord(lines[i])
        /\ lines # <<>> /\ (\A w \in Writers : pc[w] \notin {"wrote", "truncated"}) =>
               tip = [count |-> Len(lines), hash |-> lines[Len(lines)].hash]

\* The inductive invariant of the writers.
IInv == /\ TypeOK /\ MutualExclusion /\ HashFresh /\ LineOnTop /\ Clean
        /\ Linked /\ TipDescribesPrefix
-----------------------------------------------------------------------------
\* The empty hash is a hash.
LEMMA GenesisType == Genesis \in Seq(Nat)
BY DEF Genesis

\* The unparsable line is a row, and every kind of rest is a tail.
LEMMA RowsAndTails ==
    /\ Junk \in Row
    /\ NoTail \in Tails /\ Torn \in Tails /\ Undecodable \in Tails
    /\ \A r \in Row : Whole(r) \in Tails
    /\ \A r \in Row : r.id \in Nat /\ r.hash \in Seq(Nat)
    /\ \A n \in Nat, h \in Seq(Nat) : [id |-> n, hash |-> h] \in Row
    /\ \A t \in Tails : t.row \in Row
BY Zenon, GenesisType DEF Row, Junk, Tails, NoTail, Torn, Undecodable, Whole

\* Hashing a record onto a hash gives a hash.
LEMMA ChainHashType ==
    ASSUME NEW h \in Seq(Nat), NEW n \in Nat
    PROVE  chain_hash(h, n) \in Seq(Nat)
BY Zenon, AppendProperties DEF chain_hash

\* _read_chain_tip returns a hash.
LEMMA ReadChainTipType ==
    ASSUME TypeOK
    PROVE  read_chain_tip \in Seq(Nat)
<1>1. LastPhysical \in Row
  <2>1. CASE tail # NoTail
    BY Zenon, <2>1, RowsAndTails DEF LastPhysical, TypeOK
  <2>2. CASE tail = NoTail /\ lines = <<>>
    BY Zenon, <2>2, RowsAndTails DEF LastPhysical
  <2>3. CASE tail = NoTail /\ lines # <<>>
    <3>1. Len(lines) \in 1 .. Len(lines)
      BY <2>3, EmptySeq, LenProperties DEF TypeOK
    <3> QED
      BY Zenon, <3>1, <2>3, ElementOfSeq DEF LastPhysical, TypeOK
  <2> QED
    BY Zenon, <2>1, <2>2, <2>3
<1> QED
  BY Zenon, <1>1, RowsAndTails DEF read_chain_tip

-----------------------------------------------------------------------------
\* Type correctness is preserved by every step.
LEMMA TypeStep == TypeOK /\ [Next]_vars => TypeOK'
<1> SUFFICES ASSUME TypeOK, [Next]_vars
             PROVE  TypeOK'
  BY Zenon
<1> USE DEF TypeOK, readerVars, writerVars, Holding
<1>1. ASSUME NEW w \in Writers, Call(w)
      PROVE  TypeOK'
  <2>1. [id |-> issued + 1, hash |-> Genesis] \in Row
    <3>1. issued + 1 \in Nat
      OBVIOUS
    <3> QED
      BY Zenon, <3>1, RowsAndTails, GenesisType
  <2> QED
    BY <1>1, <2>1, ConstantsAssumption DEF Call
<1>2. ASSUME NEW w \in Writers, Acquire(w) \/ LockTimeout(w) \/ ReadRaises(w)
      PROVE  TypeOK'
  BY Zenon, <1>2 DEF Acquire, LockTimeout, ReadRaises
<1>3. ASSUME NEW w \in Writers, HashRecord(w)
      PROVE  TypeOK'
  <2>1. [id |-> row[w].id, hash |-> chain_hash(read_chain_tip, row[w].id)] \in Row
    BY Zenon, RowsAndTails, ReadChainTipType, ChainHashType
  <2> QED
    BY Zenon, <1>3, <2>1 DEF HashRecord
<1>4. ASSUME NEW w \in Writers, BeginWrite(w)
      PROVE  TypeOK'
  BY Zenon, <1>4, RowsAndTails DEF BeginWrite
<1>5. ASSUME NEW w \in Writers, EndWrite(w)
      PROVE  TypeOK'
  <2>1. (IF glued[w] THEN Junk ELSE row[w]) \in Row
    BY Zenon, RowsAndTails
  <2>2. lines' \in Seq(Row)
    BY Zenon, <1>5, <2>1, AppendProperties DEF EndWrite
  <2> QED
    BY Zenon, <1>5, <2>2, RowsAndTails DEF EndWrite
<1>6. ASSUME NEW w \in Writers, TruncateTip(w)
      PROVE  TypeOK'
  <2>1. NoTip \in [count : Nat, hash : Seq(Nat)]
    BY Zenon, GenesisType DEF NoTip
  <2> QED
    BY Zenon, <1>6, <2>1 DEF TruncateTip
<1>10. ASSUME NEW w \in Writers, TipFails(w)
      PROVE  TypeOK'
  BY <1>10, ConstantsAssumption DEF TipFails
<1>11. ASSUME NEW w \in Writers, Abort(w)
      PROVE  TypeOK'
  BY <1>11, ConstantsAssumption DEF Abort
<1>7. ASSUME NEW w \in Writers, FillTip(w)
      PROVE  TypeOK'
  <2>1. count_records \in Nat
    BY LenProperties DEF count_records
  <2>2. row[w].hash \in Seq(Nat)
    BY Zenon, RowsAndTails
  <2> QED
    BY Zenon, <1>7, <2>1, <2>2 DEF FillTip
<1>8. ASSUME NEW w \in Writers, Release(w)
      PROVE  TypeOK'
  <2>1. row[w].id \in Nat
    BY Zenon, RowsAndTails
  <2> QED
    BY Zenon, <1>8, <2>1 DEF Release
<1>9. CASE VerifyReadRows \/ VerifyReadTip \/ UNCHANGED vars
  BY Zenon, <1>9 DEF VerifyReadRows, VerifyReadTip, vars
<1> QED
  BY Zenon, <1>1, <1>2, <1>3, <1>4, <1>5, <1>6, <1>7, <1>8, <1>9, <1>10, <1>11 DEF Next, WriterStep

\* Initially everything is empty.
LEMMA TypeInit == Init => TypeOK
<1>1. <<>> \in Seq(Row)
  OBVIOUS
<1> QED
  BY <1>1, GenesisType, RowsAndTails, ConstantsAssumption DEF Init, TypeOK, NoTip, Holding

\* The variables keep their types whatever writers, failures and verifiers do.
THEOREM TypeCorrect == Spec => []TypeOK
BY TypeInit, TypeStep, PTL DEF Spec

-----------------------------------------------------------------------------
\* Nobody but the writer inside the lock window is inside it.
LEMMA OthersOutside ==
    ASSUME MutualExclusion, NEW w \in Writers, pc[w] \in Holding
    PROVE  \A v \in Writers \ {w} : pc[v] \notin Holding
BY Zenon DEF MutualExclusion

\* The steps that leave the audit file and its anchor alone.
LEMMA QuietStep ==
    ASSUME IInv, TypeOK', NEW w \in Writers,
           \/ Call(w) \/ Acquire(w) \/ LockTimeout(w) \/ ReadRaises(w)
           \/ Release(w) \/ TipFails(w) \/ Abort(w)
    PROVE  IInv'
<1>1. UNCHANGED <<lines, tail, tip>>
  BY Zenon DEF Call, Acquire, LockTimeout, ReadRaises, Release, TipFails, Abort
<1>2. Linked' /\ TipDescribesPrefix'
  BY Zenon, <1>1 DEF IInv, Linked, TipDescribesPrefix, HashAbove
<1>3. MutualExclusion'
  <2>1. \A v \in Writers \ {w} : pc'[v] = pc[v]
    BY Zenon DEF IInv, TypeOK, Call, Acquire, LockTimeout, ReadRaises, Release, TipFails, Abort
  <2>2. CASE Call(w) \/ LockTimeout(w)
    <3>1. pc'[w] \notin Holding /\ pc[w] \notin Holding /\ lock' = lock
      BY Zenon, <2>2 DEF IInv, TypeOK, Call, LockTimeout, Holding
    <3> QED
      BY Zenon, <2>1, <3>1 DEF IInv, MutualExclusion
  <2>3. CASE Acquire(w)
    <3>1. pc'[w] \in Holding /\ lock' = w /\ lock = NoWriter
      BY Zenon, <2>3 DEF IInv, TypeOK, Acquire, Holding
    <3> QED
      BY Zenon, <2>1, <3>1, ConstantsAssumption DEF IInv, MutualExclusion
  <2>4. CASE ReadRaises(w) \/ Release(w) \/ Abort(w)
    <3>1. pc'[w] \notin Holding /\ pc[w] \in Holding /\ lock' = NoWriter
      BY Zenon, <2>4 DEF IInv, TypeOK, ReadRaises, Release, Abort, Holding
    <3> QED
      BY Zenon, <2>1, <3>1, ConstantsAssumption DEF IInv, MutualExclusion
  <2>5. CASE TipFails(w)
    <3>1. pc'[w] \in Holding /\ pc[w] \in Holding /\ lock' = lock
      BY Zenon, <2>5 DEF IInv, TypeOK, TipFails, Holding
    <3> QED
      BY Zenon, <2>1, <3>1 DEF IInv, MutualExclusion
  <2> QED
    BY Zenon, <2>2, <2>3, <2>4, <2>5
<1>4. \A v \in Writers : v # w => pc'[v] = pc[v] /\ row'[v] = row[v] /\ glued'[v] = glued[v]
  BY Zenon DEF IInv, TypeOK, Call, Acquire, LockTimeout, ReadRaises, Release, TipFails, Abort
<1>5. pc'[w] \in {"idle", "waiting", "locked", "tipped"}
  BY Zenon DEF IInv, TypeOK, Call, Acquire, LockTimeout, ReadRaises, Release, TipFails, Abort
<1>6. HashFresh'
  BY Zenon, <1>1, <1>4, <1>5 DEF IInv, HashFresh, read_chain_tip, LastPhysical, LastHash
<1>7. LineOnTop'
  BY Zenon, <1>1, <1>4, <1>5 DEF IInv, LineOnTop
<1>8. Clean'
  <2>1. CASE TipFails(w) \/ Abort(w)
    BY <2>1 DEF Clean, TipFails, Abort, IInv, TypeOK
  <2>2. CASE Call(w)
    <3>1. pc[w] = "idle" /\ row'[w].id # 0 /\ failures' = failures
      BY <2>2 DEF Call, IInv, TypeOK
    <3> QED
      BY Zenon, <1>1, <1>4, <1>5, <3>1 DEF IInv, Clean
  <2>3. CASE Acquire(w) \/ LockTimeout(w) \/ ReadRaises(w) \/ Release(w)
    <3>1. /\ failures' = failures /\ row' = row /\ pc[w] # "idle"
          /\ pc[w] \notin {"writing", "wrote", "truncated"}
      BY Zenon, <2>3 DEF Acquire, LockTimeout, ReadRaises, Release
    <3> QED
      BY Zenon, <1>1, <1>4, <1>5, <3>1 DEF IInv, Clean
  <2> QED
    BY Zenon, <2>1, <2>2, <2>3
<1> QED
  BY Zenon, <1>2, <1>3, <1>6, <1>7, <1>8 DEF IInv

\* Hashing onto the last physical line.
LEMMA HashStep ==
    ASSUME IInv, TypeOK', NEW w \in Writers, HashRecord(w)
    PROVE  IInv'
<1>1. /\ UNCHANGED <<lines, tail, tip, lock, glued, failures>>
      /\ pc[w] = "locked" /\ pc'[w] = "hashed"
      /\ row'[w].id = row[w].id
      /\ row'[w].hash = chain_hash(read_chain_tip, row[w].id)
      /\ \A v \in Writers : v # w => pc'[v] = pc[v] /\ row'[v] = row[v]
  BY Zenon DEF IInv, TypeOK, HashRecord
<1>2. Linked' /\ TipDescribesPrefix'
  BY Zenon, <1>1 DEF IInv, Linked, TipDescribesPrefix, HashAbove
<1>3. MutualExclusion'
  BY Zenon, <1>1 DEF IInv, MutualExclusion, Holding
<1>4. HashFresh' /\ LineOnTop'
  BY Zenon, <1>1 DEF IInv, HashFresh, LineOnTop, read_chain_tip, LastPhysical, LastHash
<1>5. Clean'
  BY Zenon, <1>1 DEF IInv, Clean
<1> QED
  BY Zenon, <1>2, <1>3, <1>4, <1>5 DEF IInv

\* Starting the line, on a fresh line or on a rest.
LEMMA BeginStep ==
    ASSUME IInv, TypeOK', NEW w \in Writers, BeginWrite(w)
    PROVE  IInv'
<1>1. /\ UNCHANGED <<lines, tip, lock, row, failures>>
      /\ pc[w] = "hashed" /\ pc'[w] = "writing"
      /\ glued'[w] = (tail # NoTail)
      /\ \A v \in Writers : v # w => pc'[v] = pc[v] /\ glued'[v] = glued[v]
  BY Zenon DEF IInv, TypeOK, BeginWrite
<1>2. \A v \in Writers \ {w} : pc[v] \notin Holding
  BY Zenon, <1>1, OthersOutside DEF IInv, Holding
<1>3. Linked' /\ TipDescribesPrefix'
  BY Zenon, <1>1 DEF IInv, Linked, TipDescribesPrefix, HashAbove
<1>4. MutualExclusion'
  BY Zenon, <1>1 DEF IInv, MutualExclusion, Holding
<1>5. HashFresh'
  <2>1. tail = NoTail => read_chain_tip = LastHash
    BY Zenon DEF read_chain_tip, LastPhysical, LastHash, Junk
  <2> QED
    BY Zenon, <1>1, <1>2, <2>1 DEF IInv, HashFresh, LastHash, Holding
<1>6. LineOnTop'
  BY Zenon, <1>1, <1>2 DEF LineOnTop, Holding
<1>7. Clean'
  <2>1. failures = 0 => tail = NoTail
    BY Zenon, <1>1, <1>2 DEF IInv, Clean, Holding
  <2> QED
    BY Zenon, <1>1, <1>2, <2>1 DEF IInv, Clean, Holding
<1> QED
  BY Zenon, <1>3, <1>4, <1>5, <1>6, <1>7 DEF IInv

\* Completing the line.
LEMMA EndStep ==
    ASSUME IInv, TypeOK', NEW w \in Writers, EndWrite(w)
    PROVE  IInv'
<1> DEFINE new == IF glued[w] THEN Junk ELSE row[w]
<1>1. /\ UNCHANGED <<tip, lock, row, glued, failures>>
      /\ pc[w] = "writing" /\ pc'[w] = "wrote" /\ tail' = NoTail
      /\ lines' = Append(lines, new)
      /\ \A v \in Writers : v # w => pc'[v] = pc[v]
  BY Zenon DEF IInv, TypeOK, EndWrite
<1>2. \A v \in Writers \ {w} : pc[v] \notin Holding
  BY Zenon, <1>1, OthersOutside DEF IInv, Holding
<1>3. /\ lines \in Seq(Row) /\ Len(lines) \in Nat
      /\ Len(lines') = Len(lines) + 1
      /\ \A j \in 1 .. Len(lines) : lines'[j] = lines[j]
      /\ lines'[Len(lines) + 1] = new
  <2>1. new \in Row /\ lines \in Seq(Row)
    BY Zenon, RowsAndTails DEF IInv, TypeOK
  <2> HIDE DEF new
  <2> QED
    BY <1>1, <2>1, AppendProperties, LenProperties
<1>4. Linked'
  <2>1. \A k \in Nat : k = Len(lines) + 1 => HashAbove(k)' = LastHash
    BY <1>3, EmptySeq DEF HashAbove, LastHash
  <2>2. IsRecord(new) => new.hash = chain_hash(LastHash, new.id)
    BY Zenon, <1>1 DEF IInv, HashFresh, IsRecord, Junk
  <2>3. \A j \in 1 .. Len(lines) : HashAbove(j)' = HashAbove(j)
    BY <1>3 DEF HashAbove
  <2> HIDE DEF new
  <2>4. ASSUME NEW j \in 1 .. Len(lines'), IsRecord(lines'[j])
        PROVE  lines'[j].hash = chain_hash(HashAbove(j)', lines'[j].id)
    <3>1. CASE j \in 1 .. Len(lines)
      BY Zenon, <3>1, <2>4, <1>3, <2>3 DEF IInv, Linked
    <3>2. CASE j = Len(lines) + 1
      BY <3>2, <2>4, <1>3, <2>1, <2>2
    <3> QED
      BY <3>1, <3>2, <1>3
  <2> QED
    BY Zenon, <2>4 DEF Linked
<1>5. TipDescribesPrefix'
  <2> HIDE DEF new
  <2> QED
    BY <1>1, <1>3 DEF IInv, TipDescribesPrefix
<1>6. MutualExclusion'
  BY Zenon, <1>1 DEF IInv, MutualExclusion, Holding
<1>7. HashFresh'
  BY Zenon, <1>1, <1>2 DEF HashFresh, Holding
<1>8. LineOnTop'
  <2>1. lines' # <<>>
    BY <1>3
  <2>2. IsRecord(new) => new.hash = row'[w].hash
    BY Zenon, <1>1 DEF IsRecord, Junk
  <2>3. \A v \in Writers \ {w} : pc'[v] \notin {"wrote", "truncated"}
    BY Zenon, <1>1, <1>2 DEF Holding
  <2>4. lines'[Len(lines')] = new
    BY Zenon, <1>3
  <2> HIDE DEF new
  <2> QED
    BY Zenon, <1>1, <2>1, <2>2, <2>3, <2>4 DEF LineOnTop
<1>9. Clean'
  <2>1. failures = 0 => IsRecord(new)
    BY Zenon, <1>1 DEF IInv, Clean, IsRecord
  <2> HIDE DEF new
  <2>2. failures = 0 => \A j \in 1 .. Len(lines') : IsRecord(lines'[j])
    BY <1>3, <2>1 DEF IInv, Clean
  <2> QED
    BY Zenon, <1>1, <1>2, <2>2 DEF IInv, Clean, Holding
<1> QED
  BY Zenon, <1>4, <1>5, <1>6, <1>7, <1>8, <1>9 DEF IInv

\* Emptying and filling the anchor.
LEMMA TipStep ==
    ASSUME IInv, TypeOK', NEW w \in Writers, TruncateTip(w) \/ FillTip(w)
    PROVE  IInv'
<1>1. /\ UNCHANGED <<lines, tail, lock, row, glued, failures>>
      /\ pc[w] \in {"wrote", "truncated"} /\ pc'[w] \in {"truncated", "tipped"}
      /\ \A v \in Writers : v # w => pc'[v] = pc[v]
  BY Zenon DEF IInv, TypeOK, TruncateTip, FillTip
<1>2. \A v \in Writers \ {w} : pc[v] \notin Holding
  BY Zenon, <1>1, OthersOutside DEF IInv, Holding
<1>3. Linked'
  BY Zenon, <1>1 DEF IInv, Linked, HashAbove
<1>4. MutualExclusion'
  BY Zenon, <1>1 DEF IInv, MutualExclusion, Holding
<1>5. HashFresh' /\ LineOnTop'
  BY Zenon, <1>1, <1>2 DEF IInv, HashFresh, LineOnTop, Holding
<1>6. /\ tail = NoTail /\ lines # <<>> /\ Len(lines) \in Nat /\ Len(lines) # 0
      /\ IsRecord(lines[Len(lines)]) => lines[Len(lines)].hash = row[w].hash
  BY Zenon, <1>1, LenProperties, EmptySeq DEF IInv, TypeOK, LineOnTop
<1>7. CASE TruncateTip(w)
  <2>1. TipDescribesPrefix'
    BY Zenon, <1>7 DEF TruncateTip, TipDescribesPrefix
  <2>2. pc'[w] = "truncated"
    BY Zenon, <1>7 DEF TruncateTip, IInv, TypeOK
  <2>3. Clean'
    BY Zenon, <1>1, <2>2 DEF IInv, Clean
  <2> QED
    BY Zenon, <1>3, <1>4, <1>5, <2>1, <2>3 DEF IInv
<1>8. CASE FillTip(w)
  <2>1. tip' = [count |-> Len(lines), hash |-> row[w].hash] /\ pc'[w] = "tipped"
    BY <1>6, <1>8 DEF FillTip, count_records, IInv, TypeOK
  <2>2. TipDescribesPrefix'
    BY <1>1, <1>6, <2>1 DEF TipDescribesPrefix
  <2>3. Clean'
    BY <1>1, <1>2, <1>6, <2>1 DEF IInv, Clean
  <2> QED
    BY Zenon, <1>3, <1>4, <1>5, <2>2, <2>3 DEF IInv
<1> QED
  BY Zenon, <1>7, <1>8

\* A verifier, or no step at all, changes nothing the invariant speaks of.
LEMMA ReaderStep ==
    ASSUME IInv, VerifyReadRows \/ VerifyReadTip \/ UNCHANGED vars
    PROVE  IInv'
<1>1. UNCHANGED <<lines, tail, tip, lock, pc, row, glued, acked, issued, failures>>
  BY Zenon DEF VerifyReadRows, VerifyReadTip, vars, writerVars
<1> QED
  BY Zenon, <1>1 DEF IInv, TypeOK, MutualExclusion, HashFresh, LineOnTop, Clean, Linked,
              TipDescribesPrefix, HashAbove, read_chain_tip, LastPhysical, LastHash

-----------------------------------------------------------------------------
\* The empty file satisfies the inductive invariant.
LEMMA InvInit == Init => IInv
BY TypeInit DEF Init, IInv, MutualExclusion, HashFresh, LineOnTop, Clean, Linked,
                TipDescribesPrefix, Holding

\* Every step of a writer or of the verifier preserves it.
LEMMA InvStep == IInv /\ [Next]_vars => IInv'
<1> SUFFICES ASSUME IInv, [Next]_vars
             PROVE  IInv'
  BY Zenon
<1>1. TypeOK'
  BY Zenon, TypeStep DEF IInv
<1> QED
  BY Zenon, <1>1, QuietStep, HashStep, BeginStep, EndStep, TipStep, ReaderStep
     DEF Next, WriterStep

\* What the invariant says of the file as a reader finds it.
LEMMA InvProperties == IInv => Linked /\ ChainIntact /\ TipDescribesPrefix /\ TipCurrentWhenFree
<1> SUFFICES ASSUME IInv
             PROVE  ChainIntact /\ TipCurrentWhenFree
  BY Zenon DEF IInv
<1>1. ChainIntact
  BY Zenon DEF IInv, ChainIntact, Clean, Linked, HashAbove, verify_chain
<1>2. TipCurrentWhenFree
  <2>1. lock = NoWriter => \A w \in Writers : pc[w] \notin {"wrote", "truncated"}
    BY Zenon, ConstantsAssumption DEF IInv, MutualExclusion, Holding
  <2> QED
    BY Zenon, <2>1 DEF IInv, Clean, TipCurrentWhenFree
<1> QED
  BY Zenon, <1>1, <1>2

\* It holds in every reachable state.
LEMMA InvAlways == Spec => []IInv
BY InvInit, InvStep, PTL DEF Spec

(***************************************************************************)
(* Concurrent appends, crashes and failed writes never fork the chain: each *)
(* record in the file is hashed onto the line directly above it.            *)
(***************************************************************************)
THEOREM ChainNeverForks == Spec => []Linked
BY InvAlways, InvProperties, PTL

(***************************************************************************)
(* As long as no append was cut short, verify_chain accepts the file at     *)
(* every moment.                                                            *)
(***************************************************************************)
THEOREM ChainStaysIntact == Spec => []ChainIntact
BY InvAlways, InvProperties, PTL

\* The tip anchor always describes a line of the file.
THEOREM TipIsHonest == Spec => []TipDescribesPrefix
BY InvAlways, InvProperties, PTL

\* Without failures the tip anchor is up to date whenever the lock is free.
THEOREM TipIsCurrent == Spec => []TipCurrentWhenFree
BY InvAlways, InvProperties, PTL

-----------------------------------------------------------------------------
\* Every step of the audit is a step of the abstract log, or none.
LEMMA LogStep == IInv /\ [Next]_vars => [Abstract!Next]_(Abstract!vars)
<1> SUFFICES ASSUME IInv, [Next]_vars
             PROVE  [Abstract!Next]_(Abstract!vars)
  BY Zenon
<1>1. ASSUME NEW w \in Writers, EndWrite(w)
      PROVE  Abstract!Extend
  <2>1. (IF glued[w] THEN Junk ELSE row[w]) \in Row /\ lines \in Seq(Row)
    BY Zenon, RowsAndTails DEF IInv, TypeOK
  <2>2. /\ lines' \in Seq(Row)
        /\ Len(lines') = Len(lines) + 1
        /\ \A i \in 1 .. Len(lines) : lines'[i] = lines[i]
    BY <1>1, <2>1, AppendProperties DEF EndWrite
  <2> QED
    BY Zenon, <1>1, <2>2 DEF EndWrite, Abstract!Extend
<1>2. ASSUME NEW w \in Writers, TruncateTip(w)
      PROVE  Abstract!Lose
  BY Zenon, <1>2 DEF TruncateTip, NoTip, Abstract!Lose
<1>3. ASSUME NEW w \in Writers, FillTip(w)
      PROVE  Abstract!Renew
  <2>1. tail = NoTail /\ Len(lines) \in Nat
    BY Zenon, <1>3, LenProperties DEF IInv, TypeOK, LineOnTop, FillTip
  <2> QED
    BY <1>3, <2>1 DEF FillTip, count_records, Abstract!Renew
<1>4. ASSUME NEW w \in Writers,
             \/ Call(w) \/ Acquire(w) \/ LockTimeout(w) \/ HashRecord(w)
             \/ ReadRaises(w) \/ BeginWrite(w) \/ TipFails(w) \/ Release(w) \/ Abort(w)
      PROVE  UNCHANGED Abstract!vars
  BY Zenon, <1>4 DEF Abstract!vars, Call, Acquire, LockTimeout, HashRecord, ReadRaises,
              BeginWrite, TipFails, Release, Abort
<1>5. CASE VerifyReadRows \/ VerifyReadTip \/ UNCHANGED vars
  BY Zenon, <1>5 DEF Abstract!vars, VerifyReadRows, VerifyReadTip, vars
<1> QED
  BY Zenon, <1>1, <1>2, <1>3, <1>4, <1>5 DEF Next, WriterStep, Abstract!Next

(***************************************************************************)
(* The audit file with its anchor implements the append-only log: no step   *)
(* rewrites a line, and the anchor is only renewed for the whole file or    *)
(* lost.                                                                    *)
(***************************************************************************)
THEOREM AuditIsAppendOnly == Spec => ImplementsAuditLog
<1>1. Init => Abstract!Init
  BY DEF Init, NoTip, Abstract!Init
<1> QED
  BY <1>1, LogStep, InvAlways, PTL DEF Spec, ImplementsAuditLog, Abstract!Spec
-----------------------------------------------------------------------------
(***************************************************************************)
(* What read_audit_records keeps of the file.  Its loop is a recursive      *)
(* function, so the facts about it go by induction on the number of lines.  *)
(***************************************************************************)

\* A set of natural numbers that is not empty has a least one.
LEMMA LeastNumber ==
    ASSUME NEW T \in SUBSET Nat, T # {}
    PROVE  \E x \in T : \A y \in T : x <= y
<1> DEFINE R == {ss \in Nat \X Nat : ss[1] < ss[2]}
<1>1. IsWellFoundedOn(R, Nat)
  BY NatLessThanWellFounded, Zenon DEF OpToRel
<1>2. \A y, x \in Nat : y < x => <<y, x>> \in R
  BY Zenon
<1> HIDE DEF R
<1>3. PICK x \in T : \A y \in T : ~(<<y, x>> \in R)
  BY <1>1, WFMin, Zenon
<1>4. \A y \in T : ~(y < x)
  BY <1>2, <1>3, Zenon
<1> QED
  BY <1>4

\* f is the table of the loop over s: f[i] is what it has kept after i of n lines.
Kept(f, s, i) ==
    IF i = 0 THEN <<>>
    ELSE IF IsRecord(s[i]) THEN Append(f[i - 1], s[i]) ELSE f[i - 1]

Fills(f, s, n) == f = [i \in 0 .. n |-> Kept(f, s, i)]

\* Every file has such a table.
LEMMA TableExists ==
    ASSUME NEW s, Len(s) \in Nat
    PROVE  \E f : Fills(f, s, Len(s))
<1> DEFINE T == {n \in 0 .. Len(s) : ~ \E f : Fills(f, s, n)}
<1>1. SUFFICES ASSUME T # {} PROVE FALSE
  <2>1. Len(s) \in 0 .. Len(s)
    OBVIOUS
  <2> QED
    BY Zenon, <2>1
<1>2. PICK n \in T : \A m \in T : n <= m
  <2>1. T \in SUBSET Nat
    OBVIOUS
  <2> HIDE DEF T
  <2> QED
    BY Zenon, <1>1, <2>1, LeastNumber
<1>3. n \in 0 .. Len(s) /\ ~ \E f : Fills(f, s, n)
  BY Zenon
<1>4. CASE n = 0
  <2>1. Fills([i \in 0 .. 0 |-> <<>>], s, 0)
    BY DEF Fills, Kept
  <2> QED
    BY Zenon, <1>3, <1>4, <2>1
<1>5. CASE n # 0
  <2>1. n - 1 \in 0 .. Len(s) /\ n - 1 \notin T
    <3>1. n - 1 \in 0 .. Len(s) /\ ~(n <= n - 1)
      BY <1>3, <1>5
    <3> HIDE DEF T
    <3> QED
      BY Zenon, <1>2, <3>1
  <2>2. PICK f : Fills(f, s, n - 1)
    BY Zenon, <2>1
  <2> DEFINE x == IF IsRecord(s[n]) THEN Append(f[n - 1], s[n]) ELSE f[n - 1]
             g == [i \in 0 .. n |-> IF i = n THEN x ELSE f[i]]
  <2> HIDE DEF x
  <2>3. \A i \in 0 .. (n - 1) : f[i] = Kept(f, s, i)
    BY Zenon, <2>2, <1>3, <1>5 DEF Fills
  <2>4. \A i \in 0 .. n : g[i] = Kept(g, s, i)
    <3> TAKE i \in 0 .. n
    <3>1. CASE i = n
      <4>1. n - 1 \in 0 .. n /\ n - 1 # n /\ n \in 0 .. n
        BY <1>3, <1>5
      <4>2. g[n] = x /\ g[n - 1] = f[n - 1]
        BY Zenon, <4>1
      <4> HIDE DEF g
      <4> QED
        BY Zenon, <3>1, <4>2, <1>5 DEF x, Kept
    <3>2. CASE i # n
      <4>1. i \in 0 .. (n - 1) /\ (i # 0 => i - 1 \in 0 .. n /\ i - 1 # n)
        BY <1>3, <3>2
      <4>2. g[i] = f[i] /\ (i # 0 => g[i - 1] = f[i - 1])
        BY Zenon, <3>2, <4>1
      <4> HIDE DEF g
      <4> QED
        BY Zenon, <2>3, <4>1, <4>2 DEF Kept
    <3> QED
      BY Zenon, <3>1, <3>2
  <2>5. Fills(g, s, n)
    <3>1. g = [i \in 0 .. n |-> g[i]]
      BY Zenon
    <3> HIDE DEF g
    <3> QED
      BY Zenon, <3>1, <2>4 DEF Fills
  <2> QED
    BY Zenon, <1>3, <2>5
<1> QED
  BY Zenon, <1>4, <1>5

\* Two tables agree as far as their files do.
LEMMA TablesAgree ==
    ASSUME NEW s, NEW t, NEW n \in Nat, NEW m \in Nat, n <= m,
           \A i \in 1 .. n : s[i] = t[i],
           NEW f, NEW g, Fills(f, s, n), Fills(g, t, m)
    PROVE  \A i \in 0 .. n : f[i] = g[i]
<1> DEFINE T == {i \in 0 .. n : f[i] # g[i]}
<1>1. SUFFICES ASSUME T # {} PROVE FALSE
  BY Zenon
<1>2. PICK k \in T : \A j \in T : k <= j
  <2>1. T \in SUBSET Nat
    OBVIOUS
  <2> HIDE DEF T
  <2> QED
    BY Zenon, <1>1, <2>1, LeastNumber
<1>3. k \in 0 .. n /\ k \in 0 .. m /\ f[k] # g[k]
  OBVIOUS
<1>4. f[k] = Kept(f, s, k) /\ g[k] = Kept(g, t, k)
  BY Zenon, <1>3 DEF Fills
<1>5. k # 0 => f[k - 1] = g[k - 1] /\ s[k] = t[k]
  <2>1. k # 0 => k - 1 \in 0 .. n /\ ~(k <= k - 1) /\ k \in 1 .. n
    BY <1>3
  <2>2. k # 0 => k - 1 \notin T
    <3> HIDE DEF T
    <3> QED
      BY Zenon, <1>2, <2>1
  <2> QED
    BY Zenon, <2>1, <2>2
<1> QED
  BY <1>3, <1>4, <1>5 DEF Kept

\* The rows are the end of the table.
LEMMA ParsedRowsTable ==
    ASSUME NEW s, Len(s) \in Nat
    PROVE  \E f : Fills(f, s, Len(s)) /\ ParsedRows(s) = f[Len(s)]
<1>1. ParsedRows(s) = (CHOOSE f : Fills(f, s, Len(s)))[Len(s)]
  BY Zenon DEF ParsedRows, Fills, Kept
<1>2. Fills(CHOOSE f : Fills(f, s, Len(s)), s, Len(s))
  BY TableExists, Zenon
<1> QED
  BY Zenon, <1>1, <1>2

\* Nothing is read from an empty file.
LEMMA ParsedRowsEmpty == ParsedRows(<<>>) = <<>>
<1>1. Len(<<>>) = 0
  BY Zenon
<1>2. PICK f : Fills(f, <<>>, 0) /\ ParsedRows(<<>>) = f[0]
  BY Zenon, <1>1, ParsedRowsTable
<1> QED
  BY <1>2 DEF Fills, Kept

\* One more line adds its row if it parses.
LEMMA ParsedRowsAppend ==
    ASSUME NEW s \in Seq(Row), NEW x \in Row
    PROVE  ParsedRows(Append(s, x)) =
               IF IsRecord(x) THEN Append(ParsedRows(s), x) ELSE ParsedRows(s)
<1> DEFINE t == Append(s, x)
           n == Len(s)
<1>1. n \in Nat /\ Len(t) = n + 1 /\ t[n + 1] = x /\ \A i \in 1 .. n : s[i] = t[i]
  BY AppendProperties, LenProperties
<1> HIDE DEF t, n
<1>2. PICK f : Fills(f, s, n) /\ ParsedRows(s) = f[n]
  BY Zenon, <1>1, ParsedRowsTable DEF n
<1>3. PICK g : Fills(g, t, n + 1) /\ ParsedRows(t) = g[n + 1]
  BY <1>1, ParsedRowsTable, n + 1 \in Nat
<1>4. g[n + 1] = Kept(g, t, n + 1)
  BY <1>1, <1>3 DEF Fills
<1>5. g[n] = f[n]
  <2>1. n + 1 \in Nat /\ n <= n + 1 /\ n \in 0 .. n
    BY <1>1
  <2> QED
    BY <1>1, <1>2, <1>3, <2>1, TablesAgree
<1>6. n + 1 # 0 /\ n + 1 - 1 = n
  BY <1>1
<1> QED
  BY <1>1, <1>2, <1>3, <1>4, <1>5, <1>6 DEF Kept, t
-----------------------------------------------------------------------------
(***************************************************************************)
(* The verifier and the file.  With at most one failure at most one line of *)
(* the file does not parse, and the invariant below follows that line.      *)
(***************************************************************************)
Unwritten == {"waiting", "locked", "hashed", "writing"}
Written == {"wrote", "truncated", "tipped"}

\* The lines that do not parse.
Broken == {i \in 1 .. Len(lines) : ~ IsRecord(lines[i])}

\* A hash names the last record it was computed over.
Names(hash, id) == hash # Genesis /\ hash[Len(hash)] = id

\* No line of the file has this identity.
Absent(id) == \A i \in 1 .. Len(lines) : lines[i].id # id

\* Every call has an identity of its own, which is in the file at most once and
\* not before the call has written it.
OwnIdentities ==
    /\ \A i \in 1 .. Len(lines) : lines[i] = Junk \/ lines[i].id \in 1 .. issued
    /\ \A i, j \in 1 .. Len(lines) :
          IsRecord(lines[i]) /\ lines[i].id = lines[j].id => i = j
    /\ \A w \in Writers : pc[w] # "idle" => row[w].id \in 1 .. issued
    /\ \A v, w \in Writers :
          pc[v] # "idle" /\ pc[w] # "idle" /\ row[v].id = row[w].id => v = w
    /\ \A w \in Writers : pc[w] \in Unwritten => Absent(row[w].id)

\* What the writer inside the lock window finds at the end of the file.
OwnLine ==
    \A w \in Writers :
        /\ pc[w] \in {"hashed", "writing", "wrote", "truncated"} =>
              Names(row[w].hash, row[w].id)
        /\ pc[w] = "writing" =>
              \/ tail.row = Junk
              \/ ~ glued[w] /\ tail = Whole(row[w])
        /\ pc[w] \in Written =>
              /\ lines # <<>>
              /\ \/ lines[Len(lines)] = row[w]
                 \/ lines[Len(lines)] = Junk /\ Absent(row[w].id)

\* An identity no line has, nor ever will have.
Spent(id) == /\ id \in 1 .. issued
             /\ Absent(id)
             /\ \A w \in Writers : pc[w] \in Unwritten => row[w].id # id

\* An anchor for a line that does not parse names a record that is lost.
TipNamesLost ==
    tip # NoTip /\ ~ IsRecord(lines[tip.count]) =>
        \E id \in 1 .. issued : Names(tip.hash, id) /\ Spent(id)

\* The rows of the file without its line g.
Without(rows, g) ==
    /\ rows \in Seq(Row)
    /\ Len(rows) = Len(lines) - 1
    /\ \A i \in 1 .. (g - 1) : rows[i] = lines[i]
    /\ \A i \in g .. (Len(lines) - 1) : rows[i] = lines[i + 1]

\* The anchor is missing or counts line g.
TipPasses(g) == tip = NoTip \/ tip.count >= g

\* The line that does not parse is the only one, nothing unfinished follows it, and
\* the anchor is renewed by the call that wrote it.
OneBroken ==
    failures <= 1 =>
        /\ Broken = {} => ParsedRows(lines) = lines
        /\ \A g \in Broken :
              /\ failures = 1
              /\ Broken = {g}
              /\ Without(ParsedRows(lines), g)
              /\ (\A w \in Writers : pc[w] # "writing") => tail = NoTail
              /\ \A w \in Writers : pc[w] = "writing" => ~ glued[w]
              /\ \/ TipPasses(g)
                 \/ g = Len(lines) /\ \E w \in Writers : pc[w] = "wrote"

\* Records of the file among which every returned one is.
AllThere(owed, rows) == \A id \in owed : \E i \in 1 .. Len(rows) : rows[i].id = id /\ id # 0

\* A returned record is in the file, or the anchor has passed the broken line.
ThereOrPassed ==
    failures <= 1 => AllThere(acked, lines) \/ \E g \in Broken : TipPasses(g)

\* The last of the rows is at another line than their number says, or about to be.
Elsewhere(rows) ==
    /\ Len(rows) \in 1 .. Len(lines)
    /\ \/ \E j \in 1 .. Len(lines) :
             j # Len(rows) /\ IsRecord(lines[j]) /\ rows[Len(rows)] = lines[j]
       \/ \E w \in Writers :
             pc[w] = "writing" /\ ~ glued[w] /\ rows[Len(rows)] = row[w]

\* What the verifier holds between its two reads, after at most one failure: all
\* that was returned, or rows no anchor can agree with any more.
HoldsAll ==
    reader.pc = "rows" /\ failures <= 1 =>
        \/ AllThere(reader.owed, reader.rows)
        \/ \E g \in Broken : Len(reader.rows) < g /\ TipPasses(g)
        \/ Broken # {} /\ Elsewhere(reader.rows)

\* The same without failures: a chain that verifies, and, if no append was under
\* way, the first lines of the file.
HoldsPrefix ==
    reader.pc = "rows" /\ failures = 0 =>
        /\ verify_chain(reader.rows)
        /\ reader.quiet => /\ Len(reader.rows) = reader.seen
                           /\ reader.seen \in 0 .. Len(lines)
                           /\ \A i \in 1 .. reader.seen : reader.rows[i] = lines[i]

\* The invariant of the file, and with what the verifier holds of it, of both.
FileInv == /\ IInv /\ OwnIdentities /\ OwnLine /\ TipNamesLost /\ OneBroken
           /\ ThereOrPassed

VerifierInv == /\ FileInv /\ HoldsAll /\ HoldsPrefix
               /\ NoFalseAlarm /\ VerifiedIsComplete

-----------------------------------------------------------------------------
\* A step of a writer leaves the other writers and the verifier where they are.
LEMMA OthersStay ==
    ASSUME TypeOK, NEW w \in Writers, WriterStep(w)
    PROVE  /\ UNCHANGED readerVars
           /\ \A v \in Writers \ {w} :
                 pc'[v] = pc[v] /\ row'[v] = row[v] /\ glued'[v] = glued[v]
BY Zenon DEF TypeOK, WriterStep, Call, Acquire, LockTimeout, HashRecord, ReadRaises, BeginWrite,
       EndWrite, TruncateTip, FillTip, TipFails, Release, Abort

\* TipFails and Abort are the failures; nothing takes one back.
LEMMA FailuresGrow ==
    ASSUME IInv, NEW w \in Writers, WriterStep(w)
    PROVE  /\ failures \in Nat /\ failures' \in Nat /\ failures <= failures'
           /\ (TipFails(w) \/ Abort(w)) => failures' = failures + 1
<1>1. failures \in Nat
  BY DEF IInv, TypeOK
<1>2. CASE TipFails(w) \/ Abort(w)
  <2>1. failures' = failures + 1
    BY Zenon, <1>2 DEF TipFails, Abort
  <2> QED
    BY <1>1, <2>1
<1>3. CASE ~ (TipFails(w) \/ Abort(w))
  <2>1. failures' = failures
    BY Zenon, <1>3 DEF WriterStep, Call, Acquire, LockTimeout, HashRecord, ReadRaises, BeginWrite,
                EndWrite, TruncateTip, FillTip, Release
  <2> QED
    BY <1>1, <1>3, <2>1
<1> QED
  BY Zenon, <1>2, <1>3

\* Only EndWrite changes the lines: it adds one.
LEMMA LinesGrow ==
    ASSUME IInv, NEW w \in Writers, WriterStep(w)
    PROVE  /\ lines \in Seq(Row) /\ Len(lines) \in Nat /\ Len(lines') \in Nat
           /\ Len(lines) <= Len(lines')
           /\ \A i \in 1 .. Len(lines) : lines'[i] = lines[i]
<1>1. lines \in Seq(Row) /\ Len(lines) \in Nat
  BY Zenon, LenProperties DEF IInv, TypeOK
<1>2. CASE lines' = lines
  BY <1>1, <1>2
<1>3. CASE EndWrite(w)
  <2>1. (IF glued[w] THEN Junk ELSE row[w]) \in Row
    BY Zenon, RowsAndTails DEF IInv, TypeOK
  <2> QED
    BY <1>1, <1>3, <2>1, AppendProperties DEF EndWrite
<1> QED
  BY Zenon, <1>2, <1>3
     DEF WriterStep, Call, Acquire, LockTimeout, HashRecord, ReadRaises, BeginWrite,
         TruncateTip, FillTip, TipFails, Release, Abort

\* What EndWrite does to the file.
LEMMA LineAdded ==
    ASSUME IInv, NEW w \in Writers, EndWrite(w)
    PROVE  /\ pc[w] = "writing" /\ pc'[w] = "wrote"
           /\ UNCHANGED <<tip, lock, row, glued, acked, issued, failures>>
           /\ tail' = NoTail
           /\ Len(lines') = Len(lines) + 1
           /\ lines'[Len(lines')] = IF glued[w] THEN Junk ELSE row[w]
           /\ \A v \in Writers \ {w} : pc[v] \notin Holding /\ pc'[v] = pc[v]
<1>1. (IF glued[w] THEN Junk ELSE row[w]) \in Row /\ lines \in Seq(Row)
  BY Zenon, RowsAndTails DEF IInv, TypeOK
<1>2. /\ Len(lines') = Len(lines) + 1
      /\ lines'[Len(lines')] = IF glued[w] THEN Junk ELSE row[w]
  BY <1>1, AppendProperties, LenProperties DEF EndWrite
<1>3. pc[w] \in Holding
  BY Zenon DEF EndWrite, Holding
<1> QED
  BY Zenon, <1>2, <1>3, OthersOutside DEF EndWrite, IInv, TypeOK

\* An anchor that has passed a line stays past it, or is missing.
LEMMA PassedStays ==
    ASSUME IInv, NEW w \in Writers, WriterStep(w), NEW g \in 1 .. Len(lines), TipPasses(g)
    PROVE  TipPasses(g)'
<1>1. CASE FillTip(w)
  <2>1. tail = NoTail /\ Len(lines) \in Nat
    BY Zenon, <1>1, LenProperties DEF IInv, TypeOK, LineOnTop, FillTip
  <2>2. tip'.count = Len(lines)
    BY <1>1, <2>1 DEF FillTip, count_records
  <2> QED
    BY <2>1, <2>2 DEF TipPasses
<1>2. CASE TruncateTip(w)
  BY Zenon, <1>2 DEF TruncateTip, TipPasses
<1>3. CASE tip' = tip
  BY Zenon, <1>3 DEF TipPasses
<1> QED
  BY Zenon, <1>1, <1>2, <1>3
     DEF WriterStep, Call, Acquire, LockTimeout, HashRecord, ReadRaises, BeginWrite,
         EndWrite, TipFails, Release, Abort

\* A broken line stays broken, and a new one is the last.
LEMMA BrokenGrows ==
    ASSUME IInv, NEW w \in Writers, WriterStep(w)
    PROVE  /\ Broken \subseteq Broken'
           /\ ~ EndWrite(w) => Broken' = Broken /\ lines' = lines
           /\ EndWrite(w) =>
                 Broken' = IF IsRecord(lines'[Len(lines')]) THEN Broken
                           ELSE Broken \cup {Len(lines')}
<1>1. /\ Len(lines) \in Nat /\ Len(lines') \in Nat /\ Len(lines) <= Len(lines')
      /\ \A i \in 1 .. Len(lines) : lines'[i] = lines[i]
  BY Zenon, LinesGrow
<1>2. Broken \subseteq Broken'
  <2>1. \A i \in 1 .. Len(lines) : i \in 1 .. Len(lines')
    BY <1>1
  <2> QED
    BY <1>1, <2>1, Zenon DEF Broken
<1>3. CASE lines' = lines
  <2>1. ~ EndWrite(w)
    BY <1>1, <1>3, LineAdded
  <2> QED
    BY Zenon, <1>3, <2>1 DEF Broken
<1>4. CASE EndWrite(w)
  <2>1. Len(lines') = Len(lines) + 1
    BY Zenon, <1>4, LineAdded
  <2>2. \A i : i \in 1 .. Len(lines') <=> i \in 1 .. Len(lines) \/ i = Len(lines')
    BY <1>1, <2>1
  <2> QED
    BY <1>1, <1>2, <1>4, <2>2 DEF Broken
<1> QED
  BY Zenon, <1>2, <1>3, <1>4
     DEF WriterStep, Call, Acquire, LockTimeout, HashRecord, ReadRaises, BeginWrite,
         TruncateTip, FillTip, TipFails, Release, Abort
-----------------------------------------------------------------------------
\* The steps of a call between its first and its last: it keeps its identity.
LEMMA IdentityStays ==
    ASSUME TypeOK, NEW w \in Writers, WriterStep(w), ~ Call(w)
    PROVE  /\ issued' = issued
           /\ \A v \in Writers : /\ row'[v].id = row[v].id
                                 /\ pc'[v] # "idle" => pc[v] # "idle"
                                 /\ pc'[v] \in Unwritten => pc[v] \in Unwritten
<1>1. issued' = issued /\ row'[w].id = row[w].id /\ pc[w] # "idle"
  BY DEF TypeOK, WriterStep, Acquire, LockTimeout, HashRecord, ReadRaises, BeginWrite,
         EndWrite, TruncateTip, FillTip, TipFails, Release, Abort, Holding
<1>2. pc'[w] \in Unwritten => pc[w] \in Unwritten
  BY Zenon DEF TypeOK, WriterStep, Acquire, LockTimeout, HashRecord, ReadRaises, BeginWrite,
         EndWrite, TruncateTip, FillTip, TipFails, Release, Abort, Unwritten
<1> QED
  BY Zenon, <1>1, <1>2, OthersStay

\* What Call does.
LEMMA CallAdds ==
    ASSUME TypeOK, NEW w \in Writers, Call(w)
    PROVE  /\ UNCHANGED <<lines, tail, tip, glued, acked, failures>>
           /\ issued \in Nat /\ issued' = issued + 1
           /\ pc[w] = "idle" /\ pc'[w] = "waiting" /\ row'[w].id = issued + 1
BY DEF TypeOK, Call

\* Identities stay apart.
LEMMA IdentitiesStep ==
    ASSUME IInv, OwnIdentities, NEW w \in Writers, WriterStep(w)
    PROVE  OwnIdentities'
<1>1. TypeOK
  BY Zenon DEF IInv
<1>2. \A v \in Writers \ {w} : pc'[v] = pc[v] /\ row'[v] = row[v]
  BY Zenon, <1>1, OthersStay
<1>3. CASE Call(w)
  <2>1. /\ lines' = lines /\ issued \in Nat /\ issued' = issued + 1
        /\ pc[w] = "idle" /\ pc'[w] = "waiting" /\ row'[w].id = issued + 1
    BY Zenon, <1>1, <1>3, CallAdds
  <2>2. \A k \in 1 .. issued : k \in 1 .. issued' /\ k # issued + 1
    BY <2>1
  <2>3. issued + 1 \in 1 .. issued' /\ issued + 1 # 0
    BY <2>1
  <2>4. \A i \in 1 .. Len(lines) : lines[i].id # issued + 1
    BY <2>2, <2>3 DEF OwnIdentities, Junk
  <2>5. \A v \in Writers : pc'[v] # "idle" => row'[v].id \in 1 .. issued'
    BY Zenon, <1>2, <2>1, <2>2, <2>3 DEF OwnIdentities
  <2>6. \A u, v \in Writers :
            pc'[u] # "idle" /\ pc'[v] # "idle" /\ row'[u].id = row'[v].id => u = v
    BY <1>2, <2>1, <2>2 DEF OwnIdentities
  <2>7. \A v \in Writers : pc'[v] \in Unwritten => Absent(row[v].id)'
    BY <1>2, <2>1, <2>4 DEF OwnIdentities, Absent
  <2>8. \A i \in 1 .. Len(lines) : lines[i] = Junk \/ lines[i].id \in 1 .. issued'
    BY Zenon, <2>2 DEF OwnIdentities
  <2> QED
    BY Zenon, <2>1, <2>5, <2>6, <2>7, <2>8 DEF OwnIdentities
<1>4. CASE ~ Call(w)
  <2>1. /\ issued' = issued
        /\ \A v \in Writers : /\ row'[v].id = row[v].id
                              /\ pc'[v] # "idle" => pc[v] # "idle"
                              /\ pc'[v] \in Unwritten => pc[v] \in Unwritten
    BY Zenon, <1>1, <1>4, IdentityStays
  <2>2. CASE lines' = lines
    BY <2>1, <2>2 DEF OwnIdentities, Absent
  <2>3. CASE EndWrite(w)
    <3> DEFINE new == lines'[Len(lines')]
    <3>1. /\ pc[w] = "writing" /\ pc'[w] = "wrote" /\ row' = row
          /\ Len(lines') = Len(lines) + 1
          /\ new = IF glued[w] THEN Junk ELSE row[w]
      BY Zenon, <2>3, LineAdded
    <3>2. /\ Len(lines) \in Nat
          /\ \A i \in 1 .. Len(lines) : lines'[i] = lines[i]
      BY Zenon, LinesGrow
    <3>3. \A i : i \in 1 .. Len(lines') <=> i \in 1 .. Len(lines) \/ i = Len(lines')
      BY <3>1, <3>2
    <3>4. new = Junk \/ (new.id = row[w].id /\ new.id \in 1 .. issued /\ Absent(new.id))
      BY Zenon, <3>1 DEF OwnIdentities, Unwritten
    <3> HIDE DEF new
    <3>5. Junk.id = 0 /\ \A k \in 1 .. issued : k # 0
      BY DEF Junk
    <3>6. \A i \in 1 .. Len(lines') : lines'[i] = Junk \/ lines'[i].id \in 1 .. issued'
      BY <2>1, <3>2, <3>3, <3>4, Zenon DEF OwnIdentities, new
    <3>7. ASSUME NEW i \in 1 .. Len(lines'), NEW j \in 1 .. Len(lines'),
                 IsRecord(lines'[i]), lines'[i].id = lines'[j].id
          PROVE  i = j
      <4>1. CASE i \in 1 .. Len(lines) /\ j \in 1 .. Len(lines)
        BY Zenon, <3>2, <3>7, <4>1 DEF OwnIdentities
      <4>2. CASE i \in 1 .. Len(lines) /\ j = Len(lines')
        <5>1. lines'[i] = lines[i] /\ lines'[j] = new
          BY Zenon, <3>2, <4>2 DEF new
        <5> QED
          BY Zenon, <3>4, <3>5, <3>7, <4>2, <5>1 DEF Absent, IsRecord
      <4>3. CASE i = Len(lines') /\ j \in 1 .. Len(lines)
        <5>1. lines'[j] = lines[j] /\ lines'[i] = new
          BY Zenon, <3>2, <4>3 DEF new
        <5> QED
          BY Zenon, <3>4, <3>5, <3>7, <4>3, <5>1 DEF Absent, IsRecord
      <4> QED
        BY Zenon, <3>3, <4>1, <4>2, <4>3
    <3>8. ASSUME NEW v \in Writers, pc'[v] \in Unwritten, NEW i \in 1 .. Len(lines')
          PROVE  lines'[i].id # row[v].id
      <4>1. v # w
        BY Zenon, <3>1, <3>8 DEF Unwritten
      <4>2. pc[v] \in Unwritten /\ pc[v] # "idle" /\ pc[w] # "idle"
        BY Zenon, <2>1, <3>1, <3>8 DEF Unwritten
      <4>3. row[v].id \in 1 .. issued /\ row[v].id # row[w].id /\ Absent(row[v].id)
        BY Zenon, <4>1, <4>2 DEF OwnIdentities
      <4>4. CASE i \in 1 .. Len(lines)
        BY Zenon, <3>2, <4>3, <4>4 DEF Absent
      <4>5. CASE i = Len(lines')
        BY Zenon, <3>4, <3>5, <4>3, <4>5 DEF new
      <4> QED
        BY Zenon, <3>3, <4>4, <4>5
    <3>9. \A v \in Writers : pc'[v] \in Unwritten => Absent(row[v].id)'
      BY Zenon, <3>1, <3>8 DEF Absent
    <3> QED
      BY ZenonT(40), <2>1, <3>6, <3>7, <3>9 DEF OwnIdentities
  <2> QED
    BY Zenon, <2>2, <2>3, BrokenGrows
<1> QED
  BY Zenon, <1>3, <1>4

\* A spent identity stays spent.
LEMMA SpentStays ==
    ASSUME IInv, OwnIdentities, NEW w \in Writers, WriterStep(w), NEW id, Spent(id)
    PROVE  Spent(id)'
<1>1. TypeOK /\ issued \in Nat
  BY DEF IInv, TypeOK
<1>2. CASE Call(w)
  <2>1. /\ lines' = lines /\ issued' = issued + 1
        /\ pc[w] = "idle" /\ pc'[w] = "waiting" /\ row'[w].id = issued + 1
    BY Zenon, <1>1, <1>2, CallAdds
  <2>2. \A v \in Writers \ {w} : pc'[v] = pc[v] /\ row'[v] = row[v]
    BY Zenon, <1>1, OthersStay
  <2>3. id \in 1 .. issued' /\ id # issued + 1
    BY <1>1, <2>1 DEF Spent
  <2> QED
    BY Zenon, <2>1, <2>2, <2>3 DEF Spent, Absent
<1>3. CASE ~ Call(w)
  <2>1. /\ issued' = issued
        /\ \A v \in Writers : /\ row'[v].id = row[v].id
                              /\ pc'[v] \in Unwritten => pc[v] \in Unwritten
    BY Zenon, <1>1, <1>3, IdentityStays
  <2>2. Absent(id)'
    <3>1. CASE lines' = lines
      BY Zenon, <3>1 DEF Spent, Absent
    <3>2. CASE EndWrite(w)
      <4>1. /\ pc[w] = "writing" /\ Len(lines') = Len(lines) + 1
            /\ lines'[Len(lines')] = IF glued[w] THEN Junk ELSE row[w]
        BY Zenon, <3>2, LineAdded
      <4>2. /\ Len(lines) \in Nat
            /\ \A i \in 1 .. Len(lines) : lines'[i] = lines[i]
        BY Zenon, LinesGrow
      <4>3. \A i \in 1 .. Len(lines') : i \in 1 .. Len(lines) \/ i = Len(lines')
        BY <4>1, <4>2
      <4>4. row[w].id # id /\ Junk.id # id
        BY <1>1, <4>1 DEF Spent, Unwritten, Junk
      <4> QED
        BY Zenon, <4>1, <4>2, <4>3, <4>4 DEF Spent, Absent
    <3> QED
      BY Zenon, <3>1, <3>2, BrokenGrows
  <2> QED
    BY Zenon, <2>1, <2>2 DEF Spent
<1> QED
  BY Zenon, <1>2, <1>3
-----------------------------------------------------------------------------
\* A hash names the record it ends with.
LEMMA ChainHashNames ==
    ASSUME NEW h \in Seq(Nat), NEW n \in Nat
    PROVE  Names(chain_hash(h, n), n)
<1>1. Len(Append(h, n)) = Len(h) + 1 /\ Append(h, n)[Len(h) + 1] = n /\ Len(h) \in Nat
  BY AppendProperties, LenProperties
<1>2. Append(h, n) # <<>>
  BY <1>1
<1> QED
  BY Zenon, <1>1, <1>2 DEF Names, chain_hash, Genesis

\* What the writer inside the lock window finds at the end of the file stays true.
LEMMA OwnLineStep ==
    ASSUME IInv, OwnIdentities, OwnLine, NEW w \in Writers, WriterStep(w)
    PROVE  OwnLine'
<1> DEFINE Mine(v) ==
             /\ pc[v] \in {"hashed", "writing", "wrote", "truncated"} =>
                   Names(row[v].hash, row[v].id)
             /\ pc[v] = "writing" =>
                   \/ tail.row = Junk
                   \/ ~ glued[v] /\ tail = Whole(row[v])
             /\ pc[v] \in Written =>
                   /\ lines # <<>>
                   /\ \/ lines[Len(lines)] = row[v]
                      \/ lines[Len(lines)] = Junk /\ Absent(row[v].id)
<1>1. Mine(w)
  BY Zenon DEF OwnLine
<1>2. TypeOK
  BY Zenon DEF IInv
<1>3. ASSUME NEW v \in Writers, v # w
      PROVE  Mine(v)'
  <2>1. pc'[v] = pc[v] /\ row'[v] = row[v] /\ glued'[v] = glued[v]
    BY Zenon, <1>2, <1>3, OthersStay
  <2>2. CASE pc[v] \notin Holding
    BY Zenon, <2>1, <2>2 DEF Holding, Written
  <2>3. CASE pc[v] \in Holding
    <3>1. pc[w] \notin Holding
      BY Zenon, <1>3, <2>3, OthersOutside DEF IInv
    <3>2. lines' = lines /\ tail' = tail
      BY Zenon, <3>1 DEF WriterStep, Call, Acquire, LockTimeout, HashRecord, ReadRaises, BeginWrite,
                  EndWrite, TruncateTip, FillTip, TipFails, Release, Abort, Holding
    <3> QED
      BY Zenon, <2>1, <3>2 DEF OwnLine, Absent
  <2> QED
    BY Zenon, <2>2, <2>3
<1>4. Mine(w)'
  <2>1. CASE Call(w) \/ Acquire(w) \/ LockTimeout(w) \/ ReadRaises(w) \/ Release(w) \/ Abort(w)
    <3>1. pc'[w] \in {"idle", "waiting", "locked"}
      BY Zenon, <1>2, <2>1 DEF TypeOK, Call, Acquire, LockTimeout, ReadRaises, Release, Abort
    <3> QED
      BY Zenon, <3>1 DEF Written
  <2>2. CASE HashRecord(w)
    <3>1. /\ pc'[w] = "hashed" /\ row'[w].id = row[w].id
          /\ row'[w].hash = chain_hash(read_chain_tip, row[w].id)
      BY Zenon, <1>2, <2>2 DEF TypeOK, HashRecord
    <3>2. row[w].id \in Nat /\ read_chain_tip \in Seq(Nat)
      BY Zenon, <1>2, ReadChainTipType, RowsAndTails DEF TypeOK
    <3>3. Names(chain_hash(read_chain_tip, row[w].id), row[w].id)
      BY Zenon, <3>2, ChainHashNames
    <3>4. Names(row[w].hash, row[w].id)'
      BY Zenon, <3>1, <3>3 DEF Names
    <3> QED
      BY Zenon, <3>1, <3>4 DEF Written
  <2>3. CASE BeginWrite(w)
    <3>1. /\ pc[w] = "hashed" /\ pc'[w] = "writing" /\ row' = row
          /\ tail' \in {Torn, Undecodable} \cup (IF tail = NoTail THEN {Whole(row[w])} ELSE {})
          /\ glued'[w] <=> tail # NoTail
      BY Zenon, <1>2, <2>3 DEF TypeOK, BeginWrite
    <3>2. tail'.row = Junk \/ (~ glued'[w] /\ tail' = Whole(row[w]))
      <4>1. Torn.row = Junk /\ Undecodable.row = Junk
        BY Zenon DEF Torn, Undecodable
      <4> QED
        BY <3>1, <4>1, Zenon
    <3> QED
      BY Zenon, <1>1, <3>1, <3>2 DEF Written, Names, Whole
  <2>4. CASE EndWrite(w)
    <3>1. /\ pc[w] = "writing" /\ pc'[w] = "wrote" /\ row' = row
          /\ Len(lines') = Len(lines) + 1
          /\ lines'[Len(lines')] = IF glued[w] THEN Junk ELSE row[w]
      BY Zenon, <2>4, LineAdded
    <3>2. /\ Len(lines) \in Nat
          /\ \A i \in 1 .. Len(lines) : lines'[i] = lines[i]
      BY Zenon, LinesGrow
    <3>3. lines' # <<>>
      BY <3>1, <3>2
    <3>4. ASSUME glued[w] PROVE Absent(row[w].id)'
      <4>1. Absent(row[w].id) /\ row[w].id # Junk.id
        BY <3>1 DEF OwnIdentities, Unwritten, Junk
      <4>2. \A i \in 1 .. Len(lines') : i \in 1 .. Len(lines) \/ i = Len(lines')
        BY <3>1, <3>2
      <4> QED
        BY Zenon, <3>1, <3>2, <3>4, <4>1, <4>2 DEF Absent
    <3> QED
      BY Zenon, <1>1, <3>1, <3>3, <3>4 DEF Names
  <2>5. CASE TruncateTip(w) \/ FillTip(w) \/ TipFails(w)
    <3>1. /\ pc[w] \in {"wrote", "truncated"} /\ pc'[w] \in {"truncated", "tipped"}
          /\ row' = row /\ lines' = lines
      BY Zenon, <1>2, <2>5 DEF TypeOK, TruncateTip, FillTip, TipFails
    <3> QED
      BY Zenon, <1>1, <3>1 DEF Names, Absent, Written
  <2> QED
    BY ZenonT(40), <2>1, <2>2, <2>3, <2>4, <2>5 DEF WriterStep
<1>5. \A v \in Writers : Mine(v)'
  BY Zenon, <1>3, <1>4
<1> QED
  BY Zenon, <1>5 DEF OwnLine

\* An anchor for a broken line keeps naming a lost record.
LEMMA TipNamesStep ==
    ASSUME IInv, OwnIdentities, OwnLine, TipNamesLost, NEW w \in Writers, WriterStep(w)
    PROVE  TipNamesLost'
<1>1. CASE FillTip(w)
  <2>1. tail = NoTail /\ Len(lines) \in Nat
    BY Zenon, <1>1, LenProperties DEF IInv, TypeOK, LineOnTop, FillTip
  <2>2. /\ pc[w] = "truncated" /\ pc'[w] = "tipped"
        /\ tip'.count = Len(lines) /\ tip'.hash = row[w].hash
        /\ lines' = lines /\ row' = row /\ issued' = issued
    BY <1>1, <2>1 DEF FillTip, count_records, IInv, TypeOK
  <2>3. ASSUME ~ IsRecord(lines[Len(lines)])
        PROVE  \E id \in 1 .. issued' : Names(tip'.hash, id) /\ Spent(id)'
    <3>1. Names(row[w].hash, row[w].id) /\ row[w].id \in 1 .. issued
      BY Zenon, <2>2 DEF OwnLine, OwnIdentities
    <3>2. Absent(row[w].id)
      BY <2>2, <2>3, <3>1 DEF OwnLine, IsRecord, Written
    <3>3. \A v \in Writers : pc'[v] \in Unwritten => row[v].id # row[w].id
      <4>1. \A v \in Writers \ {w} : pc'[v] = pc[v]
        BY Zenon, OthersStay DEF IInv
      <4> QED
        BY Zenon, <2>2, <4>1 DEF OwnIdentities, Unwritten
    <3> DEFINE id == row[w].id
    <3>4. id \in 1 .. issued' /\ Names(tip'.hash, id)
      BY Zenon, <2>2, <3>1
    <3>5. id \in 1 .. issued' /\ (\A i \in 1 .. Len(lines') : lines'[i].id # id)
          /\ \A v \in Writers : pc'[v] \in Unwritten => row'[v].id # id
      BY Zenon, <2>2, <3>2, <3>3, <3>4 DEF Absent
    <3> HIDE DEF id
    <3>6. \A k : /\ k \in 1 .. issued' /\ (\A i \in 1 .. Len(lines') : lines'[i].id # k)
                 /\ \A v \in Writers : pc'[v] \in Unwritten => row'[v].id # k
                 => Spent(k)'
      BY Zenon DEF Spent, Absent
    <3> QED
      BY Zenon, <3>4, <3>5, <3>6
  <2> QED
    BY Zenon, <2>2, <2>3 DEF TipNamesLost
<1>2. CASE TruncateTip(w)
  BY Zenon, <1>2 DEF TruncateTip, TipNamesLost
<1>3. CASE tip' = tip
  <2>1. SUFFICES ASSUME tip # NoTip, ~ IsRecord(lines'[tip.count])
                 PROVE  \E id \in 1 .. issued' : Names(tip.hash, id) /\ Spent(id)'
    BY Zenon, <1>3 DEF TipNamesLost
  <2>2. tip.count \in 1 .. Len(lines)
    BY Zenon, <2>1 DEF IInv, TipDescribesPrefix
  <2>3. lines'[tip.count] = lines[tip.count]
    BY Zenon, <2>2, LinesGrow
  <2>4. PICK id \in 1 .. issued : Names(tip.hash, id) /\ Spent(id)
    BY Zenon, <2>1, <2>3 DEF TipNamesLost
  <2>5. Spent(id)'
    BY Zenon, <2>4, SpentStays
  <2>6. id \in 1 .. issued'
    BY Zenon, <2>5 DEF Spent
  <2> QED
    BY Zenon, <2>4, <2>5, <2>6
<1> QED
  BY Zenon, <1>1, <1>2, <1>3
     DEF WriterStep, Call, Acquire, LockTimeout, HashRecord, ReadRaises, BeginWrite,
         EndWrite, TipFails, Release, Abort
-----------------------------------------------------------------------------
\* One more record behind the broken line.
LEMMA WithoutGrows ==
    ASSUME IInv, NEW w \in Writers, EndWrite(w), WriterStep(w), ~ glued[w],
           NEW g \in 1 .. Len(lines), NEW rows, Without(rows, g)
    PROVE  Without(Append(rows, row[w]), g)'
<1> DEFINE n == Len(lines)
           more == Append(rows, row[w])
<1>1. /\ Len(lines') = n + 1 /\ lines'[n + 1] = row[w] /\ row' = row
  <2>1. /\ Len(lines') = n + 1 /\ row' = row
        /\ lines'[Len(lines')] = IF glued[w] THEN Junk ELSE row[w]
    BY Zenon, LineAdded
  <2> QED
    BY Zenon, <2>1
<1>2. n \in Nat /\ \A i \in 1 .. n : lines'[i] = lines[i]
  BY Zenon, LinesGrow
<1>3. /\ rows \in Seq(Row) /\ Len(rows) = n - 1
      /\ \A i \in 1 .. (g - 1) : rows[i] = lines[i]
      /\ \A i \in g .. (n - 1) : rows[i] = lines[i + 1]
  BY Zenon DEF Without
<1>4. row[w] \in Row
  BY Zenon DEF IInv, TypeOK
<1>5. /\ more \in Seq(Row) /\ Len(more) = (n - 1) + 1 /\ more[(n - 1) + 1] = row[w]
      /\ \A i \in 1 .. (n - 1) : more[i] = rows[i]
  BY <1>3, <1>4, AppendProperties
<1> HIDE DEF more
<1>6. ASSUME NEW i \in 1 .. (g - 1)
      PROVE  more[i] = lines'[i]
  <2>1. i \in 1 .. (n - 1) /\ i \in 1 .. n
    BY <1>2
  <2> QED
    BY Zenon, <1>2, <1>3, <1>5, <2>1
<1>7. ASSUME NEW i \in g .. n
      PROVE  more[i] = lines'[i + 1]
  <2>1. CASE i = n
    BY <1>1, <1>2, <1>5, <2>1
  <2>2. CASE i # n
    <3>1. i \in g .. (n - 1) /\ i \in 1 .. (n - 1) /\ i + 1 \in 1 .. n
      BY <1>2, <2>2
    <3> QED
      BY Zenon, <1>2, <1>3, <1>5, <3>1
  <2> QED
    BY Zenon, <2>1, <2>2
<1>8. Len(more) = Len(lines') - 1 /\ Len(lines') - 1 = n
  BY <1>1, <1>2, <1>5
<1>9. \A r : /\ r \in Seq(Row) /\ Len(r) = Len(lines') - 1
             /\ \A i \in 1 .. (g - 1) : r[i] = lines'[i]
             /\ \A i \in g .. (Len(lines') - 1) : r[i] = lines'[i + 1]
             => Without(r, g)'
  BY Zenon DEF Without
<1>10. Without(more, g)'
  <2>1. /\ Append(rows, row'[w]) \in Seq(Row)
        /\ Len(Append(rows, row'[w])) = Len(lines') - 1
        /\ \A i \in 1 .. (g - 1) : Append(rows, row'[w])[i] = lines'[i]
        /\ \A i \in g .. (Len(lines') - 1) : Append(rows, row'[w])[i] = lines'[i + 1]
    BY Zenon, <1>1, <1>5, <1>6, <1>7, <1>8 DEF more
  <2> QED
    BY ZenonT(40), <2>1, <1>9 DEF more
<1> QED
  BY Zenon, <1>10 DEF more

\* The broken line stays the only one, and what surrounds it as it was.
LEMMA OneBrokenStep ==
    ASSUME IInv, IInv', OwnIdentities, OneBroken, NEW w \in Writers, WriterStep(w)
    PROVE  OneBroken'
<1> SUFFICES ASSUME failures' <= 1
             PROVE  /\ Broken' = {} => ParsedRows(lines') = lines'
                    /\ \A g \in Broken' :
                          /\ failures' = 1
                          /\ Broken' = {g}
                          /\ Without(ParsedRows(lines), g)'
                          /\ (\A v \in Writers : pc'[v] # "writing") => tail' = NoTail
                          /\ \A v \in Writers : pc'[v] = "writing" => ~ glued'[v]
                          /\ \/ TipPasses(g)'
                             \/ g = Len(lines') /\ \E v \in Writers : pc'[v] = "wrote"
  BY Zenon DEF OneBroken
<1>1. TypeOK /\ failures \in Nat
  BY DEF IInv, TypeOK
<1>2. \A v \in Writers \ {w} : pc'[v] = pc[v] /\ glued'[v] = glued[v]
  BY Zenon, <1>1, OthersStay
<1>3. CASE TipFails(w) \/ Abort(w)
  <2>1. failures' = failures + 1 /\ lines' = lines
    BY Zenon, <1>3 DEF TipFails, Abort
  <2>2. failures = 0
    BY <1>1, <2>1
  <2>3. Broken = {}
    BY <2>2 DEF OneBroken
  <2>4. Broken' = {}
    BY Zenon, <2>1, <2>3 DEF Broken
  <2>5. ParsedRows(lines) = lines
    BY <2>2, <2>3 DEF OneBroken
  <2> QED
    BY Zenon, <2>1, <2>4, <2>5
<1>4. CASE EndWrite(w)
  <2>1. /\ pc[w] = "writing" /\ pc'[w] = "wrote" /\ failures' = failures /\ tail' = NoTail
        /\ Len(lines') = Len(lines) + 1
        /\ lines'[Len(lines')] = IF glued[w] THEN Junk ELSE row[w]
        /\ \A v \in Writers \ {w} : pc[v] \notin Holding /\ pc'[v] = pc[v]
    BY Zenon, <1>4, LineAdded
  <2>2. /\ lines \in Seq(Row) /\ Len(lines) \in Nat
        /\ \A i \in 1 .. Len(lines) : lines'[i] = lines[i]
    BY Zenon, LinesGrow
  <2>3. \A v \in Writers : pc'[v] # "writing"
    BY Zenon, <2>1 DEF Holding
  <2>4. row[w] \in Row /\ Junk \in Row /\ IsRecord(row[w]) /\ ~ IsRecord(Junk)
    <3>1. row[w].id \in 1 .. issued
      BY Zenon, <2>1 DEF OwnIdentities
    <3>2. row[w].id # 0
      BY <3>1
    <3>3. Junk.id = 0
      BY Zenon DEF Junk
    <3> QED
      BY Zenon, <1>1, <3>2, <3>3, RowsAndTails DEF TypeOK, IsRecord
  <2>5. lines' = Append(lines, IF glued[w] THEN Junk ELSE row[w])
    BY Zenon, <1>4 DEF EndWrite
  <2>6. Broken' = IF IsRecord(lines'[Len(lines')]) THEN Broken ELSE Broken \cup {Len(lines')}
    BY Zenon, <1>4, BrokenGrows
  <2>7. CASE Broken = {} /\ ~ glued[w]
    <3>1. Broken' = {} /\ lines' = Append(lines, row[w])
      BY Zenon, <2>1, <2>4, <2>5, <2>6, <2>7
    <3>2. ParsedRows(lines) = lines
      BY Zenon, <2>1, <2>7 DEF OneBroken
    <3>3. ParsedRows(Append(lines, row[w])) = Append(lines, row[w])
      BY Zenon, <2>2, <2>4, <3>2, ParsedRowsAppend
    <3> QED
      BY Zenon, <3>1, <3>3
  <2>8. CASE Broken = {} /\ glued[w]
    <3>1. Broken' = {Len(lines')} /\ lines' = Append(lines, Junk)
      BY Zenon, <2>1, <2>4, <2>5, <2>6, <2>8
    <3>2. failures = 1
      <4>1. failures # 0
        BY Zenon, <2>1, <2>8 DEF IInv, Clean
      <4> QED
        BY <1>1, <2>1, <4>1
    <3>3. ParsedRows(lines') = lines
      <4>1. ParsedRows(lines) = lines
        BY ZenonT(40), <2>1, <2>8 DEF OneBroken
      <4> QED
        BY Zenon, <2>2, <2>4, <3>1, <4>1, ParsedRowsAppend
    <3>4. ASSUME NEW g \in Broken'
          PROVE  Without(ParsedRows(lines), g)'
      <4>1. g = Len(lines) + 1
        BY Zenon, <2>1, <3>1
      <4>2. /\ Len(lines) = Len(lines') - 1
            /\ \A i \in 1 .. (g - 1) : lines[i] = lines'[i]
            /\ \A i \in g .. (Len(lines') - 1) : lines[i] = lines'[i + 1]
        BY <2>1, <2>2, <4>1
      <4> QED
        BY Zenon, <2>2, <3>3, <4>2 DEF Without
    <3> QED
      BY Zenon, <2>1, <2>3, <3>1, <3>2, <3>4
  <2>9. CASE Broken # {}
    <3>1. PICK g \in Broken : TRUE
      BY Zenon, <2>9
    <3>2. /\ failures = 1 /\ Broken = {g} /\ Without(ParsedRows(lines), g)
          /\ ~ glued[w]
          /\ TipPasses(g) \/ \E v \in Writers : pc[v] = "wrote"
      BY Zenon, <2>1, <3>1 DEF OneBroken
    <3>3. TipPasses(g)
      BY Zenon, <2>1, <3>2 DEF Holding
    <3>4. g \in 1 .. Len(lines)
      BY Zenon, <3>1 DEF Broken
    <3>5. TipPasses(g)'
      BY Zenon, <3>3, <3>4, PassedStays
    <3>6. Broken' = {g} /\ lines' = Append(lines, row[w])
      BY Zenon, <2>1, <2>4, <2>5, <2>6, <3>2
    <3>7. ParsedRows(lines') = Append(ParsedRows(lines), row[w])
      BY Zenon, <2>2, <2>4, <3>6, ParsedRowsAppend
    <3>8. PICK rows : rows = ParsedRows(lines)
      BY Zenon
    <3>9. Without(rows, g)
      BY Zenon, <3>2, <3>8
    <3>10. Without(Append(rows, row[w]), g)'
      BY Zenon, <1>4, <3>2, <3>4, <3>9, WithoutGrows
    <3>11. ParsedRows(lines') = Append(rows, row'[w])
      <4>1. row' = row
        BY Zenon, <1>4 DEF EndWrite
      <4> QED
        BY Zenon, <3>7, <3>8, <4>1
    <3>12. Without(ParsedRows(lines), g)'
      BY Zenon, <3>10, <3>11 DEF Without
    <3> QED
      BY Zenon, <2>1, <2>3, <3>2, <3>5, <3>6, <3>12
  <2> QED
    BY Zenon, <2>7, <2>8, <2>9
<1>5. CASE \/ Call(w) \/ Acquire(w) \/ LockTimeout(w) \/ HashRecord(w) \/ ReadRaises(w)
            \/ BeginWrite(w) \/ TruncateTip(w) \/ FillTip(w) \/ Release(w)
  <2>1. failures' = failures /\ lines' = lines /\ pc[w] # "writing"
    BY Zenon, <1>5 DEF Call, Acquire, LockTimeout, HashRecord, ReadRaises, BeginWrite,
                TruncateTip, FillTip, Release
  <2>2. Broken' = Broken
    BY Zenon, <2>1 DEF Broken
  <2>3. ASSUME NEW g \in Broken
        PROVE  /\ failures' = 1 /\ Broken' = {g} /\ Without(ParsedRows(lines), g)'
               /\ (\A v \in Writers : pc'[v] # "writing") => tail' = NoTail
               /\ \A v \in Writers : pc'[v] = "writing" => ~ glued'[v]
               /\ \/ TipPasses(g)'
                  \/ g = Len(lines') /\ \E v \in Writers : pc'[v] = "wrote"
    <3>1. /\ failures = 1 /\ Broken = {g} /\ Without(ParsedRows(lines), g)
          /\ (\A v \in Writers : pc[v] # "writing") => tail = NoTail
          /\ \A v \in Writers : pc[v] = "writing" => ~ glued[v]
          /\ \/ TipPasses(g)
             \/ g = Len(lines) /\ \E v \in Writers : pc[v] = "wrote"
      BY Zenon, <2>1, <2>3 DEF OneBroken
    <3>2. Without(ParsedRows(lines), g)'
      BY Zenon, <2>1, <3>1 DEF Without
    <3>3. /\ (\A v \in Writers : pc'[v] # "writing") => tail' = NoTail
          /\ \A v \in Writers : pc'[v] = "writing" => ~ glued'[v]
      <4>1. CASE BeginWrite(w)
        <5>1. /\ pc[w] = "hashed" /\ pc'[w] = "writing"
              /\ glued'[w] <=> tail # NoTail
          BY ZenonT(40), <1>1, <4>1 DEF BeginWrite, TypeOK
        <5>2. \A v \in Writers : pc[v] # "writing"
          BY Zenon, <5>1, OthersOutside DEF IInv, Holding
        <5> QED
          BY Zenon, <1>2, <3>1, <5>1, <5>2
      <4>2. CASE ~ BeginWrite(w)
        <5>1. tail' = tail /\ pc'[w] # "writing"
          BY Zenon, <1>1, <1>5, <4>2
             DEF TypeOK, Call, Acquire, LockTimeout, HashRecord, ReadRaises,
                 TruncateTip, FillTip, Release
        <5> QED
          BY Zenon, <1>2, <2>1, <3>1, <5>1
      <4> QED
        BY Zenon, <4>1, <4>2
    <3>4. \/ TipPasses(g)'
          \/ g = Len(lines') /\ \E v \in Writers : pc'[v] = "wrote"
      <4>1. CASE TipPasses(g)
        BY Zenon, <2>3, <4>1, PassedStays DEF Broken
      <4>2. CASE g = Len(lines) /\ \E v \in Writers : pc[v] = "wrote"
        <5>1. PICK v \in Writers : pc[v] = "wrote"
          BY Zenon, <4>2
        <5>2. CASE v # w
          BY Zenon, <1>2, <2>1, <4>2, <5>1, <5>2
        <5>3. CASE v = w
          <6>1. TruncateTip(w)
            BY Zenon, <1>5, <5>1, <5>3
               DEF Call, Acquire, LockTimeout, HashRecord, ReadRaises, BeginWrite,
                   FillTip, Release
          <6> QED
            BY Zenon, <6>1 DEF TruncateTip, TipPasses
        <5> QED
          BY Zenon, <5>2, <5>3
      <4> QED
        BY Zenon, <3>1, <4>1, <4>2
    <3> QED
      BY Zenon, <2>1, <2>2, <3>1, <3>2, <3>3, <3>4
  <2> QED
    BY Zenon, <2>1, <2>2, <2>3 DEF OneBroken
<1> QED
  BY Zenon, <1>3, <1>4, <1>5 DEF WriterStep
-----------------------------------------------------------------------------
\* More rows hold what fewer did.
LEMMA MoreRowsHold ==
    ASSUME NEW owed, NEW rows, NEW more, Len(rows) \in Nat, Len(more) \in Nat,
           Len(rows) <= Len(more), \A i \in 1 .. Len(rows) : more[i] = rows[i],
           AllThere(owed, rows)
    PROVE  AllThere(owed, more)
<1>1. \A i \in 1 .. Len(rows) : i \in 1 .. Len(more)
  OBVIOUS
<1> QED
  BY Zenon, <1>1 DEF AllThere

\* A record is returned when its line and the anchor are there.
LEMMA ThereStep ==
    ASSUME IInv, OwnIdentities, OwnLine, OneBroken, ThereOrPassed,
           NEW w \in Writers, WriterStep(w)
    PROVE  ThereOrPassed'
<1> SUFFICES ASSUME failures' <= 1
             PROVE  AllThere(acked', lines') \/ \E g \in Broken' : TipPasses(g)'
  BY Zenon DEF ThereOrPassed, AllThere
<1>1. failures \in Nat /\ failures <= 1
  BY FailuresGrow
<1>2. /\ Len(lines) \in Nat /\ Len(lines') \in Nat /\ Len(lines) <= Len(lines')
      /\ \A i \in 1 .. Len(lines) : lines'[i] = lines[i]
  BY Zenon, LinesGrow
<1>3. CASE \E g \in Broken : TipPasses(g)
  <2>1. PICK g \in Broken : TipPasses(g)
    BY Zenon, <1>3
  <2>2. TipPasses(g)' /\ g \in Broken'
    BY Zenon, <2>1, PassedStays, BrokenGrows DEF Broken
  <2> QED
    BY Zenon, <2>2
<1>4. CASE AllThere(acked, lines)
  <2>1. AllThere(acked, lines')
    BY Zenon, <1>2, <1>4, MoreRowsHold
  <2>2. CASE acked' = acked
    BY Zenon, <2>1, <2>2
  <2>3. CASE Release(w)
    <3>1. /\ pc[w] = "tipped" /\ acked' = acked \cup {row[w].id}
          /\ lines' = lines /\ tip' = tip
      BY Zenon, <2>3 DEF Release
    <3>2. /\ lines # <<>> /\ row[w].id \in 1 .. issued
          /\ lines[Len(lines)] = row[w] \/ lines[Len(lines)] = Junk
      BY Zenon, <3>1 DEF OwnLine, OwnIdentities, Written
    <3>3. Len(lines) \in 1 .. Len(lines)
      <4>1. lines \in Seq(Row)
        BY Zenon DEF IInv, TypeOK
      <4>2. Len(lines) # 0
        BY Zenon, <3>2, <4>1, EmptySeq
      <4> QED
        BY <1>2, <4>2
    <3>4. CASE lines[Len(lines)] = row[w]
      <4>1. row[w].id # 0
        BY <3>2
      <4> QED
        BY Zenon, <2>1, <3>1, <3>3, <3>4, <4>1 DEF AllThere
    <3>5. CASE lines[Len(lines)] = Junk
      <4>1. Len(lines) \in Broken
        BY <3>3, <3>5 DEF Broken, IsRecord, Junk
      <4>2. \A v \in Writers : pc[v] # "wrote"
        BY Zenon, <3>1, OthersOutside DEF IInv, Holding
      <4>3. TipPasses(Len(lines))
        BY Zenon, <1>1, <4>1, <4>2 DEF OneBroken
      <4>4. PICK g \in Broken : TipPasses(g)
        BY Zenon, <4>1, <4>3
      <4>5. TipPasses(g)' /\ g \in Broken'
        BY Zenon, <3>1, <4>4 DEF Broken, TipPasses
      <4> QED
        BY Zenon, <4>5
    <3> QED
      BY Zenon, <3>2, <3>4, <3>5
  <2> QED
    BY Zenon, <2>2, <2>3
       DEF WriterStep, Call, Acquire, LockTimeout, HashRecord, ReadRaises,
           BeginWrite, EndWrite, TruncateTip, FillTip, TipFails, Abort
<1> QED
  BY Zenon, <1>1, <1>3, <1>4 DEF ThereOrPassed

\* The part of the invariant that is about the file.
LEMMA FileStep ==
    ASSUME FileInv, [Next]_vars
    PROVE  FileInv'
<1>1. IInv'
  BY Zenon, InvStep DEF FileInv
<1>2. ASSUME NEW w \in Writers, WriterStep(w)
      PROVE  FileInv'
  BY Zenon, <1>1, <1>2, IdentitiesStep, OwnLineStep, TipNamesStep, OneBrokenStep, ThereStep
     DEF FileInv
<1>3. CASE VerifyReadRows \/ VerifyReadTip \/ UNCHANGED vars
  <2>1. UNCHANGED <<lines, tail, tip, lock, pc, row, glued, acked, issued, failures>>
    BY ZenonT(40), <1>3 DEF VerifyReadRows, VerifyReadTip, vars, writerVars
  <2>2. OwnIdentities' /\ OwnLine' /\ TipNamesLost'
    BY Zenon, <2>1 DEF FileInv, OwnIdentities, OwnLine, TipNamesLost, Absent, Spent, Names
  <2>3. OneBroken' /\ ThereOrPassed'
    BY ZenonT(40), <2>1 DEF FileInv, OneBroken, ThereOrPassed, Broken, Without, TipPasses, AllThere
  <2> QED
    BY Zenon, <1>1, <2>2, <2>3 DEF FileInv
<1> QED
  BY Zenon, <1>2, <1>3 DEF Next
-----------------------------------------------------------------------------
\* What writers do between the two reads of the verifier.
LEMMA HoldsDuringWrites ==
    ASSUME FileInv, HoldsAll, HoldsPrefix, NEW w \in Writers, WriterStep(w)
    PROVE  HoldsAll' /\ HoldsPrefix'
<1> USE DEF FileInv
<1>1. reader' = reader
  BY Zenon, OthersStay DEF IInv, readerVars
<1>2. /\ Len(lines) \in Nat /\ Len(lines') \in Nat /\ Len(lines) <= Len(lines')
      /\ \A i \in 1 .. Len(lines) : lines'[i] = lines[i]
  BY Zenon, LinesGrow
<1>3. \A i \in 1 .. Len(lines) : i \in 1 .. Len(lines')
  BY <1>2
<1>4. /\ failures \in Nat /\ failures' \in Nat /\ failures <= failures'
      /\ (TipFails(w) \/ Abort(w)) => failures' = failures + 1
  BY Zenon, FailuresGrow
<1>5. HoldsPrefix'
  <2>1. SUFFICES ASSUME reader.pc = "rows", failures' = 0
                 PROVE  /\ verify_chain(reader.rows)
                        /\ reader.quiet =>
                              /\ Len(reader.rows) = reader.seen
                              /\ reader.seen \in 0 .. Len(lines')
                              /\ \A i \in 1 .. reader.seen : reader.rows[i] = lines'[i]
    BY Zenon, <1>1 DEF HoldsPrefix, verify_chain
  <2>2. failures = 0
    BY <1>4, <2>1
  <2>3. /\ verify_chain(reader.rows)
        /\ reader.quiet =>
              /\ Len(reader.rows) = reader.seen
              /\ reader.seen \in 0 .. Len(lines)
              /\ \A i \in 1 .. reader.seen : reader.rows[i] = lines[i]
    BY Zenon, <2>1, <2>2 DEF HoldsPrefix
  <2>4. ASSUME reader.quiet
        PROVE  /\ reader.seen \in 0 .. Len(lines')
               /\ \A i \in 1 .. reader.seen : i \in 1 .. Len(lines)
    BY <1>2, <2>3, <2>4
  <2> QED
    BY Zenon, <1>2, <2>3, <2>4
<1>6. HoldsAll'
  <2> DEFINE rows == reader.rows
  <2>1. SUFFICES ASSUME reader.pc = "rows", failures' <= 1
                 PROVE  \/ AllThere(reader.owed, rows)
                        \/ \E g \in Broken' : Len(rows) < g /\ TipPasses(g)'
                        \/ Broken' # {} /\ Elsewhere(reader.rows)'
    BY Zenon, <1>1 DEF HoldsAll, AllThere
  <2>2. failures <= 1
    BY <1>4, <2>1
  <2>3. CASE \E g \in Broken : Len(rows) < g /\ TipPasses(g)
    <3>1. PICK g \in Broken : Len(rows) < g /\ TipPasses(g)
      BY Zenon, <2>3
    <3>2. TipPasses(g)' /\ g \in Broken'
      BY Zenon, <3>1, PassedStays, BrokenGrows DEF Broken
    <3> QED
      BY Zenon, <3>1, <3>2
  <2>4. CASE Broken # {} /\ Elsewhere(rows)
    <3>1. failures = 1
      BY Zenon, <2>2, <2>4 DEF OneBroken
    <3>2. ~ TipFails(w) /\ ~ Abort(w)
      BY <1>4, <2>1, <3>1
    <3>3. Len(rows) \in 1 .. Len(lines')
      BY <1>2, <2>4 DEF Elsewhere
    <3>4. CASE \E j \in 1 .. Len(lines) :
                  j # Len(rows) /\ IsRecord(lines[j]) /\ rows[Len(rows)] = lines[j]
      <4>1. PICK j \in 1 .. Len(lines) :
                  j # Len(rows) /\ IsRecord(lines[j]) /\ rows[Len(rows)] = lines[j]
        BY Zenon, <3>4
      <4>2. j \in 1 .. Len(lines') /\ lines'[j] = lines[j]
        BY Zenon, <1>2, <1>3
      <4> QED
        BY Zenon, <1>1, <2>4, <3>3, <4>1, <4>2, BrokenGrows DEF Elsewhere
    <3>5. CASE \E v \in Writers :
                  pc[v] = "writing" /\ ~ glued[v] /\ rows[Len(rows)] = row[v]
      <4>1. PICK v \in Writers :
                  pc[v] = "writing" /\ ~ glued[v] /\ rows[Len(rows)] = row[v]
        BY Zenon, <3>5
      <4>2. CASE v = w
        <5>1. EndWrite(w)
          BY Zenon, <3>2, <4>1, <4>2
             DEF WriterStep, Call, Acquire, LockTimeout, HashRecord, ReadRaises,
                 BeginWrite, TruncateTip, FillTip, TipFails, Release, Abort
        <5>2. Len(lines') = Len(lines) + 1 /\ lines'[Len(lines')] = row[w]
          BY Zenon, <4>1, <4>2, <5>1, LineAdded
        <5>3. Len(lines') \in 1 .. Len(lines') /\ Len(lines') # Len(rows)
          BY <1>2, <2>4, <5>2 DEF Elsewhere
        <5>4. IsRecord(row[w])
          <6>1. row[w].id \in 1 .. issued
            BY Zenon, <4>1, <4>2 DEF OwnIdentities
          <6> QED
            BY <6>1 DEF IsRecord
        <5> QED
          BY Zenon, <1>1, <2>4, <3>3, <4>1, <4>2, <5>2, <5>3, <5>4, BrokenGrows DEF Elsewhere
      <4>3. CASE v # w
        <5>1. pc'[v] = pc[v] /\ row'[v] = row[v] /\ glued'[v] = glued[v]
          BY Zenon, <4>3, OthersStay DEF IInv
        <5> QED
          BY ZenonT(40), <1>1, <2>4, <3>3, <4>1, <5>1, BrokenGrows DEF Elsewhere
      <4> QED
        BY Zenon, <4>2, <4>3
    <3> QED
      BY Zenon, <2>4, <3>4, <3>5 DEF Elsewhere
  <2> QED
    BY Zenon, <2>1, <2>2, <2>3, <2>4 DEF HoldsAll
<1> QED
  BY Zenon, <1>5, <1>6

\* The rows the verifier reads: the lines that parse, and possibly the record a
\* writer has all but finished.
LEMMA RowsRead ==
    ASSUME FileInv
    PROVE  \/ read_audit_records = ParsedRows(lines)
           \/ \E w \in Writers : /\ pc[w] = "writing" /\ ~ glued[w]
                                 /\ read_audit_records = Append(ParsedRows(lines), row[w])
           \/ tail # NoTail /\ \A w \in Writers : pc[w] # "writing"
<1>1. lines \in Seq(Row) /\ tail \in Tails /\ \A w \in Writers : row[w] \in Row
  BY Zenon DEF FileInv, IInv, TypeOK
<1>2. CASE tail = NoTail
  BY Zenon, <1>2 DEF read_audit_records
<1>3. ASSUME tail # NoTail, NEW w \in Writers, pc[w] = "writing"
      PROVE  \/ read_audit_records = ParsedRows(lines)
             \/ ~ glued[w] /\ read_audit_records = Append(ParsedRows(lines), row[w])
  <2>1. read_audit_records = ParsedRows(Append(lines, tail.row))
    BY Zenon, <1>3 DEF read_audit_records
  <2>2. CASE tail.row = Junk
    <3>1. Junk \in Row /\ ~ IsRecord(Junk)
      BY Zenon, RowsAndTails DEF IsRecord, Junk
    <3> QED
      BY Zenon, <1>1, <2>1, <2>2, <3>1, ParsedRowsAppend
  <2>3. CASE ~ glued[w] /\ tail = Whole(row[w])
    <3>1. tail.row = row[w]
      BY Zenon, <2>3 DEF Whole
    <3>2. IsRecord(row[w])
      <4>1. row[w].id \in 1 .. issued
        BY Zenon, <1>3 DEF FileInv, OwnIdentities
      <4> QED
        BY <4>1 DEF IsRecord
    <3> QED
      BY Zenon, <1>1, <2>1, <2>3, <3>1, <3>2, ParsedRowsAppend
  <2> QED
    BY Zenon, <1>3, <2>2, <2>3 DEF FileInv, OwnLine
<1> QED
  BY Zenon, <1>2, <1>3
\* Whatever follows the last newline, it adds at most one row.
LEMMA OneRowMore ==
    ASSUME FileInv
    PROVE  \/ read_audit_records = ParsedRows(lines)
           \/ \E x \in Row : read_audit_records = Append(ParsedRows(lines), x)
<1>1. lines \in Seq(Row) /\ tail.row \in Row
  BY Zenon, RowsAndTails DEF FileInv, IInv, TypeOK
<1> QED
  BY Zenon, <1>1, ParsedRowsAppend DEF read_audit_records

\* A file without broken lines is read in full.
LEMMA IntactIsRead ==
    ASSUME FileInv, failures <= 1, Broken = {}
    PROVE  AllThere(acked, read_audit_records)
<1>1. lines \in Seq(Row) /\ Len(lines) \in Nat
  BY Zenon, LenProperties DEF FileInv, IInv, TypeOK
<1>2. ParsedRows(lines) = lines
  BY Zenon DEF FileInv, OneBroken
<1>3. AllThere(acked, lines)
  BY Zenon DEF FileInv, ThereOrPassed
<1>4. CASE read_audit_records = lines
  BY Zenon, <1>3, <1>4
<1>5. ASSUME NEW x \in Row, read_audit_records = Append(lines, x)
      PROVE  AllThere(acked, read_audit_records)
  <2> DEFINE more == Append(lines, x)
  <2>1. Len(more) = Len(lines) + 1 /\ \A i \in 1 .. Len(lines) : more[i] = lines[i]
    BY <1>1, AppendProperties
  <2>2. Len(more) \in Nat /\ Len(lines) <= Len(more)
    BY <1>1, <2>1
  <2> HIDE DEF more
  <2>3. AllThere(acked, more)
    BY Zenon, <1>1, <1>3, <2>1, <2>2, MoreRowsHold
  <2> QED
    BY Zenon, <1>5, <2>3 DEF more
<1> QED
  BY Zenon, <1>2, <1>4, <1>5, OneRowMore

\* Leaving out the broken line loses no record.
LEMMA WithoutHolds ==
    ASSUME NEW g \in Broken, Broken = {g}, Len(lines) \in Nat, NEW rows, Without(rows, g),
           NEW owed, AllThere(owed, lines)
    PROVE  AllThere(owed, rows)
<1> SUFFICES ASSUME NEW id \in owed
             PROVE  \E i \in 1 .. Len(rows) : rows[i].id = id /\ id # 0
  BY Zenon DEF AllThere
<1>1. PICK i \in 1 .. Len(lines) : lines[i].id = id /\ id # 0
  BY Zenon DEF AllThere
<1>2. i # g /\ g \in 1 .. Len(lines)
  BY Zenon, <1>1 DEF Broken, IsRecord
<1>3. CASE i < g
  <2>1. i \in 1 .. (g - 1) /\ i \in 1 .. Len(rows)
    BY <1>2, <1>3 DEF Without
  <2>2. rows[i] = lines[i]
    BY Zenon, <2>1 DEF Without
  <2> QED
    BY Zenon, <1>1, <2>1, <2>2
<1>4. CASE i > g
  <2>1. i - 1 \in g .. (Len(lines) - 1) /\ i - 1 \in 1 .. Len(rows) /\ (i - 1) + 1 = i
    BY <1>2, <1>4 DEF Without
  <2>2. rows[i - 1] = lines[i]
    BY Zenon, <2>1 DEF Without
  <2> QED
    BY Zenon, <1>1, <2>1, <2>2
<1> QED
  BY <1>2, <1>3, <1>4

\* What is read of a file with a broken line.
LEMMA BrokenIsRead ==
    ASSUME FileInv, failures <= 1, NEW g \in Broken
    PROVE  \/ AllThere(acked, read_audit_records)
           \/ Len(read_audit_records) < g /\ TipPasses(g)
           \/ Elsewhere(read_audit_records)
<1> DEFINE n == Len(lines)
           rows == ParsedRows(lines)
<1>1. n \in Nat /\ g \in 1 .. n
  BY Zenon, LenProperties DEF FileInv, IInv, TypeOK, Broken
<1>2. /\ failures = 1 /\ Broken = {g} /\ Without(rows, g)
      /\ (\A w \in Writers : pc[w] # "writing") => tail = NoTail
  BY Zenon DEF FileInv, OneBroken
<1>3. rows \in Seq(Row) /\ Len(rows) = n - 1
  BY Zenon, <1>2 DEF Without
<1>4. CASE read_audit_records = rows
  <2>1. CASE AllThere(acked, lines)
    <3>1. AllThere(acked, rows)
      BY Zenon, <1>1, <1>2, <2>1, WithoutHolds
    <3> QED
      BY Zenon, <1>4, <3>1
  <2>2. CASE g = n /\ ~ AllThere(acked, lines)
    <3>1. TipPasses(g)
      BY Zenon, <1>2, <2>2 DEF FileInv, ThereOrPassed
    <3> QED
      BY <1>1, <1>3, <1>4, <2>2, <3>1
  <2>3. CASE g # n
    <3>1. n - 1 \in g .. (n - 1) /\ (n - 1) + 1 = n /\ n \in 1 .. n
      BY <1>1, <2>3
    <3>2. rows[n - 1] = lines[n]
      BY Zenon, <1>2, <3>1 DEF Without
    <3>3. IsRecord(lines[n])
      BY Zenon, <1>1, <1>2, <2>3, <3>1 DEF Broken
    <3>4. n # n - 1 /\ n - 1 \in 1 .. n
      BY <1>1, <2>3
    <3>5. Elsewhere(rows)
      BY Zenon, <1>3, <3>1, <3>2, <3>3, <3>4 DEF Elsewhere
    <3> QED
      BY Zenon, <1>4, <3>5
  <2> QED
    BY Zenon, <2>1, <2>2, <2>3
<1>5. ASSUME NEW w \in Writers, pc[w] = "writing", ~ glued[w],
             read_audit_records = Append(rows, row[w])
      PROVE  Elsewhere(read_audit_records)
  <2> DEFINE more == Append(rows, row[w])
  <2>1. row[w] \in Row
    BY Zenon DEF FileInv, IInv, TypeOK
  <2>2. Len(more) = (n - 1) + 1 /\ more[(n - 1) + 1] = row[w]
    BY <1>3, <2>1, AppendProperties
  <2> HIDE DEF more
  <2>3. Len(more) = n /\ n \in 1 .. n /\ more[Len(more)] = row[w]
    BY <1>1, <2>2
  <2>4. Elsewhere(more)
    BY Zenon, <1>5, <2>3 DEF Elsewhere
  <2> QED
    BY Zenon, <1>5, <2>4 DEF more
<1> QED
  BY Zenon, <1>2, <1>4, <1>5, RowsRead
\* The verifier's first read.
LEMMA ReadRowsStep ==
    ASSUME FileInv, VerifyReadRows
    PROVE  HoldsAll' /\ HoldsPrefix'
<1> DEFINE rows == read_audit_records
<1>1. /\ UNCHANGED <<lines, tail, tip, lock, pc, row, glued, failures>>
      /\ reader'.rows = rows /\ reader'.owed = acked /\ reader'.seen = Len(lines)
      /\ reader'.quiet <=> lock = NoWriter
  BY Zenon DEF VerifyReadRows, writerVars
<1>2. failures \in Nat /\ lines \in Seq(Row) /\ Len(lines) \in Nat
  BY LenProperties DEF FileInv, IInv, TypeOK
<1>3. HoldsAll'
  <2>1. SUFFICES ASSUME failures <= 1
                 PROVE  \/ AllThere(acked, rows)
                        \/ \E g \in Broken : Len(rows) < g /\ TipPasses(g)
                        \/ Broken # {} /\ Elsewhere(rows)
    BY <1>1 DEF HoldsAll, AllThere, Broken, TipPasses, Elsewhere
  <2>2. CASE Broken = {}
    BY Zenon, <2>1, <2>2, IntactIsRead
  <2>3. ASSUME NEW g \in Broken
        PROVE  \/ AllThere(acked, rows)
               \/ Len(rows) < g /\ TipPasses(g)
               \/ Elsewhere(rows)
    BY Zenon, <2>1, <2>3, BrokenIsRead
  <2> HIDE DEF rows
  <2> QED
    BY Zenon, <2>2, <2>3
<1>4. HoldsPrefix'
  <2>1. SUFFICES ASSUME failures = 0
                 PROVE  /\ verify_chain(rows)
                        /\ lock = NoWriter => rows = lines
    <3>1. Len(lines) \in 0 .. Len(lines)
      BY <1>2
    <3> HIDE DEF rows
    <3> QED
      BY <1>1, <3>1 DEF HoldsPrefix, verify_chain
  <2>2. /\ (\A w \in Writers : pc[w] # "writing") => tail = NoTail
        /\ \A i \in 1 .. Len(lines) : IsRecord(lines[i])
    BY Zenon, <2>1 DEF FileInv, IInv, Clean
  <2>3. ParsedRows(lines) = lines
    <3>1. Broken = {}
      BY Zenon, <2>2 DEF Broken
    <3> QED
      BY <2>1, <3>1 DEF FileInv, OneBroken
  <2>4. verify_chain(lines)
    BY Zenon, <2>1, InvProperties DEF FileInv, ChainIntact
  <2>5. lock = NoWriter => rows = lines
    <3>1. lock = NoWriter => \A w \in Writers : pc[w] # "writing"
      BY Zenon, ConstantsAssumption DEF FileInv, IInv, MutualExclusion, Holding
    <3> QED
      BY <2>2, <2>3, <3>1, Zenon DEF read_audit_records
  <2>6. ASSUME NEW w \in Writers, pc[w] = "writing", ~ glued[w]
        PROVE  verify_chain(Append(lines, row[w]))
    <3> DEFINE more == Append(lines, row[w])
               n == Len(lines)
    <3>1. row[w] \in Row /\ row[w].hash = chain_hash(LastHash, row[w].id)
      BY Zenon, <2>6 DEF FileInv, IInv, TypeOK, HashFresh
    <3>2. Len(more) = n + 1 /\ more[n + 1] = row[w] /\ \A i \in 1 .. n : more[i] = lines[i]
      BY <1>2, <3>1, AppendProperties
    <3> HIDE DEF more
    <3>3. ASSUME NEW i \in 1 .. Len(more)
          PROVE  more[i].hash =
                     chain_hash(IF i = 1 THEN Genesis ELSE more[i - 1].hash, more[i].id)
      <4>1. CASE i \in 1 .. n
        <5>1. i # 1 => i - 1 \in 1 .. n
          BY <1>2, <4>1
        <5>2. more[i] = lines[i] /\ (i # 1 => more[i - 1] = lines[i - 1])
          BY Zenon, <3>2, <4>1, <5>1
        <5> QED
          BY Zenon, <2>4, <4>1, <5>2 DEF verify_chain
      <4>2. CASE i = n + 1
        <5>1. CASE n = 0
          BY <1>2, <3>1, <3>2, <4>2, <5>1, EmptySeq DEF LastHash
        <5>2. CASE n # 0
          <6>1. i # 1 /\ i - 1 = n /\ n \in 1 .. n
            BY <1>2, <4>2, <5>2
          <6>2. lines # <<>>
            BY <1>2, <5>2
          <6>3. more[i - 1] = lines[n] /\ more[i] = row[w]
            BY Zenon, <3>2, <4>2, <6>1
          <6> QED
            BY Zenon, <3>1, <6>1, <6>2, <6>3 DEF LastHash
        <5> QED
          BY Zenon, <5>1, <5>2
      <4> QED
        BY <1>2, <3>2, <4>1, <4>2
    <3>4. verify_chain(more)
      BY Zenon, <3>3 DEF verify_chain
    <3> QED
      BY Zenon, <3>4 DEF more
  <2>7. verify_chain(rows)
    BY Zenon, <2>2, <2>3, <2>4, <2>6, RowsRead
  <2> QED
    BY Zenon, <2>5, <2>7
<1> QED
  BY Zenon, <1>3, <1>4

\* No anchor agrees with rows whose last one is at another line.
LEMMA ElsewhereMismatches ==
    ASSUME FileInv, NEW rows, Elsewhere(rows), tip # NoTip, tip.count = Len(rows)
    PROVE  tip.hash # rows[Len(rows)].hash
<1> DEFINE n == Len(rows)
           last == rows[n]
<1>1. n \in 1 .. Len(lines)
  BY Zenon DEF Elsewhere
<1>2. /\ lines \in Seq(Row) /\ Len(lines) \in Nat
      /\ \A i \in 1 .. Len(lines) : lines[i].id \in Nat /\ lines[i].hash \in Seq(Nat)
  BY Zenon, LenProperties, ElementOfSeq, RowsAndTails DEF FileInv, IInv, TypeOK
<1>3. ASSUME NEW i \in 1 .. Len(lines), IsRecord(lines[i])
      PROVE  Names(lines[i].hash, lines[i].id)
  <2>1. HashAbove(i) \in Seq(Nat)
    <3>1. CASE i = 1
      BY Zenon, <3>1, GenesisType DEF HashAbove
    <3>2. CASE i # 1
      <4>1. i - 1 \in 1 .. Len(lines)
        BY <1>2, <3>2
      <4> QED
        BY Zenon, <1>2, <3>2, <4>1 DEF HashAbove
    <3> QED
      BY Zenon, <3>1, <3>2
  <2>2. lines[i].hash = chain_hash(HashAbove(i), lines[i].id)
    BY Zenon, <1>3 DEF FileInv, IInv, Linked
  <2>3. Names(chain_hash(HashAbove(i), lines[i].id), lines[i].id)
    BY Zenon, <1>2, <2>1, ChainHashNames
  <2> QED
    BY Zenon, <2>2, <2>3
<1>4. /\ Names(last.hash, last.id)
      /\ IsRecord(lines[n]) => last.id # lines[n].id
      /\ ~ Spent(last.id)
  <2>1. CASE \E j \in 1 .. Len(lines) : j # n /\ IsRecord(lines[j]) /\ last = lines[j]
    <3>1. PICK j \in 1 .. Len(lines) : j # n /\ IsRecord(lines[j]) /\ last = lines[j]
      BY Zenon, <2>1
    <3> HIDE DEF last, n
    <3> QED
      BY Zenon, <1>1, <1>3, <3>1 DEF FileInv, OwnIdentities, Spent, Absent
  <2>2. CASE \E w \in Writers : pc[w] = "writing" /\ ~ glued[w] /\ last = row[w]
    <3>1. PICK w \in Writers : pc[w] = "writing" /\ last = row[w]
      BY Zenon, <2>2
    <3>2. pc[w] \in Unwritten
      BY Zenon, <3>1 DEF Unwritten
    <3> HIDE DEF last, n
    <3> QED
      BY Zenon, <1>1, <3>1, <3>2 DEF FileInv, OwnIdentities, OwnLine, Spent, Absent
  <2> QED
    BY Zenon, <2>1, <2>2 DEF Elsewhere
<1>5. SUFFICES ASSUME tip.hash = last.hash PROVE FALSE
  BY Zenon
<1> HIDE DEF last
<1>6. CASE IsRecord(lines[n])
  <2>1. tip.hash = lines[n].hash
    BY Zenon, <1>6 DEF FileInv, IInv, TipDescribesPrefix
  <2> QED
    BY Zenon, <1>1, <1>3, <1>4, <1>5, <1>6, <2>1 DEF Names
<1>7. CASE ~ IsRecord(lines[n])
  <2>1. PICK id \in 1 .. issued : Names(tip.hash, id) /\ Spent(id)
    BY Zenon, <1>7 DEF FileInv, TipNamesLost
  <2> QED
    BY Zenon, <1>4, <1>5, <2>1 DEF Names
<1> QED
  BY Zenon, <1>6, <1>7

\* The verifier's second read, after at most one failure.
LEMMA CompleteStep ==
    ASSUME FileInv, HoldsAll, VerifyReadTip
    PROVE  VerifiedIsComplete'
<1> DEFINE rows == reader.rows
           n == Len(rows)
<1>1. /\ reader.pc = "rows" /\ failures' = failures
      /\ verdict'.tip = TipStatus(rows)
      /\ verdict'.complete <=> reader.owed \subseteq Identities(rows)
  BY Zenon DEF VerifyReadTip
<1>2. SUFFICES ASSUME failures <= 1, TipStatus(rows) = "match"
               PROVE  reader.owed \subseteq Identities(rows)
  BY Zenon, <1>1 DEF VerifiedIsComplete
<1> HIDE DEF rows
<1>3. tip # NoTip /\ tip.count = n
  BY Zenon, <1>2 DEF TipStatus
<1>4. rows # <<>> => tip.hash = rows[n].hash
  BY Zenon, <1>2 DEF TipStatus
<1>5. CASE AllThere(reader.owed, rows)
  BY Zenon, <1>5 DEF AllThere, Identities
<1>6. CASE \E g \in Broken : n < g /\ TipPasses(g)
  <2>1. PICK g \in Broken : n < g /\ TipPasses(g)
    BY Zenon, <1>6
  <2>2. n \in Nat /\ g \in Nat /\ n >= g
    BY <1>3, <2>1 DEF FileInv, IInv, TypeOK, TipPasses, Broken
  <2> QED
    BY <2>1, <2>2
<1>7. CASE Elsewhere(rows)
  <2>1. n \in 1 .. Len(lines)
    BY Zenon, <1>7 DEF Elsewhere
  <2>2. rows # <<>>
    BY <2>1
  <2> QED
    BY Zenon, <1>3, <1>4, <1>7, <2>2, ElsewhereMismatches
<1> QED
  BY Zenon, <1>1, <1>2, <1>5, <1>6, <1>7 DEF HoldsAll, rows

\* The verifier's second read, without failures.
LEMMA NoAlarmStep ==
    ASSUME FileInv, HoldsPrefix, VerifyReadTip
    PROVE  NoFalseAlarm'
<1> DEFINE rows == reader.rows
           n == Len(lines)
<1>1. /\ reader.pc = "rows" /\ failures' = failures
      /\ verdict'.chain <=> verify_chain(rows)
      /\ verdict'.tip = TipStatus(rows)
      /\ verdict'.quiet <=> reader.quiet /\ lock = NoWriter /\ n = reader.seen
  BY ZenonT(40) DEF VerifyReadTip
<1>2. SUFFICES ASSUME failures = 0
               PROVE  /\ verify_chain(rows)
                      /\ reader.quiet /\ lock = NoWriter /\ n = reader.seen =>
                             TipStatus(rows) # "mismatch"
  BY Zenon, <1>1 DEF NoFalseAlarm
<1>3. verify_chain(rows)
  BY Zenon, <1>1, <1>2 DEF HoldsPrefix
<1>4. ASSUME reader.quiet, lock = NoWriter, n = reader.seen
      PROVE  TipStatus(rows) # "mismatch"
  <2>1. Len(rows) = n /\ \A i \in 1 .. n : rows[i] = lines[i]
    BY Zenon, <1>1, <1>2, <1>4 DEF HoldsPrefix
  <2>2. lines \in Seq(Row) /\ n \in Nat
    BY Zenon, LenProperties DEF FileInv, IInv, TypeOK
  <2> HIDE DEF rows
  <2>3. CASE lines = <<>>
    <3>1. n = 0
      BY Zenon, <2>3
    <3>2. tip = NoTip
      BY <2>2, <3>1 DEF FileInv, IInv, TipDescribesPrefix
    <3> QED
      BY Zenon, <3>2 DEF TipStatus
  <2>4. CASE lines # <<>>
    <3>1. n \in 1 .. n
      BY <2>2, <2>4, EmptySeq
    <3>2. tip.count = n /\ tip.hash = lines[n].hash
      BY <1>2, <1>4, <2>4, InvProperties DEF FileInv, TipCurrentWhenFree
    <3>3. rows # <<>> /\ rows[Len(rows)] = lines[n]
      BY <2>1, <3>1
    <3> QED
      BY Zenon, <2>1, <3>2, <3>3 DEF TipStatus
  <2> QED
    BY Zenon, <2>3, <2>4
<1> QED
  BY Zenon, <1>3, <1>4

\* Nobody has written or read anything yet.
LEMMA VerifierInit == Init => VerifierInv
<1> SUFFICES ASSUME Init PROVE VerifierInv
  BY Zenon
<1>1. /\ IInv /\ lines = <<>> /\ Len(lines) = 0 /\ tip = NoTip /\ acked = {}
      /\ reader.pc = "idle" /\ verdict.chain /\ verdict.complete /\ ~ verdict.quiet
      /\ \A w \in Writers : pc[w] = "idle"
  BY Zenon, InvInit DEF Init, IdleReader, NoVerdict
<1>2. OwnIdentities /\ OwnLine /\ TipNamesLost
  <2>0. \A i \in 1 .. Len(lines) : FALSE
    BY <1>1
  <2>1. OwnIdentities
    BY <1>1, <2>0, Zenon DEF OwnIdentities, Unwritten
  <2>2. OwnLine
    BY Zenon, <1>1 DEF OwnLine, Unwritten, Written
  <2>3. TipNamesLost
    BY Zenon, <1>1 DEF TipNamesLost
  <2> QED
    BY Zenon, <2>1, <2>2, <2>3
<1>3. Broken = {}
  BY <1>1 DEF Broken
<1>4. OneBroken /\ ThereOrPassed
  BY Zenon, <1>1, <1>3, ParsedRowsEmpty DEF OneBroken, ThereOrPassed, AllThere
<1> QED
  BY Zenon, <1>1, <1>2, <1>4
     DEF VerifierInv, FileInv, HoldsAll, HoldsPrefix, NoFalseAlarm, VerifiedIsComplete

\* Every step of a writer or of the verifier preserves the invariant.
LEMMA VerifierStep == VerifierInv /\ [Next]_vars => VerifierInv'
<1> SUFFICES ASSUME VerifierInv, [Next]_vars
             PROVE  VerifierInv'
  BY Zenon
<1>1. FileInv'
  BY Zenon, FileStep DEF VerifierInv
<1>2. ASSUME NEW w \in Writers, WriterStep(w)
      PROVE  VerifierInv'
  <2>1. HoldsAll' /\ HoldsPrefix'
    BY Zenon, <1>2, HoldsDuringWrites DEF VerifierInv
  <2>2. verdict' = verdict
    BY Zenon, <1>2, OthersStay DEF VerifierInv, FileInv, IInv, readerVars
  <2>3. failures \in Nat /\ failures' \in Nat /\ failures <= failures'
    BY Zenon, <1>2, FailuresGrow DEF VerifierInv, FileInv
  <2>4. NoFalseAlarm' /\ VerifiedIsComplete'
    BY <2>2, <2>3 DEF VerifierInv, NoFalseAlarm, VerifiedIsComplete
  <2> QED
    BY Zenon, <1>1, <2>1, <2>4 DEF VerifierInv
<1>3. CASE VerifyReadRows
  <2>1. HoldsAll' /\ HoldsPrefix'
    BY Zenon, <1>3, ReadRowsStep DEF VerifierInv
  <2>2. NoFalseAlarm' /\ VerifiedIsComplete'
    BY Zenon, <1>3 DEF VerifyReadRows, VerifierInv, NoFalseAlarm, VerifiedIsComplete
  <2> QED
    BY Zenon, <1>1, <2>1, <2>2 DEF VerifierInv
<1>4. CASE VerifyReadTip
  <2>1. reader'.pc = "idle"
    BY Zenon, <1>4 DEF VerifyReadTip, IdleReader
  <2>2. HoldsAll' /\ HoldsPrefix'
    BY Zenon, <2>1 DEF HoldsAll, HoldsPrefix
  <2>3. NoFalseAlarm' /\ VerifiedIsComplete'
    BY Zenon, <1>4, NoAlarmStep, CompleteStep DEF VerifierInv
  <2> QED
    BY Zenon, <1>1, <2>2, <2>3 DEF VerifierInv
<1>5. CASE UNCHANGED vars
  <2>1. UNCHANGED <<lines, tip, pc, row, glued, failures, reader, verdict>>
    BY Zenon, <1>5 DEF vars, writerVars, readerVars
  <2>2. HoldsPrefix' /\ NoFalseAlarm' /\ VerifiedIsComplete'
    BY <2>1 DEF VerifierInv, HoldsPrefix, NoFalseAlarm, VerifiedIsComplete, verify_chain
  <2>3. HoldsAll'
    <3>1. Broken' = Broken
      BY Zenon, <2>1 DEF Broken
    <3>2. Elsewhere(reader.rows)' <=> Elsewhere(reader.rows)
      BY Zenon, <2>1 DEF Elsewhere
    <3>3. \A g : TipPasses(g)' <=> TipPasses(g)
      BY Zenon, <2>1 DEF TipPasses
    <3>4. AllThere(reader.owed, reader.rows)' <=> AllThere(reader.owed, reader.rows)
      BY Zenon, <2>1 DEF AllThere
    <3> QED
      BY Zenon, <2>1, <3>1, <3>2, <3>3, <3>4 DEF VerifierInv, HoldsAll
  <2> QED
    BY Zenon, <1>1, <2>2, <2>3 DEF VerifierInv
<1> QED
  BY Zenon, <1>2, <1>3, <1>4, <1>5 DEF Next

\* It holds in every reachable state.
LEMMA VerifierAlways == Spec => []VerifierInv
BY VerifierInit, VerifierStep, PTL DEF Spec

(***************************************************************************)
(* verify_audit_with_tip takes no lock.  As long as nothing has failed its  *)
(* chain check never fails, whatever writers do between and during its      *)
(* reads, and its tip check fails only if an append overlapped them.        *)
(***************************************************************************)
THEOREM VerifierRaisesNoFalseAlarm == Spec => []NoFalseAlarm
<1>1. VerifierInv => NoFalseAlarm
  BY Zenon DEF VerifierInv
<1> QED
  BY <1>1, VerifierAlways, PTL

(***************************************************************************)
(* After one crash or failed write the verifier is satisfied with no file   *)
(* that lost a record: when the anchor it reads agrees with the rows it has *)
(* read, they hold every record append_audit had returned by then.          *)
(***************************************************************************)
THEOREM VerifiedFileIsComplete == Spec => []VerifiedIsComplete
<1>1. VerifierInv => VerifiedIsComplete
  BY Zenon DEF VerifierInv
<1> QED
  BY <1>1, VerifierAlways, PTL

=============================================================================
