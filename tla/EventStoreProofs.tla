-------------------------- MODULE EventStoreProofs --------------------------
(* Proofs about EventStore, for any number of stores and requests, any      *)
(* event kinds and builds, and logs of any length.                          *)
EXTENDS EventStore, SequenceTheorems, FiniteSetTheorems, TLAPS

-----------------------------------------------------------------------------
(* Lemmas about the operators the specification is built from.              *)

LEMMA NewRequestType == NewRequest \in ReqRecords
  <1>1. (CHOOSE k \in Kinds : TRUE) \in Kinds
    BY KindsAssumption
  <1>2. Log!GenesisHash \in Log!Hashes
    BY DEF Log!GenesisHash, Log!Hashes
  <1> QED
    BY <1>1, <1>2 DEF NewRequest, ReqRecords, NoReplay, Replays, PCs, Results, Log!Ops

LEMMA LastIdType == ASSUME NEW data \in Seq(Log!Events)
                    PROVE  LastId(data) \in Nat
  <1>1. CASE data = << >>
    BY <1>1 DEF LastId, Log!LastId
  <1>2. CASE data # << >>
    <2>1. Len(data) \in 1 .. Len(data)
      BY <1>2, EmptySeq
    <2>2. data[Len(data)] \in Log!Events
      BY <2>1, ElementOfSeq
    <2> QED BY <2>2, <1>2 DEF LastId, Log!LastId, Log!Events
  <1> QED BY <1>1, <1>2

LEMMA LastHashType == ASSUME NEW data \in Seq(Log!Events)
                      PROVE  LastHash(data) \in Log!Hashes
  <1>1. CASE data = << >>
    BY <1>1 DEF LastHash, Log!LastHash, Log!GenesisHash, Log!Hashes
  <1>2. CASE data # << >>
    <2>1. Len(data) \in 1 .. Len(data)
      BY <1>2, EmptySeq
    <2>2. data[Len(data)] \in Log!Events
      BY <2>1, ElementOfSeq
    <2> QED BY <2>2, <1>2 DEF LastHash, Log!LastHash, Log!Events
  <1> QED BY <1>1, <1>2

LEMMA AnsweredType ==
    ASSUME TypeOK, NEW r \in Requests, NEW answer \in Results
    PROVE  Answered(r, answer) \in ReqRecords
  BY NewRequestType DEF Answered, TypeOK, ReqRecords, PCs

LEMMA ReturnedType ==
    ASSUME TypeOK, NEW r \in Requests
    PROVE  Returned(r) \in ReqRecords
  <1>1. NewRequest.kind \in Kinds /\ NoReplay \in Replays
    BY NewRequestType DEF ReqRecords, NewRequest, NoReplay
  <1> QED
    BY <1>1, ZenonT(40) DEF Returned, TypeOK, ReqRecords

LEMMA ApplyMissingType ==
    ASSUME TypeOK, NEW data \in Seq(Log!Events), NEW start \in Nat,
           NEW end \in SkippedTo(start, data) .. Len(rows)
    PROVE  ApplyMissing(end, start, data) \in Seq(Log!Events)
  <1>1. SkippedTo(start, data) \in Nat /\ Len(rows) \in Nat
    BY LastIdType DEF SkippedTo, TypeOK
  <1>2. \A i \in SkippedTo(start, data) + 1 .. end : rows[i] \in Log!Events
    BY <1>1, ElementOfSeq DEF TypeOK
  <1>3. SubSeq(rows, SkippedTo(start, data) + 1, end) \in Seq(Log!Events)
    BY <1>1, <1>2, SubSeqProperties
  <1> QED
    BY <1>3, ConcatProperties DEF ApplyMissing

LEMMA ChainTipType ==
    ASSUME TypeOK, NEW data \in Seq(Log!Events), NEW start \in Nat
    PROVE  ChainTip(start, data) \in Log!Hashes
  <1>1. CASE Len(rows) > start
    <2>1. rows[Len(rows)] \in Log!Events
      BY <1>1, ElementOfSeq DEF TypeOK
    <2> QED BY <2>1, <1>1 DEF ChainTip, Log!Events
  <1>2. CASE ~(Len(rows) > start)
    BY <1>2, LastHashType DEF ChainTip
  <1> QED BY <1>1, <1>2

LEMMA InsertedEventType ==
    ASSUME TypeOK, NEW r \in Requests
    PROVE  InsertedEvent(r) \in Log!Events
  <1>0. req[r] \in ReqRecords
    BY DEF TypeOK
  <1>3. /\ req[r].replay \in Replays
        /\ req[r].kind \in Kinds /\ req[r].op \in Log!Ops /\ req[r].basis \in Nat
    BY <1>0 DEF ReqRecords
  <1>4. req[r].replay.last \in Nat /\ req[r].replay.tip \in Log!Hashes
    BY <1>3 DEF Replays
  <1>1. req[r].replay.last + 1 \in Nat
    BY <1>4
  <1>2. ChainHash(req[r].replay.tip, req[r].replay.last + 1, req[r].kind, r) \in Log!Hashes
    BY <1>1, <1>3, <1>4, AppendProperties DEF ChainHash, Log!ChainHash, Log!Hashes, Log!Contents
  <1> QED
    BY <1>1, <1>2, <1>3 DEF InsertedEvent, Log!Events

-----------------------------------------------------------------------------
(* Types.                                                                   *)

LEMMA TypeInit == Init => TypeOK
  BY NewRequestType, EmptySeq DEF Init, TypeOK

LEMMA ReqType ==
    ASSUME TypeOK, NEW r \in Requests, NEW x \in ReqRecords, Becomes(r, x)
    PROVE  req' \in [Requests -> ReqRecords]
  BY DEF TypeOK, Becomes

LEMMA PositionType == ASSUME TypeOK, NEW r \in Requests PROVE Position(r) \in Nat
  BY HostAssumption, LastIdType DEF Position, TypeOK

LEMMA TypeStep == TypeOK /\ [Next]_vars => TypeOK'
  <1> SUFFICES ASSUME TypeOK, [Next]_vars PROVE TypeOK'
    OBVIOUS
  <1>0. \A r \in Requests : req[r] \in ReqRecords
    BY DEF TypeOK
  <1>1. ASSUME NEW r \in Requests, NEW o \in Log!Ops, Arrive(r, o) PROVE TypeOK'
    <2>1. ASSUME NEW p \in PCs PROVE
            [req[r] EXCEPT !.op = o, !.pc = p, !.tries = Attempts]
              \in ReqRecords
      <3>1. Len(rows) \in Nat BY DEF TypeOK
      <3> QED BY <1>0, <3>1, AttemptsAssumption DEF ReqRecords
    <2>2. req' \in [Requests -> ReqRecords]
      BY <1>1, <2>1, ReqType DEF Arrive, PCs
    <2> QED BY <1>1, <2>2 DEF Arrive, TypeOK
  <1>2. ASSUME NEW r \in Requests, ReadPosition(r) PROVE TypeOK'
    <2>1. [req[r] EXCEPT !.pc = "queued", !.from = Position(r)] \in ReqRecords
      BY <1>0, PositionType DEF ReqRecords, PCs
    <2>2. req' \in [Requests -> ReqRecords]
      BY <1>2, <2>1, ReqType DEF ReadPosition
    <2> QED BY <1>2, <2>2 DEF ReadPosition, TypeOK
  <1>3. ASSUME NEW r \in Requests, LockStream(r) PROVE TypeOK'
    <2>1. [req[r] EXCEPT !.pc = "locked"] \in ReqRecords
      BY <1>0 DEF ReqRecords, PCs
    <2>2. req' \in [Requests -> ReqRecords]
      BY <1>3, <2>1, ReqType DEF LockStream
    <2> QED BY <1>3, <2>2 DEF LockStream, TypeOK
  <1>4. ASSUME NEW r \in Requests, CatchUp(r) PROVE TypeOK'
    <2> DEFINE s == Store(r)
               start == req[r].from
               data == proj[s]
    <2>1. s \in Stores /\ data \in Seq(Log!Events) /\ start \in Nat /\ Len(rows) \in Nat
      BY HostAssumption DEF Store, TypeOK, ReqRecords
    <2>2. PICK end \in SkippedTo(start, data) .. Len(rows) :
            /\ proj' = [proj EXCEPT ![s] = ApplyMissing(end, start, data)]
            /\ Becomes(r, [req[r] EXCEPT
                             !.pc = "caught",
                             !.replay = [last |-> Len(rows),
                                         tip |-> ChainTip(start, data),
                                         gap |-> TruncatedAt(end)]])
      BY <1>4 DEF CatchUp
    <2>3. ApplyMissing(end, start, data) \in Seq(Log!Events)
      BY <2>1, ApplyMissingType
    <2>4. [last |-> Len(rows), tip |-> ChainTip(start, data), gap |-> TruncatedAt(end)]
            \in Replays
      <3>1. SkippedTo(start, data) \in Nat
        BY <2>1, LastIdType DEF SkippedTo
      <3>2. TruncatedAt(end) \in Nat
        BY <2>1, <3>1 DEF TruncatedAt
      <3> QED BY <2>1, <3>2, ChainTipType DEF Replays
    <2>5. rows' = rows /\ lock' = lock /\ cached' = cached
      BY <1>4 DEF CatchUp
    <2> HIDE DEF s, start, data
    <2>6. ASSUME NEW p \in Replays
          PROVE [req[r] EXCEPT !.pc = "caught", !.replay = p] \in ReqRecords
      BY <1>0 DEF ReqRecords, PCs
    <2>7. req' \in [Requests -> ReqRecords]
      BY <2>2, <2>4, <2>6, ReqType
    <2>8. proj' \in [Stores -> Seq(Log!Events)]
      BY <2>1, <2>2, <2>3 DEF TypeOK
    <2> QED BY <2>5, <2>7, <2>8 DEF TypeOK
  <1>5. ASSUME NEW r \in Requests, EndLoad(r) PROVE TypeOK'
    <2>1. ASSUME NEW p \in PCs PROVE [Returned(r) EXCEPT !.pc = p] \in ReqRecords
      BY ReturnedType DEF ReqRecords
    <2>2. req' \in [Requests -> ReqRecords]
      BY <1>5, <2>1, ReqType DEF EndLoad, PCs
    <2> QED BY <1>5, <2>2, HostAssumption DEF EndLoad, TypeOK, Store
  <1>6. ASSUME NEW r \in Requests, OpenHandle(r) PROVE TypeOK'
    <2>1. [req[r] EXCEPT !.pc = "handle", !.seen = Position(r)] \in ReqRecords
      BY <1>0, PositionType DEF ReqRecords, PCs
    <2>2. req' \in [Requests -> ReqRecords]
      BY <1>6, <2>1, ReqType DEF OpenHandle
    <2> QED BY <1>6, <2>2 DEF OpenHandle, TypeOK
  <1>7. ASSUME NEW r \in Requests, NEW k \in Kinds, Decide(r, k) PROVE TypeOK'
    <2>1. [req[r] EXCEPT !.pc = "begin", !.task = "append", !.kind = k,
                         !.basis = Position(r)] \in ReqRecords
      BY <1>0, PositionType DEF ReqRecords, PCs
    <2>2. req' \in [Requests -> ReqRecords]
      BY <1>7, <2>1, ReqType DEF Decide
    <2> QED BY <1>7, <2>2 DEF Decide, TypeOK
  <1>8. ASSUME NEW r \in Requests, Finish(r) PROVE TypeOK'
    <2>1. req' \in [Requests -> ReqRecords]
      BY <1>8, AnsweredType, ReqType DEF Finish, Results
    <2> QED BY <1>8, <2>1 DEF Finish, TypeOK
  <1>9. ASSUME NEW r \in Requests, RejectAppend(r) PROVE TypeOK'
    <2>1. req' \in [Requests -> ReqRecords]
      BY <1>9, AnsweredType, ReqType DEF RejectAppend, Results
    <2> QED BY <1>9, <2>1 DEF RejectAppend, TypeOK
  <1>10. ASSUME NEW r \in Requests, Conflict(r) PROVE TypeOK'
    <2>1. req[r].tries \in Nat /\ Returned(r).tries = req[r].tries
      BY <1>0 DEF ReqRecords, Returned
    <2>4. ASSUME NEW n \in Nat
          PROVE [Returned(r) EXCEPT !.pc = "handle", !.tries = n] \in ReqRecords
      BY ReturnedType DEF ReqRecords, PCs
    <2>5. req[r].tries > 1 => Returned(r).tries - 1 \in Nat
      BY <2>1
    <2>2. req[r].tries > 1 => [Returned(r) EXCEPT !.pc = "handle", !.tries = @ - 1] \in ReqRecords
      BY <2>4, <2>5
    <2>3. req' \in [Requests -> ReqRecords]
      BY <1>10, <2>2, AnsweredType, ReqType DEF Conflict, Results
    <2> QED BY <1>10, <2>3 DEF Conflict, TypeOK
  <1>11. ASSUME NEW r \in Requests, Commit(r) PROVE TypeOK'
    <2>1. rows' \in Seq(Log!Events)
      BY <1>11, InsertedEventType, AppendProperties DEF Commit, TypeOK
    <2>2. [req[r] EXCEPT !.pc = "committed"] \in ReqRecords
      BY <1>0 DEF ReqRecords, PCs
    <2>3. req' \in [Requests -> ReqRecords]
      BY <1>11, <2>2, AnsweredType, ReqType DEF Commit, Results
    <2> QED BY <1>11, <2>1, <2>3 DEF Commit, TypeOK
  <1>12. ASSUME NEW r \in Requests, ApplyPersisted(r) PROVE TypeOK'
    <2>1. proj' \in [Stores -> Seq(Log!Events)]
      <3>1. Append(proj[Store(r)], InsertedEvent(r)) \in Seq(Log!Events)
        BY InsertedEventType, AppendProperties, HostAssumption DEF TypeOK, Store
      <3> QED BY <3>1, <1>12 DEF ApplyPersisted, TypeOK
    <2>2. Answered(r, "ok") \in ReqRecords /\ Returned(r) \in ReqRecords
      BY AnsweredType, ReturnedType DEF Results
    <2>3. [Answered(r, "ok") EXCEPT !.wrote = @ + 1] \in ReqRecords
      BY <2>2 DEF ReqRecords
    <2>4. ASSUME NEW n \in Nat, NEW w \in Nat
          PROVE [Returned(r) EXCEPT !.pc = "handle", !.wrote = w, !.seen = n] \in ReqRecords
      BY <2>2 DEF ReqRecords, PCs
    <2>5. /\ (IF req[r].op = "own" THEN Returned(r).seen + 1 ELSE Returned(r).seen) \in Nat
          /\ Returned(r).wrote + 1 \in Nat
      BY <2>2 DEF ReqRecords
    <2>6. req' \in [Requests -> ReqRecords]
      BY <1>12, <2>3, <2>4, <2>5, ReqType DEF ApplyPersisted
    <2> QED BY <1>12, <2>1, <2>6 DEF ApplyPersisted, TypeOK
  <1>13. ASSUME NEW r \in Requests, Fail(r) PROVE TypeOK'
    <2>1. req' \in [Requests -> ReqRecords]
      BY <1>13, AnsweredType, ReqType DEF Fail, Results
    <2> QED BY <1>13, <2>1 DEF Fail, TypeOK
  <1>14. ASSUME NEW s \in Stores, Crash(s) PROVE TypeOK'
    <2>1. \A r \in Requests : Answered(r, "crashed") \in ReqRecords
      BY AnsweredType DEF Results
    <2> QED BY <1>14, <2>1, EmptySeq DEF Crash, TypeOK
  <1>15. CASE UNCHANGED vars
    BY <1>15 DEF vars, TypeOK
  <1> QED
    BY <1>1, <1>2, <1>3, <1>4, <1>5, <1>6, <1>7, <1>8, <1>9, <1>10, <1>11, <1>12,
       <1>13, <1>14, <1>15 DEF Next, Step

(* The local state of every request, the table and the projections keep     *)
(* their types.                                                             *)
THEOREM TypeCorrect == Spec => []TypeOK
  BY TypeInit, TypeStep, PTL DEF Spec

-----------------------------------------------------------------------------
(* Where a projection stands.                                               *)

LEMMA PrefixPosition ==
    ASSUME TypeOK, ChainIntact, NEW data \in Seq(Log!Events), Log!Prefix(data, rows)
    PROVE  /\ LastId(data) = Len(data)
           /\ LastHash(data) = HashBefore(Len(data) + 1)
           /\ Len(data) \in 0 .. Len(rows)
  <1>1. Len(data) \in Nat /\ Len(rows) \in Nat /\ Len(data) <= Len(rows)
    BY DEF TypeOK, Log!Prefix
  <1>2. CASE data = << >>
    <2>1. Len(data) = 0
      BY <1>2, EmptySeq
    <2> QED BY <2>1, <1>1, <1>2 DEF LastId, LastHash, Log!LastId, Log!LastHash, HashBefore
  <1>3. CASE data # << >>
    <2>1. Len(data) \in 1 .. Len(data) /\ Len(data) \in 1 .. Len(rows)
      BY <1>1, <1>3, EmptySeq
    <2>2. data[Len(data)] = rows[Len(data)]
      BY <2>1 DEF Log!Prefix
    <2>3. rows[Len(data)].id = Len(data)
      BY <2>1 DEF ChainIntact
    <2>4. LastId(data) = Len(data) /\ LastHash(data) = rows[Len(data)].hash
      BY <1>3, <2>2, <2>3 DEF LastId, LastHash, Log!LastId, Log!LastHash
    <2>5. HashBefore(Len(data) + 1) = rows[Len(data)].hash
      BY <2>1, <1>1 DEF HashBefore
    <2> QED BY <1>1, <2>4, <2>5
  <1> QED BY <1>2, <1>3

LEMMA RowsPosition ==
    ASSUME TypeOK, ChainIntact
    PROVE  LastId(rows) = Len(rows) /\ LastHash(rows) = HashBefore(Len(rows) + 1)
  <1>1. Log!Prefix(rows, rows)
    BY DEF Log!Prefix, TypeOK
  <1> QED BY <1>1, PrefixPosition DEF TypeOK

(* What a request finds under the row lock decrypts.                        *)
LEMMA Readable ==
    ASSUME TypeOK, ChainIntact, NEW data \in Seq(Log!Events), Log!Prefix(data, rows),
           NEW start \in Nat, start <= Len(data),
           NEW n \in Missing(start, data)
    PROVE  AadMatches(n, start, data)
  <1>1. /\ LastId(data) = Len(data)
        /\ LastHash(data) = HashBefore(Len(data) + 1)
        /\ Len(data) \in Nat /\ Len(rows) \in Nat
    BY PrefixPosition DEF TypeOK
  <1>2. SkippedTo(start, data) = Len(data)
    BY <1>1 DEF SkippedTo
  <1>3. n \in Len(data) + 1 .. Len(rows) /\ n \in 1 .. Len(rows)
    BY <1>1, <1>2 DEF Missing
  <1>4. (n - 1 \in Missing(start, data)) <=> n # Len(data) + 1
    BY <1>1, <1>2, <1>3 DEF Missing
  <1>5. HashBefore(n) = IF n - 1 \in Missing(start, data) THEN rows[n - 1].hash
                        ELSE LastHash(data)
    BY <1>1, <1>3, <1>4 DEF HashBefore
  <1>6. rows[n].id = n /\ rows[n].hash = ChainHash(HashBefore(n), n, rows[n].kind, rows[n].by)
    BY <1>3 DEF ChainIntact
  <1> QED BY <1>5, <1>6 DEF AadMatches

LEMMA NothingUnreadable == IInv => NeverUnreadable
  <1> SUFFICES ASSUME IInv, NEW r \in Requests, req[r].pc = "locked"
               PROVE  ~Unreadable(req[r].from, proj[Store(r)], Reads[Store(r)])
    BY DEF NeverUnreadable
  <1>1. /\ Store(r) \in Stores /\ proj[Store(r)] \in Seq(Log!Events)
        /\ req[r].from \in Nat
    BY HostAssumption DEF IInv, TypeOK, ReqRecords, Store
  <1>2. Log!Prefix(proj[Store(r)], rows) /\ req[r].from <= Len(proj[Store(r)])
    BY <1>1 DEF IInv, ProjectionIsPrefix, FromBehind
  <1> QED BY <1>1, <1>2, Readable DEF Unreadable, IInv

(* A replay pass leaves the longest prefix the build can decode.            *)
LEMMA ReplayResult ==
    ASSUME TypeOK, ChainIntact, NEW data \in Seq(Log!Events), Log!Prefix(data, rows),
           NEW start \in Nat, start <= Len(data),
           NEW end \in SkippedTo(start, data) .. Len(rows)
    PROVE  /\ end \in Len(data) .. Len(rows)
           /\ Len(ApplyMissing(end, start, data)) = end
           /\ Log!Prefix(ApplyMissing(end, start, data), rows)
           /\ Missing(start, data) = Len(data) + 1 .. Len(rows)
           /\ ChainTip(start, data) = LastHash(rows)
  <1>1. /\ LastId(data) = Len(data)
        /\ LastHash(data) = HashBefore(Len(data) + 1)
        /\ Len(data) \in Nat /\ Len(rows) \in Nat /\ Len(data) <= Len(rows)
    BY PrefixPosition DEF TypeOK
  <1>2. SkippedTo(start, data) = Len(data)
    BY <1>1 DEF SkippedTo
  <1> DEFINE tail == SubSeq(rows, Len(data) + 1, end)
             new == ApplyMissing(end, start, data)
  <1>3. end \in Nat /\ Len(data) <= end /\ end <= Len(rows)
    BY <1>1, <1>2
  <1>4. \A i \in Len(data) + 1 .. end : rows[i] \in Log!Events
    BY <1>1, <1>3, ElementOfSeq DEF TypeOK
  <1>5. /\ tail \in Seq(Log!Events)
        /\ Len(tail) = end - Len(data)
        /\ \A i \in 1 .. end - Len(data) : tail[i] = rows[Len(data) + i]
    BY <1>1, <1>3, <1>4, SubSeqProperties
  <1>6. new = data \o tail
    BY <1>2 DEF ApplyMissing
  <1> HIDE DEF tail, new
  <1>7. /\ Len(new) = Len(data) + Len(tail)
        /\ \A i \in 1 .. Len(data) + Len(tail) :
              new[i] = IF i <= Len(data) THEN data[i] ELSE tail[i - Len(data)]
    BY <1>5, <1>6, ConcatProperties
  <1>8. Len(new) = end
    BY <1>1, <1>3, <1>5, <1>7
  <1>9. ASSUME NEW i \in 1 .. end PROVE new[i] = rows[i]
    <2>1. CASE i <= Len(data)
      <3>1. i \in 1 .. Len(data) /\ i \in 1 .. Len(data) + Len(tail)
        BY <2>1, <1>1, <1>3, <1>5
      <3>2. data[i] = rows[i]
        BY <3>1 DEF Log!Prefix
      <3> QED BY <2>1, <3>1, <3>2, <1>7
    <2>2. CASE i > Len(data)
      <3>1. i - Len(data) \in 1 .. end - Len(data)
        BY <2>2, <1>1, <1>3
      <3>2. tail[i - Len(data)] = rows[i]
        BY <3>1, <1>1, <1>3, <1>5
      <3> QED BY <2>2, <3>2, <1>1, <1>3, <1>5, <1>7, SMTT(40)
    <2> QED BY <2>1, <2>2, <1>1, <1>3
  <1>10. Log!Prefix(new, rows)
    BY <1>3, <1>8, <1>9 DEF Log!Prefix
  <1>11. ChainTip(start, data) = LastHash(rows)
    <2>1. LastHash(rows) = HashBefore(Len(rows) + 1)
      BY RowsPosition
    <2>2. CASE Len(rows) > start
      BY <2>1, <2>2, <1>1 DEF ChainTip, HashBefore
    <2>3. CASE ~(Len(rows) > start)
      <3>1. Len(rows) = Len(data)
        BY <2>3, <1>1
      <3> QED BY <2>1, <2>3, <3>1, <1>1 DEF ChainTip
    <2> QED BY <2>2, <2>3
  <1> QED BY <1>2, <1>3, <1>8, <1>10, <1>11 DEF Missing, new

-----------------------------------------------------------------------------
(* The inductive invariant.                                                 *)

LEMMA InvInit == Init => IInv
  <1> SUFFICES ASSUME Init PROVE IInv
    OBVIOUS
  <1>1. TypeOK
    BY TypeInit
  <1>2. Len(rows) = 0 /\ \A s \in Stores : proj[s] = rows
    BY EmptySeq DEF Init
  <1>3. \A r \in Requests : req[r].pc = "idle"
    BY DEF Init, NewRequest
  <1>4. lock = NoRequest
    BY DEF Init
  <1>5. ChainIntact /\ DecidedOnPredecessor /\ NoAppendPastGap
    BY <1>2 DEF ChainIntact, DecidedOnPredecessor, NoAppendPastGap
  <1>6. ProjectionIsPrefix /\ ProjectionReadable
    BY <1>2 DEF ProjectionIsPrefix, ProjectionReadable, Log!Prefix
  <1>7. LockHeld
    BY <1>3, <1>4, NoRequestAssumption DEF LockHeld
  <1>8. FromBehind /\ ReplayCurrent /\ CommittedStored /\ DecisionsBehind
    BY <1>3 DEF FromBehind, ReplayCurrent, CommittedStored, DecisionsBehind, Writing
  <1>9. StartsWithLoad
    BY DEF Init, StartsWithLoad, NewRequest
  <1> QED BY <1>1, <1>5, <1>6, <1>7, <1>8, <1>9 DEF IInv

(* A step of request r that touches neither the table nor a projection.     *)
LEMMA LocalStep ==
    ASSUME IInv, TypeOK', NEW r \in Requests, NEW x \in ReqRecords, Becomes(r, x),
           rows' = rows, proj' = proj,
           x.pc \in {"locked", "caught"} <=> lock' = r,
           \A q \in Requests : q # r => (lock' = q <=> lock = q),
           x.pc \in {"queued", "locked"} => x.from <= Len(proj[Store(r)]),
           x.pc \notin {"idle", "caught", "committed"},
           x.pc = "handle" /\ x.op = "own" => x.seen <= Len(proj[Store(r)]),
           x.task = "append" /\ x.pc \in {"begin", "queued", "locked"} =>
               /\ x.basis <= Len(proj[Store(r)])
               /\ x.kind \in Reads[Store(r)]
               /\ x.op = "own" => /\ x.seen <= x.basis
                                  /\ x.seen <= Len(proj[Store(r)])
    PROVE  IInv'
  <1>1. /\ req'[r] = x
        /\ \A q \in Requests : q # r => req'[q] = req[q]
    BY DEF Becomes, IInv, TypeOK
  <1>2. ChainIntact' /\ ProjectionIsPrefix' /\ ProjectionReadable'
          /\ DecidedOnPredecessor' /\ NoAppendPastGap'
    BY DEF IInv, ChainIntact, HashBefore, ProjectionIsPrefix, ProjectionReadable,
           DecidedOnPredecessor, NoAppendPastGap, Log!Prefix
  <1>3. LockHeld'
    BY <1>1 DEF IInv, LockHeld
  <1>4. FromBehind'
    BY <1>1 DEF IInv, FromBehind
  <1>5. ReplayCurrent'
    BY <1>1 DEF IInv, ReplayCurrent
  <1>6. CommittedStored'
    BY <1>1 DEF IInv, CommittedStored, InsertedEvent
  <1>7. DecisionsBehind'
    BY <1>1 DEF IInv, DecisionsBehind, Writing
  <1>8. StartsWithLoad'
    BY <1>1 DEF IInv, StartsWithLoad
  <1> QED BY <1>2, <1>3, <1>4, <1>5, <1>6, <1>7, <1>8 DEF IInv

(* A step of request r that applies stored events to the projection of its  *)
(* store.                                                                   *)
LEMMA ProjectionStep ==
    ASSUME IInv, TypeOK', NEW r \in Requests, NEW x \in ReqRecords, Becomes(r, x),
           rows' = rows, lock' = lock,
           NEW data \in Seq(Log!Events), proj' = [proj EXCEPT ![Store(r)] = data],
           Log!Prefix(data, rows), Len(proj[Store(r)]) <= Len(data),
           \A n \in 1 .. Len(data) : rows[n].kind \in Reads[Store(r)],
           x.pc \in {"caught", "handle", "done"},
           x.pc = "caught" <=> lock = r,
           x.pc = "caught" => /\ x.replay.last = Len(rows)
                              /\ x.replay.tip = LastHash(rows)
                              /\ x.replay.gap = 0 => Len(data) = Len(rows),
           x.pc = "handle" /\ x.op = "own" => x.seen <= Len(data),
           x.task = "append" /\ x.pc = "caught" =>
               /\ x.basis <= Len(data)
               /\ x.kind \in Reads[Store(r)]
               /\ x.op = "own" => x.seen <= x.basis /\ x.seen <= Len(data)
    PROVE  IInv'
  <1>1. /\ req'[r] = x
        /\ \A q \in Requests : q # r => req'[q] = req[q]
    BY DEF Becomes, IInv, TypeOK
  <1>2. \A q \in Requests : Store(q) \in Stores
    BY HostAssumption DEF Store
  <1>3. /\ proj'[Store(r)] = data
        /\ \A s \in Stores : s # Store(r) => proj'[s] = proj[s]
    BY <1>2 DEF IInv, TypeOK
  <1>4. /\ Len(data) \in Nat /\ Len(rows) \in Nat /\ Len(data) <= Len(rows)
        /\ \A s \in Stores : Len(proj[s]) \in Nat
    BY DEF IInv, TypeOK, Log!Prefix
  <1>5. \A s \in Stores : Len(proj[s]) <= Len(proj'[s])
    BY <1>3, <1>4
  <1>6. ChainIntact' /\ DecidedOnPredecessor' /\ NoAppendPastGap'
    BY DEF IInv, ChainIntact, HashBefore, DecidedOnPredecessor, NoAppendPastGap
  <1>7. ProjectionIsPrefix'
    BY <1>3 DEF IInv, ProjectionIsPrefix, Log!Prefix
  <1>8. ProjectionReadable'
    BY <1>3 DEF IInv, ProjectionReadable
  <1>9. LockHeld'
    BY <1>1 DEF IInv, LockHeld
  <1>10. FromBehind'
    <2> SUFFICES ASSUME NEW q \in Requests, req'[q].pc \in {"queued", "locked"}
                 PROVE  req'[q].from <= Len(proj'[Store(q)])
      BY DEF FromBehind
    <2>1. q # r /\ req'[q] = req[q]
      BY <1>1
    <2>2. req[q].from <= Len(proj[Store(q)]) /\ req[q].from \in Nat
      BY <2>1 DEF IInv, FromBehind, TypeOK, ReqRecords
    <2>3. /\ Len(proj[Store(q)]) <= Len(proj'[Store(q)])
          /\ Len(proj[Store(q)]) \in Nat /\ Len(proj'[Store(q)]) \in Nat
      BY <1>2, <1>3, <1>4, <1>5
    <2> QED BY <2>1, <2>2, <2>3
  <1>11. ReplayCurrent'
    <2> SUFFICES ASSUME NEW q \in Requests, req'[q].pc = "caught"
                 PROVE  /\ req'[q].replay.last = Len(rows)
                        /\ req'[q].replay.tip = LastHash(rows)
                        /\ req'[q].replay.gap = 0 => Len(proj'[Store(q)]) = Len(rows)
      BY DEF ReplayCurrent
    <2>1. CASE q = r
      BY <2>1, <1>1, <1>3
    <2>2. CASE q # r
      <3>1. req[q].pc = "caught" /\ lock = q
        BY <2>2, <1>1 DEF IInv, LockHeld
      <3>2. x.pc \in {"handle", "done"}
        BY <2>2, <3>1
      <3>3. /\ req[q].replay.last = Len(rows)
            /\ req[q].replay.tip = LastHash(rows)
            /\ req[q].replay.gap = 0 => Len(proj[Store(q)]) = Len(rows)
        BY <3>1 DEF IInv, ReplayCurrent
      <3>4. Len(proj[Store(q)]) = Len(rows) => Len(proj'[Store(q)]) = Len(rows)
        <4>1. CASE Store(q) = Store(r)
          BY <4>1, <1>3, <1>4
        <4>2. CASE Store(q) # Store(r)
          BY <4>2, <1>2, <1>3
        <4> QED BY <4>1, <4>2
      <3> QED BY <2>2, <3>3, <3>4, <1>1
    <2> QED BY <2>1, <2>2
  <1>12. CommittedStored'
    <2> SUFFICES ASSUME NEW q \in Requests, req'[q].pc = "committed"
                 PROVE  /\ req'[q].replay.last + 1 <= Len(rows)
                        /\ rows[req'[q].replay.last + 1] = InsertedEvent(q)'
                        /\ req'[q].replay.last <= Len(proj'[Store(q)])
      BY DEF CommittedStored
    <2>1. q # r /\ req'[q] = req[q]
      BY <1>1
    <2>2. /\ req[q].replay.last + 1 <= Len(rows)
          /\ rows[req[q].replay.last + 1] = InsertedEvent(q)
          /\ req[q].replay.last <= Len(proj[Store(q)])
      BY <2>1 DEF IInv, CommittedStored
    <2>3. InsertedEvent(q)' = InsertedEvent(q)
      BY <2>1 DEF InsertedEvent
    <2>4. req[q].replay.last \in Nat
      <3>1. req[q].replay \in Replays
        BY DEF IInv, TypeOK, ReqRecords
      <3> QED BY <3>1 DEF Replays
    <2>5. /\ Len(proj[Store(q)]) <= Len(proj'[Store(q)])
          /\ Len(proj[Store(q)]) \in Nat /\ Len(proj'[Store(q)]) \in Nat
      BY <1>2, <1>3, <1>4, <1>5
    <2> QED BY <2>1, <2>2, <2>3, <2>4, <2>5
  <1>13. DecisionsBehind'
    <2> SUFFICES ASSUME NEW q \in Requests
                 PROVE  /\ req'[q].op = "own" /\ (req'[q].pc = "handle" \/ Writing(q)')
                              => req'[q].seen <= Len(proj'[Store(q)])
                        /\ Writing(q)' => /\ req'[q].basis <= Len(proj'[Store(q)])
                                          /\ req'[q].kind \in Reads[Store(q)]
                        /\ Writing(q)' /\ req'[q].op = "own" => req'[q].seen <= req'[q].basis
                        /\ req'[q].pc = "committed" =>
                              /\ Writing(q)'
                              /\ req'[q].op = "own" => req'[q].seen = req'[q].replay.last
      BY DEF DecisionsBehind
    <2>1. CASE q = r
      BY <2>1, <1>1, <1>3 DEF Writing
    <2>2. CASE q # r
      <3>1. req'[q] = req[q] /\ (Writing(q)' <=> Writing(q))
        BY <2>2, <1>1 DEF Writing
      <3>2. req[q].seen \in Nat /\ req[q].basis \in Nat
        BY DEF IInv, TypeOK, ReqRecords
      <3>3. /\ Len(proj[Store(q)]) <= Len(proj'[Store(q)])
            /\ Len(proj[Store(q)]) \in Nat /\ Len(proj'[Store(q)]) \in Nat
        BY <1>2, <1>3, <1>4, <1>5
      <3>4. /\ req[q].op = "own" /\ (req[q].pc = "handle" \/ Writing(q))
                  => req[q].seen <= Len(proj[Store(q)])
            /\ Writing(q) => /\ req[q].basis <= Len(proj[Store(q)])
                             /\ req[q].kind \in Reads[Store(q)]
            /\ Writing(q) /\ req[q].op = "own" => req[q].seen <= req[q].basis
            /\ req[q].pc = "committed" =>
                  /\ Writing(q)
                  /\ req[q].op = "own" => req[q].seen = req[q].replay.last
        BY DEF IInv, DecisionsBehind
      <3>5. ASSUME NEW a \in Nat, a <= Len(proj[Store(q)]) PROVE a <= Len(proj'[Store(q)])
        BY <3>3, <3>5
      <3> QED BY <3>1, <3>2, <3>4, <3>5
    <2> QED BY <2>1, <2>2
  <1>14. StartsWithLoad'
    BY <1>1 DEF IInv, StartsWithLoad
  <1> QED BY <1>6, <1>7, <1>8, <1>9, <1>10, <1>11, <1>12, <1>13, <1>14 DEF IInv

LEMMA AnsweredFields ==
    ASSUME NEW r, NEW a
    PROVE  Answered(r, a).pc = "done"
  BY DEF Answered, NewRequest

LEMMA ReturnedFields ==
    ASSUME TypeOK, NEW r \in Requests, NEW p
    PROVE  /\ [Returned(r) EXCEPT !.pc = p].pc = p
           /\ [Returned(r) EXCEPT !.pc = p].task = "load"
           /\ [Returned(r) EXCEPT !.pc = p].op = req[r].op
           /\ [Returned(r) EXCEPT !.pc = p].seen = req[r].seen
  BY DEF Returned, TypeOK, ReqRecords

(* A request that ends without a commit.                                    *)
LEMMA AnswerStep ==
    ASSUME IInv, TypeOK', NEW r \in Requests, NEW a \in Results, Becomes(r, Answered(r, a)),
           rows' = rows, proj' = proj,
           lock' # r, \A q \in Requests : q # r => (lock' = q <=> lock = q)
    PROVE  IInv'
  <1>1. Answered(r, a) \in ReqRecords
    BY AnsweredType DEF IInv
  <1> QED BY <1>1, LocalStep, AnsweredFields

(* An open transaction ends: nobody holds the row.                          *)
LEMMA Released ==
    ASSUME IInv, NEW r \in Requests, req[r].pc \in {"locked", "caught"}, lock' = NoRequest
    PROVE  lock' # r /\ \A q \in Requests : q # r => (lock' = q <=> lock = q)
  BY NoRequestAssumption DEF IInv, LockHeld

LEMMA ArriveInv ==
    ASSUME IInv, TypeOK', NEW r \in Requests, NEW o \in Log!Ops, Arrive(r, o)
    PROVE  IInv'
  <1> DEFINE p == IF o # "own" /\ Store(r) \in cached THEN "handle" ELSE "begin"
             x == [req[r] EXCEPT !.op = o, !.pc = p, !.tries = Attempts]
  <1>1. req[r] \in ReqRecords /\ Len(rows) \in Nat
    BY DEF IInv, TypeOK
  <1>2. p \in {"handle", "begin"} /\ p \in PCs /\ (p = "handle" => o # "own")
    BY DEF PCs
  <1> HIDE DEF p
  <1>3. x \in ReqRecords
    BY <1>1, <1>2, AttemptsAssumption DEF ReqRecords
  <1>4. x.pc = p /\ x.op = o /\ x.task = req[r].task
    BY <1>1 DEF ReqRecords
  <1>5. req[r].task = "load"
    BY DEF IInv, StartsWithLoad, Arrive
  <1>6. lock # r
    BY DEF IInv, LockHeld, Arrive
  <1>7. Becomes(r, x) /\ rows' = rows /\ proj' = proj /\ lock' = lock
    BY DEF Arrive, p
  <1> QED BY <1>2, <1>3, <1>4, <1>5, <1>6, <1>7, LocalStep

LEMMA ReadPositionInv ==
    ASSUME IInv, TypeOK', NEW r \in Requests, ReadPosition(r)
    PROVE  IInv'
  <1> DEFINE x == [req[r] EXCEPT !.pc = "queued", !.from = Position(r)]
  <1>1. req[r] \in ReqRecords /\ Position(r) \in Nat
    BY PositionType DEF IInv, TypeOK
  <1>2. x \in ReqRecords
    BY <1>1 DEF ReqRecords, PCs
  <1>3. /\ x.pc = "queued" /\ x.from = Position(r) /\ x.task = req[r].task
        /\ x.op = req[r].op /\ x.seen = req[r].seen /\ x.basis = req[r].basis
        /\ x.kind = req[r].kind
    BY <1>1 DEF ReqRecords
  <1>4. Position(r) = Len(proj[Store(r)])
    BY HostAssumption, PrefixPosition DEF IInv, TypeOK, ProjectionIsPrefix, Position, Store
  <1>5. lock # r
    BY DEF IInv, LockHeld, ReadPosition
  <1>6. Becomes(r, x) /\ rows' = rows /\ proj' = proj /\ lock' = lock
    BY DEF ReadPosition
  <1>7. req[r].task = "append" =>
               /\ req[r].basis <= Len(proj[Store(r)])
               /\ req[r].kind \in Reads[Store(r)]
               /\ req[r].op = "own" => /\ req[r].seen <= req[r].basis
                                       /\ req[r].seen <= Len(proj[Store(r)])
    BY DEF IInv, DecisionsBehind, Writing, ReadPosition
  <1>8. Len(proj[Store(r)]) \in Nat
    BY HostAssumption DEF IInv, TypeOK, Store
  <1> HIDE DEF x
  <1> QED BY <1>2, <1>3, <1>4, <1>5, <1>6, <1>7, <1>8, LocalStep

LEMMA LockStreamInv ==
    ASSUME IInv, TypeOK', NEW r \in Requests, LockStream(r)
    PROVE  IInv'
  <1> DEFINE x == [req[r] EXCEPT !.pc = "locked"]
  <1>1. req[r] \in ReqRecords
    BY DEF IInv, TypeOK
  <1>2. x \in ReqRecords
    BY <1>1 DEF ReqRecords, PCs
  <1>3. /\ x.pc = "locked" /\ x.from = req[r].from /\ x.task = req[r].task
        /\ x.op = req[r].op /\ x.seen = req[r].seen /\ x.basis = req[r].basis
        /\ x.kind = req[r].kind
    BY <1>1 DEF ReqRecords
  <1>4. Becomes(r, x) /\ rows' = rows /\ proj' = proj /\ lock' = r /\ lock = NoRequest
    BY DEF LockStream
  <1>5. req[r].from <= Len(proj[Store(r)])
    BY DEF IInv, FromBehind, LockStream
  <1>6. req[r].task = "append" =>
               /\ req[r].basis <= Len(proj[Store(r)])
               /\ req[r].kind \in Reads[Store(r)]
               /\ req[r].op = "own" => /\ req[r].seen <= req[r].basis
                                       /\ req[r].seen <= Len(proj[Store(r)])
    BY DEF IInv, DecisionsBehind, Writing, LockStream
  <1> HIDE DEF x
  <1> QED BY <1>2, <1>3, <1>4, <1>5, <1>6, NoRequestAssumption, LocalStep

LEMMA CatchUpInv ==
    ASSUME IInv, TypeOK', NEW r \in Requests, CatchUp(r)
    PROVE  IInv'
  <1> DEFINE s == Store(r)
             start == req[r].from
             data == proj[s]
  <1>1. /\ s \in Stores /\ data \in Seq(Log!Events) /\ start \in Nat
        /\ Len(data) \in Nat /\ Len(rows) \in Nat /\ req[r] \in ReqRecords
    <2>1. s \in Stores /\ req[r] \in ReqRecords
      BY HostAssumption DEF Store, IInv, TypeOK
    <2>2. data \in Seq(Log!Events) /\ rows \in Seq(Log!Events)
      BY <2>1 DEF IInv, TypeOK
    <2>3. start \in Nat
      BY <2>1 DEF ReqRecords
    <2> QED BY <2>1, <2>2, <2>3
  <1>2. Log!Prefix(data, rows) /\ start <= Len(data) /\ lock = r
    BY <1>1 DEF IInv, ProjectionIsPrefix, FromBehind, LockHeld, CatchUp
  <1>3. PICK end \in SkippedTo(start, data) .. Len(rows) :
          /\ StopsAt(end, start, data, Reads[s])
          /\ proj' = [proj EXCEPT ![s] = ApplyMissing(end, start, data)]
          /\ Becomes(r, [req[r] EXCEPT
                           !.pc = "caught",
                           !.replay = [last |-> Len(rows),
                                       tip |-> ChainTip(start, data),
                                       gap |-> TruncatedAt(end)]])
    BY DEF CatchUp
  <1> DEFINE new == ApplyMissing(end, start, data)
             p == [last |-> Len(rows), tip |-> ChainTip(start, data), gap |-> TruncatedAt(end)]
             x == [req[r] EXCEPT !.pc = "caught", !.replay = p]
  <1>4. /\ end \in Len(data) .. Len(rows)
        /\ Len(new) = end
        /\ Log!Prefix(new, rows)
        /\ Missing(start, data) = Len(data) + 1 .. Len(rows)
        /\ ChainTip(start, data) = LastHash(rows)
    BY <1>1, <1>2, ReplayResult DEF IInv
  <1>5. new \in Seq(Log!Events)
    BY <1>1, ApplyMissingType DEF IInv
  <1>6. \A n \in 1 .. end : rows[n].kind \in Reads[s]
    <2> SUFFICES ASSUME NEW n \in 1 .. end PROVE rows[n].kind \in Reads[s]
      OBVIOUS
    <2>1. CASE n <= Len(data)
      BY <2>1, <1>1, <1>4 DEF IInv, ProjectionReadable
    <2>2. CASE n > Len(data)
      BY <2>2, <1>1, <1>3, <1>4 DEF StopsAt
    <2> QED BY <2>1, <2>2, <1>1
  <1>7. p \in Replays
    <2>1. TruncatedAt(end) \in Nat
      BY <1>1, <1>4 DEF TruncatedAt
    <2> QED BY <2>1, <1>1, ChainTipType DEF Replays, IInv
  <1>8. /\ p.last = Len(rows) /\ p.tip = LastHash(rows)
        /\ p.gap = 0 => end = Len(rows)
    BY <1>1, <1>4 DEF TruncatedAt
  <1>9. rows' = rows /\ lock' = lock /\ req[r].pc = "locked"
    BY DEF CatchUp
  <1>10. req[r].task = "append" =>
               /\ req[r].basis <= Len(data)
               /\ req[r].kind \in Reads[s]
               /\ req[r].op = "own" => /\ req[r].seen <= req[r].basis
                                       /\ req[r].seen <= Len(data)
    BY <1>9 DEF IInv, DecisionsBehind, Writing
  <1>11. req[r].basis \in Nat /\ req[r].seen \in Nat
    BY <1>1 DEF ReqRecords
  <1>12. Len(data) <= end /\ end \in Nat
    BY <1>1, <1>4
  <1> HIDE DEF p, new, data, start
  <1>13. x \in ReqRecords
    BY <1>1, <1>7 DEF ReqRecords, PCs
  <1>14. /\ x.pc = "caught" /\ x.replay = p /\ x.task = req[r].task
         /\ x.op = req[r].op /\ x.seen = req[r].seen /\ x.basis = req[r].basis
         /\ x.kind = req[r].kind
    BY <1>1 DEF ReqRecords
  <1>15. Becomes(r, x) /\ proj' = [proj EXCEPT ![Store(r)] = new]
    BY <1>3 DEF p, new, data, start
  <1>16. Len(proj[Store(r)]) = Len(data)
    BY DEF data
  <1> HIDE DEF x
  <1>17. x.task = "append" =>
               /\ x.basis <= Len(new)
               /\ x.kind \in Reads[Store(r)]
               /\ x.op = "own" => x.seen <= x.basis /\ x.seen <= Len(new)
    BY <1>1, <1>4, <1>10, <1>11, <1>12, <1>14
  <1>18. x.replay.last = Len(rows) /\ x.replay.tip = LastHash(rows)
           /\ (x.replay.gap = 0 => Len(new) = Len(rows))
    BY <1>4, <1>8, <1>14
  <1> QED
    BY <1>2, <1>4, <1>5, <1>6, <1>9, <1>12, <1>13, <1>14, <1>15, <1>16, <1>17, <1>18,
       ProjectionStep

LEMMA EndLoadInv ==
    ASSUME IInv, TypeOK', NEW r \in Requests, EndLoad(r)
    PROVE  IInv'
  <1> DEFINE p == IF req[r].op = "own" THEN "loaded" ELSE "handle"
             x == [Returned(r) EXCEPT !.pc = p]
  <1>1. p \in {"loaded", "handle"} /\ p \in PCs /\ (p = "handle" => req[r].op # "own")
    BY DEF PCs
  <1>2. Becomes(r, x) /\ rows' = rows /\ proj' = proj /\ lock' = NoRequest
          /\ req[r].pc = "caught"
    BY DEF EndLoad
  <1> HIDE DEF p
  <1>3. x \in ReqRecords
    BY <1>1, ReturnedType DEF ReqRecords, IInv
  <1>4. x.pc = p /\ x.task = "load" /\ x.op = req[r].op
    BY ReturnedFields DEF IInv
  <1>5. lock' # r /\ \A q \in Requests : q # r => (lock' = q <=> lock = q)
    BY <1>2, Released
  <1> HIDE DEF x
  <1> QED BY <1>1, <1>2, <1>3, <1>4, <1>5, LocalStep

LEMMA OpenHandleInv ==
    ASSUME IInv, TypeOK', NEW r \in Requests, OpenHandle(r)
    PROVE  IInv'
  <1> DEFINE x == [req[r] EXCEPT !.pc = "handle", !.seen = Position(r)]
  <1>1. req[r] \in ReqRecords /\ Position(r) \in Nat
    BY PositionType DEF IInv, TypeOK
  <1>2. x \in ReqRecords
    BY <1>1 DEF ReqRecords, PCs
  <1>3. x.pc = "handle" /\ x.seen = Position(r)
    BY <1>1 DEF ReqRecords
  <1>4. Position(r) = Len(proj[Store(r)])
    BY HostAssumption, PrefixPosition DEF IInv, TypeOK, ProjectionIsPrefix, Position, Store
  <1>5. Becomes(r, x) /\ rows' = rows /\ proj' = proj /\ lock' = lock
    BY DEF OpenHandle
  <1>6. lock # r
    BY DEF IInv, LockHeld, OpenHandle
  <1> HIDE DEF x
  <1> QED BY <1>1, <1>2, <1>3, <1>4, <1>5, <1>6, LocalStep

LEMMA DecideInv ==
    ASSUME IInv, TypeOK', NEW r \in Requests, NEW k \in Kinds, Decide(r, k)
    PROVE  IInv'
  <1> DEFINE x == [req[r] EXCEPT !.pc = "begin", !.task = "append", !.kind = k,
                                 !.basis = Position(r)]
  <1>1. req[r] \in ReqRecords /\ Position(r) \in Nat
    BY PositionType DEF IInv, TypeOK
  <1>2. x \in ReqRecords
    BY <1>1 DEF ReqRecords, PCs
  <1>3. /\ x.pc = "begin" /\ x.kind = k /\ x.basis = Position(r)
        /\ x.op = req[r].op /\ x.seen = req[r].seen
    BY <1>1 DEF ReqRecords
  <1>4. Position(r) = Len(proj[Store(r)])
    BY HostAssumption, PrefixPosition DEF IInv, TypeOK, ProjectionIsPrefix, Position, Store
  <1>5. Becomes(r, x) /\ rows' = rows /\ proj' = proj /\ lock' = lock /\ k \in Reads[Store(r)]
    BY DEF Decide
  <1>6. lock # r
    BY DEF IInv, LockHeld, Decide
  <1>7. req[r].op = "own" => req[r].seen <= Len(proj[Store(r)])
    BY DEF IInv, DecisionsBehind, Decide
  <1> HIDE DEF x
  <1> QED BY <1>1, <1>2, <1>3, <1>4, <1>5, <1>6, <1>7, LocalStep

LEMMA ConflictInv ==
    ASSUME IInv, TypeOK', NEW r \in Requests, Conflict(r)
    PROVE  IInv'
  <1>1. rows' = rows /\ proj' = proj /\ lock' = NoRequest /\ req[r].pc = "caught"
    BY DEF Conflict, Appending
  <1>2. lock' # r /\ \A q \in Requests : q # r => (lock' = q <=> lock = q)
    BY <1>1, Released
  <1>3. ASSUME NEW a \in Results, Becomes(r, Answered(r, a)) PROVE IInv'
    BY <1>1, <1>2, <1>3, AnswerStep
  <1> DEFINE x == [Returned(r) EXCEPT !.pc = "handle", !.tries = @ - 1]
  <1>4. CASE req[r].op = "when" /\ req[r].tries > 1 /\ Becomes(r, x)
    <2>1. Returned(r) \in ReqRecords /\ Returned(r).tries = req[r].tries /\ req[r].tries \in Nat
      BY ReturnedType DEF Returned, IInv, TypeOK, ReqRecords
    <2>2. ASSUME NEW n \in Nat
          PROVE [Returned(r) EXCEPT !.pc = "handle", !.tries = n] \in ReqRecords
      BY <2>1 DEF ReqRecords, PCs
    <2>3. Returned(r).tries - 1 \in Nat
      BY <2>1, <1>4
    <2>4. x \in ReqRecords
      BY <2>2, <2>3
    <2>5. x.pc = "handle" /\ x.op = req[r].op
      BY DEF Returned, IInv, TypeOK, ReqRecords
    <2> HIDE DEF x
    <2> QED BY <1>1, <1>2, <1>4, <2>4, <2>5, LocalStep
  <1> QED BY <1>3, <1>4 DEF Conflict, Results

(* What the transaction that is about to commit knows.                      *)
LEMMA CommitFacts ==
    ASSUME IInv, NEW r \in Requests, Commit(r)
    PROVE  /\ InsertedEvent(r) = Log!NewEvent(rows, req[r].kind, r, req[r].op, req[r].basis)
           /\ req[r].op \in Log!ConditionalOps => req[r].basis = Len(rows)
           /\ req[r].basis \in 0 .. Len(rows)
           /\ \A n \in 1 .. Len(rows) : rows[n].kind \in Reads[Store(r)]
           /\ req[r].kind \in Reads[Store(r)]
           /\ Len(proj[Store(r)]) = Len(rows)
           /\ req[r].replay.last = Len(rows)
           /\ req[r].op = "own" => req[r].seen = Len(rows)
  <1>1. /\ req[r].pc = "caught" /\ req[r].task = "append"
        /\ req[r].replay.gap = 0 /\ ExpectedMatches(r)
    BY DEF Commit, Appending
  <1>2. /\ req[r].replay.last = Len(rows)
        /\ req[r].replay.tip = LastHash(rows)
        /\ Len(proj[Store(r)]) = Len(rows)
    BY <1>1 DEF IInv, ReplayCurrent
  <1>3. /\ req[r].basis <= Len(rows)
        /\ req[r].kind \in Reads[Store(r)]
        /\ req[r].op = "own" => req[r].seen <= req[r].basis
    BY <1>1, <1>2 DEF IInv, DecisionsBehind, Writing
  <1>4. Len(rows) \in Nat /\ req[r].basis \in Nat /\ req[r].seen \in Nat
    BY DEF IInv, TypeOK, ReqRecords
  <1>5. /\ req[r].op = "own" => req[r].seen = Len(rows)
        /\ req[r].op = "when" => req[r].basis = Len(rows)
    BY <1>1, <1>2 DEF ExpectedMatches, Expected, Log!ConditionalOps
  <1>6. req[r].op \in Log!ConditionalOps => req[r].basis = Len(rows)
    BY <1>3, <1>4, <1>5 DEF Log!ConditionalOps
  <1>7. Store(r) \in Stores
    BY HostAssumption DEF Store
  <1>8. \A n \in 1 .. Len(rows) : rows[n].kind \in Reads[Store(r)]
    BY <1>2, <1>7 DEF IInv, ProjectionReadable
  <1>9. InsertedEvent(r) = Log!NewEvent(rows, req[r].kind, r, req[r].op, req[r].basis)
    BY <1>2 DEF InsertedEvent, Log!NewEvent, ChainHash, LastHash
  <1> QED BY <1>2, <1>3, <1>4, <1>5, <1>6, <1>8, <1>9

LEMMA CommitInv ==
    ASSUME IInv, TypeOK', NEW r \in Requests, Commit(r)
    PROVE  IInv'
  <1> DEFINE e == InsertedEvent(r)
             x == req'[r]
  <1>1. /\ Len(rows) \in Nat /\ rows \in Seq(Log!Events) /\ e \in Log!Events
        /\ rows' = Append(rows, e) /\ proj' = proj /\ lock' = NoRequest
    BY InsertedEventType DEF IInv, TypeOK, Commit
  <1>2. /\ Len(rows') = Len(rows) + 1
        /\ rows'[Len(rows) + 1] = e
        /\ \A n \in 1 .. Len(rows) : rows'[n] = rows[n]
    BY <1>1, AppendProperties
  <1>3. /\ e.id = Len(rows) + 1
        /\ e.hash = ChainHash(LastHash(rows), Len(rows) + 1, req[r].kind, r)
        /\ e.kind = req[r].kind /\ e.by = r /\ e.op = req[r].op /\ e.basis = req[r].basis
    BY CommitFacts DEF Log!NewEvent, ChainHash, LastHash
  <1>4. LastHash(rows) = HashBefore(Len(rows) + 1)
    BY RowsPosition DEF IInv
  <1>5. ChainIntact'
    <2> SUFFICES ASSUME NEW n \in 1 .. Len(rows')
                 PROVE  /\ rows'[n].id = n
                        /\ rows'[n].hash = ChainHash(HashBefore(n)', n, rows'[n].kind, rows'[n].by)
      BY DEF ChainIntact, ChainHash, Log!ChainHash
    <2>1. HashBefore(n)' = HashBefore(n)
      BY <1>1, <1>2 DEF HashBefore, Log!GenesisHash
    <2>2. CASE n \in 1 .. Len(rows)
      BY <2>1, <2>2, <1>2 DEF IInv, ChainIntact
    <2>3. CASE n = Len(rows) + 1
      BY <2>1, <2>3, <1>2, <1>3, <1>4
    <2> QED BY <2>2, <2>3, <1>1, <1>2
  <1>6. ProjectionIsPrefix'
    <2>1. ASSUME NEW s \in Stores PROVE Log!Prefix(proj[s], rows')
      <3>1. Len(proj[s]) <= Len(rows) /\ \A n \in 1 .. Len(proj[s]) : proj[s][n] = rows[n]
        BY DEF IInv, ProjectionIsPrefix, Log!Prefix
      <3>2. Len(proj[s]) \in Nat
        BY DEF IInv, TypeOK
      <3> QED BY <3>1, <3>2, <1>1, <1>2 DEF Log!Prefix
    <2> QED BY <2>1, <1>1 DEF ProjectionIsPrefix, Log!Prefix
  <1>7. ProjectionReadable'
    <2> SUFFICES ASSUME NEW s \in Stores, NEW n \in 1 .. Len(proj[s])
                 PROVE  rows'[n].kind \in Reads[s]
      BY <1>1 DEF ProjectionReadable
    <2>1. Len(proj[s]) <= Len(rows) /\ Len(proj[s]) \in Nat
      BY DEF IInv, ProjectionIsPrefix, Log!Prefix, TypeOK
    <2>2. n \in 1 .. Len(rows)
      BY <2>1, <1>1
    <2> QED BY <2>2, <1>2 DEF IInv, ProjectionReadable
  <1>8. DecidedOnPredecessor'
    <2> SUFFICES ASSUME NEW n \in 1 .. Len(rows'), rows'[n].op \in Log!ConditionalOps
                 PROVE  rows'[n].basis = n - 1
      BY DEF DecidedOnPredecessor, Log!ConditionalOps
    <2>1. CASE n \in 1 .. Len(rows)
      BY <2>1, <1>2 DEF IInv, DecidedOnPredecessor
    <2>2. CASE n = Len(rows) + 1
      BY <2>2, <1>1, <1>2, <1>3, CommitFacts
    <2> QED BY <2>1, <2>2, <1>1, <1>2
  <1>9. NoAppendPastGap'
    <2> SUFFICES ASSUME NEW n \in 1 .. Len(rows'), NEW m \in 1 .. n
                 PROVE  rows'[m].kind \in Reads[Store(rows'[n].by)]
      BY DEF NoAppendPastGap, Store
    <2>1. CASE n \in 1 .. Len(rows)
      <3>1. m \in 1 .. Len(rows)
        BY <2>1, <1>1
      <3> QED BY <2>1, <3>1, <1>2 DEF IInv, NoAppendPastGap
    <2>2. CASE n = Len(rows) + 1
      <3>1. rows'[n].by = r
        BY <2>2, <1>2, <1>3
      <3>2. CASE m \in 1 .. Len(rows)
        BY <3>1, <3>2, <1>2, CommitFacts
      <3>3. CASE m = Len(rows) + 1
        BY <3>1, <3>3, <1>2, <1>3, CommitFacts
      <3> QED BY <2>2, <3>2, <3>3, <1>1
    <2> QED BY <2>1, <2>2, <1>1, <1>2
  <1>10. req[r].pc = "caught" /\ lock = r
    BY DEF Commit, Appending, IInv, LockHeld
  <1>11. /\ req' = [req EXCEPT ![r] = x]
         /\ \A q \in Requests : q # r => req'[q] = req[q]
         /\ \/ x = [req[r] EXCEPT !.pc = "committed"]
            \/ x.pc = "done"
    BY AnsweredFields DEF Commit, Becomes, IInv, TypeOK
  <1>12. x.pc = "committed" =>
            /\ x.replay = req[r].replay /\ x.task = req[r].task /\ x.op = req[r].op
            /\ x.seen = req[r].seen /\ x.basis = req[r].basis /\ x.kind = req[r].kind
    BY <1>11, ZenonT(40) DEF IInv, TypeOK, ReqRecords
  <1>13. x.pc \in {"committed", "done"}
    BY <1>11 DEF IInv, TypeOK, ReqRecords
  <1>14. \A q \in Requests : req'[q].pc \notin {"locked", "caught"}
    <2> SUFFICES ASSUME NEW q \in Requests PROVE req'[q].pc \notin {"locked", "caught"}
      OBVIOUS
    <2>1. CASE q = r
      BY <2>1, <1>13
    <2>2. CASE q # r
      BY <2>2, <1>10, <1>11 DEF IInv, LockHeld
    <2> QED BY <2>1, <2>2
  <1>15. LockHeld'
    BY <1>1, <1>14, NoRequestAssumption DEF LockHeld
  <1>16. FromBehind' /\ ReplayCurrent' /\ StartsWithLoad'
    <2>1. FromBehind'
      <3> SUFFICES ASSUME NEW q \in Requests, req'[q].pc \in {"queued", "locked"}
                   PROVE  req'[q].from <= Len(proj[Store(q)])
        BY <1>1 DEF FromBehind, Store
      <3>1. q # r
        BY <1>13
      <3> QED BY <3>1, <1>11 DEF IInv, FromBehind
    <2>2. ReplayCurrent'
      BY <1>14 DEF ReplayCurrent
    <2>3. StartsWithLoad'
      BY <1>11, <1>13 DEF IInv, StartsWithLoad
    <2> QED BY <2>1, <2>2, <2>3
  <1>17. CommittedStored'
    <2> SUFFICES ASSUME NEW q \in Requests, req'[q].pc = "committed"
                 PROVE  /\ req'[q].replay.last + 1 <= Len(rows')
                        /\ rows'[req'[q].replay.last + 1] = InsertedEvent(q)'
                        /\ req'[q].replay.last <= Len(proj[Store(q)])
      BY <1>1 DEF CommittedStored, Store
    <2>1. CASE q = r
      <3>1. InsertedEvent(r)' = e
        BY <2>1, <1>12 DEF InsertedEvent
      <3> QED BY <2>1, <3>1, <1>1, <1>2, <1>12, CommitFacts
    <2>2. CASE q # r
      <3>1. req'[q] = req[q] /\ InsertedEvent(q)' = InsertedEvent(q)
        BY <2>2, <1>11 DEF InsertedEvent
      <3>2. /\ req[q].replay.last + 1 <= Len(rows)
            /\ rows[req[q].replay.last + 1] = InsertedEvent(q)
            /\ req[q].replay.last <= Len(proj[Store(q)])
        BY <3>1 DEF IInv, CommittedStored
      <3>3. req[q].replay.last \in Nat
        <4>1. req[q].replay \in Replays
          BY DEF IInv, TypeOK, ReqRecords
        <4> QED BY <4>1 DEF Replays
      <3> QED BY <3>1, <3>2, <3>3, <1>1, <1>2
    <2> QED BY <2>1, <2>2
  <1>18. DecisionsBehind'
    <2> SUFFICES ASSUME NEW q \in Requests
                 PROVE  /\ req'[q].op = "own" /\ (req'[q].pc = "handle" \/ Writing(q)')
                              => req'[q].seen <= Len(proj[Store(q)])
                        /\ Writing(q)' => /\ req'[q].basis <= Len(proj[Store(q)])
                                          /\ req'[q].kind \in Reads[Store(q)]
                        /\ Writing(q)' /\ req'[q].op = "own" => req'[q].seen <= req'[q].basis
                        /\ req'[q].pc = "committed" =>
                              /\ Writing(q)'
                              /\ req'[q].op = "own" => req'[q].seen = req'[q].replay.last
      BY <1>1 DEF DecisionsBehind, Store
    <2>1. CASE q = r
      <3>1. req[r].basis \in Nat /\ req[r].seen \in Nat /\ req[r].task = "append"
        BY DEF IInv, TypeOK, ReqRecords, Commit, Appending
      <3>2. req[r].op = "own" => req[r].basis = Len(rows)
        BY CommitFacts DEF Log!ConditionalOps
      <3> QED BY <2>1, <3>1, <3>2, <1>1, <1>12, <1>13, CommitFacts DEF Writing
    <2>2. CASE q # r
      <3>1. req'[q] = req[q] /\ (Writing(q)' <=> Writing(q))
        BY <2>2, <1>11 DEF Writing
      <3> QED BY <3>1 DEF IInv, DecisionsBehind
    <2> QED BY <2>1, <2>2
  <1> QED
    BY <1>5, <1>6, <1>7, <1>8, <1>9, <1>15, <1>16, <1>17, <1>18 DEF IInv

(* The projection of a writer lacks at most the event it committed.         *)
LEMMA ApplyFacts ==
    ASSUME IInv, NEW r \in Requests, req[r].pc = "committed",
           ~(LastId(proj[Store(r)]) >= req[r].replay.last + 1)
    PROVE  LET new == Append(proj[Store(r)], InsertedEvent(r))
           IN  /\ new \in Seq(Log!Events)
               /\ Len(new) = Len(proj[Store(r)]) + 1
               /\ Len(new) = req[r].replay.last + 1
               /\ Log!Prefix(new, rows)
               /\ \A n \in 1 .. Len(new) : rows[n].kind \in Reads[Store(r)]
  <1> DEFINE s == Store(r)
             e == InsertedEvent(r)
             new == Append(proj[s], e)
  <1>1. s \in Stores /\ proj[s] \in Seq(Log!Events) /\ e \in Log!Events /\ req[r].replay \in Replays
    BY HostAssumption, InsertedEventType DEF Store, IInv, TypeOK, ReqRecords
  <1>2. Len(proj[s]) \in Nat /\ Len(rows) \in Nat /\ req[r].replay.last \in Nat
    BY <1>1 DEF IInv, TypeOK, Replays
  <1>3. LastId(proj[s]) = Len(proj[s]) /\ Log!Prefix(proj[s], rows)
    BY <1>1, PrefixPosition DEF IInv, ProjectionIsPrefix
  <1>4. /\ req[r].replay.last + 1 <= Len(rows)
        /\ rows[req[r].replay.last + 1] = e
        /\ req[r].replay.last <= Len(proj[s])
    BY DEF IInv, CommittedStored
  <1>5. Len(proj[s]) = req[r].replay.last
    BY <1>2, <1>3, <1>4
  <1>6. /\ new \in Seq(Log!Events)
        /\ Len(new) = Len(proj[s]) + 1
        /\ new[Len(proj[s]) + 1] = e
        /\ \A n \in 1 .. Len(proj[s]) : new[n] = proj[s][n]
    BY <1>1, AppendProperties
  <1> HIDE DEF new, e, s
  <1>7. ASSUME NEW n \in 1 .. Len(new)
        PROVE  new[n] = rows[n] /\ rows[n].kind \in Reads[s]
    <2>1. CASE n \in 1 .. Len(proj[s])
      BY <2>1, <1>1, <1>3, <1>6 DEF IInv, ProjectionReadable, Log!Prefix
    <2>2. CASE n = Len(proj[s]) + 1
      <3>1. e.kind \in Reads[s]
        BY DEF IInv, DecisionsBehind, e, s, InsertedEvent
      <3> QED BY <2>2, <3>1, <1>4, <1>5, <1>6
    <2> QED BY <2>1, <2>2, <1>2, <1>6
  <1>8. Log!Prefix(new, rows)
    BY <1>2, <1>4, <1>5, <1>6, <1>7 DEF Log!Prefix
  <1> QED BY <1>5, <1>6, <1>7, <1>8 DEF new, e, s

LEMMA ApplyPersistedInv ==
    ASSUME IInv, TypeOK', NEW r \in Requests, ApplyPersisted(r)
    PROVE  IInv'
  <1> DEFINE s == Store(r)
             new == Append(proj[s], InsertedEvent(r))
             x == req'[r]
  <1>1. s \in Stores /\ req[r] \in ReqRecords /\ req[r].replay \in Replays
    BY HostAssumption DEF Store, IInv, TypeOK, ReqRecords
  <1>2. /\ req[r].pc = "committed" /\ rows' = rows /\ lock' = lock
        /\ proj' = IF LastId(proj[s]) >= req[r].replay.last + 1 THEN proj
                   ELSE [proj EXCEPT ![s] = new]
    BY DEF ApplyPersisted
  <1>3. x \in ReqRecords /\ Becomes(r, x)
    BY DEF ApplyPersisted, Becomes, TypeOK
  <1>4. /\ x.pc \in {"handle", "done"}
        /\ x.pc = "handle" => /\ x.op = req[r].op /\ x.task = "load"
                              /\ x.op = "own" => x.seen = req[r].seen + 1
    <2>1. CASE req[r].op = "when"
      <3>1. x = [Answered(r, "ok") EXCEPT !.wrote = @ + 1]
        BY <2>1 DEF ApplyPersisted, Becomes, IInv, TypeOK
      <3>2. x.pc = "done"
        BY <3>1 DEF Answered, NewRequest
      <3> QED BY <3>2
    <2>2. CASE req[r].op # "when"
      <3> DEFINE n == IF req[r].op = "own" THEN Returned(r).seen + 1 ELSE Returned(r).seen
      <3>1. x = [Returned(r) EXCEPT !.pc = "handle", !.wrote = @ + 1, !.seen = n]
        BY <2>2 DEF ApplyPersisted, Becomes, IInv, TypeOK
      <3>2. /\ Returned(r) \in ReqRecords /\ Returned(r).op = req[r].op
            /\ Returned(r).seen = req[r].seen /\ Returned(r).task = "load"
        BY <1>1, ReturnedType DEF Returned, ReqRecords, IInv
      <3>3. req[r].op = "own" => n = req[r].seen + 1
        BY <3>2
      <3> HIDE DEF n
      <3>4. x.pc = "handle" /\ x.op = req[r].op /\ x.seen = n /\ x.task = "load"
        BY <3>1, <3>2 DEF ReqRecords
      <3> QED BY <3>3, <3>4
    <2> QED BY <2>1, <2>2
  <1>5. lock # r
    BY <1>2 DEF IInv, LockHeld
  <1>6. req[r].op = "own" => req[r].seen = req[r].replay.last
    BY <1>2 DEF IInv, DecisionsBehind
  <1>7. req[r].replay.last \in Nat /\ Len(proj[s]) \in Nat
    BY <1>1 DEF Replays, IInv, TypeOK
  <1>8. CASE LastId(proj[s]) >= req[r].replay.last + 1
    <2>1. LastId(proj[s]) = Len(proj[s])
      BY <1>1, PrefixPosition DEF IInv, ProjectionIsPrefix, TypeOK
    <2>2. proj' = proj
      BY <1>2, <1>8
    <2>3. x.pc = "handle" /\ x.op = "own" => x.seen <= Len(proj[Store(r)])
      BY <1>4, <1>6, <1>7, <1>8, <2>1
    <2> HIDE DEF x
    <2> QED BY <1>2, <1>3, <1>4, <1>5, <2>2, <2>3, LocalStep
  <1>9. CASE ~(LastId(proj[s]) >= req[r].replay.last + 1)
    <2>1. /\ new \in Seq(Log!Events)
          /\ Len(new) = Len(proj[s]) + 1
          /\ Len(new) = req[r].replay.last + 1
          /\ Log!Prefix(new, rows)
          /\ \A n \in 1 .. Len(new) : rows[n].kind \in Reads[Store(r)]
      BY <1>2, <1>9, ApplyFacts
    <2>2. proj' = [proj EXCEPT ![s] = new]
      BY <1>2, <1>9
    <2> HIDE DEF x, new
    <2>3. x.pc = "handle" /\ x.op = "own" => x.seen <= Len(new)
      BY <1>4, <1>6, <1>7, <2>1
    <2>4. Len(proj[Store(r)]) <= Len(new)
      BY <1>7, <2>1
    <2> QED BY <1>2, <1>3, <1>4, <1>5, <2>1, <2>2, <2>3, <2>4, ProjectionStep
  <1> QED BY <1>8, <1>9

LEMMA CrashInv ==
    ASSUME IInv, TypeOK', NEW s \in Stores, Crash(s)
    PROVE  IInv'
  <1>1. /\ rows' = rows /\ proj'[s] = << >> /\ \A t \in Stores : t # s => proj'[t] = proj[t]
    BY DEF Crash, IInv, TypeOK
  <1>2. /\ \A q \in Requests : Store(q) # s => req'[q] = req[q]
        /\ \A q \in Requests : Store(q) = s =>
              \/ req'[q].pc = "done"
              \/ req'[q] = req[q] /\ req[q].pc \in {"idle", "done"}
    BY AnsweredFields DEF Crash, Live
  <1>3. \A q \in Requests : Store(q) \in Stores
    BY HostAssumption DEF Store
  <1>4. ChainIntact' /\ DecidedOnPredecessor' /\ NoAppendPastGap'
    BY <1>1 DEF IInv, ChainIntact, HashBefore, DecidedOnPredecessor, NoAppendPastGap
  <1>5. Len(<< >>) = 0 /\ Len(rows) \in Nat
    BY EmptySeq DEF IInv, TypeOK
  <1>6. ProjectionIsPrefix'
    BY <1>1, <1>5 DEF IInv, ProjectionIsPrefix, Log!Prefix
  <1>7. ProjectionReadable'
    BY <1>1, <1>5 DEF IInv, ProjectionReadable
  <1>8. StartsWithLoad'
    BY <1>2 DEF IInv, StartsWithLoad
  <1>9. LockHeld'
    <2> SUFFICES ASSUME NEW q \in Requests
                 PROVE  req'[q].pc \in {"locked", "caught"} <=> lock' = q
      BY DEF LockHeld
    <2>1. req[q].pc \in {"locked", "caught"} <=> lock = q
      BY DEF IInv, LockHeld
    <2>2. lock' = IF lock \in Requests /\ Store(lock) = s THEN NoRequest ELSE lock
      BY DEF Crash
    <2>3. CASE Store(q) = s
      BY <2>1, <2>2, <2>3, <1>2, NoRequestAssumption
    <2>4. CASE Store(q) # s
      <3>1. req'[q] = req[q]
        BY <2>4, <1>2
      <3>2. lock' = q <=> lock = q
        BY <2>2, <2>4, NoRequestAssumption
      <3> QED BY <2>1, <3>1, <3>2
    <2> QED BY <2>3, <2>4
  <1>10. FromBehind' /\ ReplayCurrent'
    BY <1>1, <1>2, <1>3 DEF IInv, FromBehind, ReplayCurrent
  <1>11. CommittedStored'
    <2> SUFFICES ASSUME NEW q \in Requests, req'[q].pc = "committed"
                 PROVE  /\ req'[q].replay.last + 1 <= Len(rows)
                        /\ rows[req'[q].replay.last + 1] = InsertedEvent(q)'
                        /\ req'[q].replay.last <= Len(proj'[Store(q)])
      BY <1>1 DEF CommittedStored, Store
    <2>1. Store(q) # s /\ req'[q] = req[q] /\ proj'[Store(q)] = proj[Store(q)]
      BY <1>1, <1>2, <1>3
    <2>2. InsertedEvent(q)' = InsertedEvent(q)
      BY <2>1 DEF InsertedEvent
    <2> QED BY <2>1, <2>2 DEF IInv, CommittedStored
  <1>12. DecisionsBehind'
    <2> SUFFICES ASSUME NEW q \in Requests
                 PROVE  /\ req'[q].op = "own" /\ (req'[q].pc = "handle" \/ Writing(q)')
                              => req'[q].seen <= Len(proj'[Store(q)])
                        /\ Writing(q)' => /\ req'[q].basis <= Len(proj'[Store(q)])
                                          /\ req'[q].kind \in Reads[Store(q)]
                        /\ Writing(q)' /\ req'[q].op = "own" => req'[q].seen <= req'[q].basis
                        /\ req'[q].pc = "committed" =>
                              /\ Writing(q)'
                              /\ req'[q].op = "own" => req'[q].seen = req'[q].replay.last
      BY DEF DecisionsBehind, Store
    <2>1. CASE Store(q) = s
      BY <2>1, <1>2 DEF Writing
    <2>2. CASE Store(q) # s
      <3>1. req'[q] = req[q] /\ proj'[Store(q)] = proj[Store(q)] /\ (Writing(q)' <=> Writing(q))
        BY <2>2, <1>1, <1>2, <1>3 DEF Writing
      <3> QED BY <3>1 DEF IInv, DecisionsBehind
    <2> QED BY <2>1, <2>2
  <1> QED
    BY <1>4, <1>6, <1>7, <1>8, <1>9, <1>10, <1>11, <1>12 DEF IInv

LEMMA InvStep == IInv /\ [Next]_vars => IInv'
  <1> SUFFICES ASSUME IInv, [Next]_vars PROVE IInv'
    OBVIOUS
  <1>0. TypeOK'
    BY TypeStep DEF IInv
  <1>1. ASSUME NEW r \in Requests, NEW o \in Log!Ops, Arrive(r, o) PROVE IInv'
    BY <1>0, <1>1, ArriveInv
  <1>2. ASSUME NEW r \in Requests, ReadPosition(r) PROVE IInv'
    BY <1>0, <1>2, ReadPositionInv
  <1>3. ASSUME NEW r \in Requests, LockStream(r) PROVE IInv'
    BY <1>0, <1>3, LockStreamInv
  <1>4. ASSUME NEW r \in Requests, CatchUp(r) PROVE IInv'
    BY <1>0, <1>4, CatchUpInv
  <1>5. ASSUME NEW r \in Requests, EndLoad(r) PROVE IInv'
    BY <1>0, <1>5, EndLoadInv
  <1>6. ASSUME NEW r \in Requests, OpenHandle(r) PROVE IInv'
    BY <1>0, <1>6, OpenHandleInv
  <1>7. ASSUME NEW r \in Requests, NEW k \in Kinds, Decide(r, k) PROVE IInv'
    BY <1>0, <1>7, DecideInv
  <1>8. ASSUME NEW r \in Requests, Finish(r) PROVE IInv'
    <2>1. lock # r
      BY <1>8 DEF Finish, IInv, LockHeld
    <2> QED BY <1>0, <1>8, <2>1, AnswerStep DEF Finish, Results
  <1>9. ASSUME NEW r \in Requests, RejectAppend(r) PROVE IInv'
    <2>1. req[r].pc = "caught" /\ lock' = NoRequest
      BY <1>9 DEF RejectAppend, Appending
    <2> QED BY <1>0, <1>9, <2>1, Released, AnswerStep DEF RejectAppend, Results
  <1>10. ASSUME NEW r \in Requests, Conflict(r) PROVE IInv'
    BY <1>0, <1>10, ConflictInv
  <1>11. ASSUME NEW r \in Requests, Commit(r) PROVE IInv'
    BY <1>0, <1>11, CommitInv
  <1>12. ASSUME NEW r \in Requests, ApplyPersisted(r) PROVE IInv'
    BY <1>0, <1>12, ApplyPersistedInv
  <1>13. ASSUME NEW r \in Requests, Fail(r) PROVE IInv'
    <2>1. lock' # r /\ \A q \in Requests : q # r => (lock' = q <=> lock = q)
      BY <1>13, NoRequestAssumption DEF Fail
    <2> QED BY <1>0, <1>13, <2>1, AnswerStep DEF Fail, Results
  <1>14. ASSUME NEW s \in Stores, Crash(s) PROVE IInv'
    BY <1>0, <1>14, CrashInv
  <1>15. CASE UNCHANGED vars
    BY <1>15 DEF vars, IInv, TypeOK, ChainIntact, HashBefore, ProjectionIsPrefix, Log!Prefix,
       LockHeld, ProjectionReadable, FromBehind, ReplayCurrent, CommittedStored, InsertedEvent,
       DecisionsBehind, Writing, StartsWithLoad, DecidedOnPredecessor, NoAppendPastGap
  <1> QED
    BY <1>1, <1>2, <1>3, <1>4, <1>5, <1>6, <1>7, <1>8, <1>9, <1>10, <1>11, <1>12,
       <1>13, <1>14, <1>15 DEF Next, Step

LEMMA Invariance == Spec => []IInv
  BY InvInit, InvStep, PTL DEF Spec

(* Whatever the interleaving of catch_up, commit and apply_event, and       *)
(* whoever fails or dies, a projection is a prefix of the stored stream.    *)
THEOREM ProjectionsArePrefixes == Spec => []ProjectionIsPrefix
  <1>1. IInv => ProjectionIsPrefix
    BY DEF IInv
  <1> QED BY <1>1, Invariance, PTL

(* Every reader derives the associated data every writer used, so replay    *)
(* never fails on its own stream.                                           *)
THEOREM ReplayNeverFails == Spec => []NeverUnreadable
  BY NothingUnreadable, Invariance, PTL

(* A conditional append (PgStore::update, update_when) was decided on       *)
(* exactly the events that precede it.                                      *)
THEOREM ConditionalWritesSafe == Spec => []DecidedOnPredecessor
  <1>1. IInv => DecidedOnPredecessor
    BY DEF IInv
  <1> QED BY <1>1, Invariance, PTL

(* No build writes past an event it cannot decode (Replay::reject_append).  *)
THEOREM WritersReadEverything == Spec => []NoAppendPastGap
  <1>1. IInv => NoAppendPastGap
    BY DEF IInv
  <1> QED BY <1>1, Invariance, PTL

-----------------------------------------------------------------------------
(* The database protocol implements the append-only log.                    *)

LEMMA PrefixIsSubSeq ==
    ASSUME TypeOK, NEW data \in Seq(Log!Events), Log!Prefix(data, rows)
    PROVE  data = SubSeq(rows, 1, Len(data)) /\ Len(data) \in 0 .. Len(rows)
  <1>1. Len(data) \in Nat /\ Len(rows) \in Nat /\ Len(data) <= Len(rows)
    BY DEF Log!Prefix, TypeOK
  <1>2. \A i \in 1 .. Len(data) : rows[i] \in Log!Events
    BY <1>1, ElementOfSeq DEF TypeOK
  <1> DEFINE sub == SubSeq(rows, 1, Len(data))
  <1>3. /\ sub \in Seq(Log!Events)
        /\ Len(sub) = IF 1 <= Len(data) THEN Len(data) - 1 + 1 ELSE 0
        /\ \A i \in 1 .. Len(data) - 1 + 1 : sub[i] = rows[1 + i - 1]
    BY <1>1, <1>2, SubSeqProperties
  <1> HIDE DEF sub
  <1>4. Len(sub) = Len(data) /\ \A i \in 1 .. Len(data) : sub[i] = data[i]
    BY <1>1, <1>3 DEF Log!Prefix
  <1> QED BY <1>1, <1>3, <1>4, SeqEqual DEF sub

LEMMA ObserveStep ==
    ASSUME IInv, TypeOK', ProjectionIsPrefix', rows' = rows, NEW s \in Stores,
           NEW new, proj' = [proj EXCEPT ![s] = new], Len(proj[s]) <= Len(new)
    PROVE  Log!Observe
  <1>1. proj'[s] = new /\ new \in Seq(Log!Events) /\ Log!Prefix(new, rows)
    BY DEF IInv, TypeOK, ProjectionIsPrefix
  <1>2. new = SubSeq(rows, 1, Len(new)) /\ Len(new) \in 0 .. Len(rows)
    BY <1>1, PrefixIsSubSeq DEF IInv
  <1>3. Len(new) >= Len(proj[s])
    BY <1>1 DEF IInv, TypeOK
  <1> QED BY <1>2, <1>3 DEF Log!Observe

LEMMA LogStep == IInv /\ IInv' /\ [Next]_vars => [Log!Next]_(Log!vars)
  <1> SUFFICES ASSUME IInv, IInv', [Next]_vars PROVE Log!Next \/ UNCHANGED Log!vars
    OBVIOUS
  <1>1. ASSUME rows' = rows, proj' = proj PROVE UNCHANGED Log!vars
    BY <1>1 DEF Log!vars
  <1>2. ASSUME NEW r \in Requests, CatchUp(r) PROVE Log!Observe
    <2> DEFINE s == Store(r)
               start == req[r].from
               data == proj[s]
    <2>1. s \in Stores /\ data \in Seq(Log!Events) /\ req[r] \in ReqRecords
      BY HostAssumption DEF Store, IInv, TypeOK
    <2>2. start \in Nat
      BY <2>1 DEF ReqRecords
    <2>3. Log!Prefix(data, rows) /\ start <= Len(data)
      BY <1>2, <2>1 DEF IInv, ProjectionIsPrefix, FromBehind, CatchUp
    <2>4. PICK end \in SkippedTo(start, data) .. Len(rows) :
            proj' = [proj EXCEPT ![s] = ApplyMissing(end, start, data)]
      BY <1>2 DEF CatchUp
    <2>5. /\ end \in Len(data) .. Len(rows)
          /\ Len(ApplyMissing(end, start, data)) = end
      BY <2>1, <2>2, <2>3, ReplayResult DEF IInv
    <2>6. Len(data) <= Len(ApplyMissing(end, start, data))
      BY <2>5
    <2>7. rows' = rows /\ TypeOK' /\ ProjectionIsPrefix'
      BY <1>2 DEF CatchUp, IInv
    <2> QED BY <2>1, <2>4, <2>6, <2>7, ObserveStep
  <1>3. ASSUME NEW r \in Requests, ApplyPersisted(r) PROVE Log!Observe \/ UNCHANGED Log!vars
    <2>1. CASE LastId(proj[Store(r)]) >= req[r].replay.last + 1
      BY <1>1, <1>3, <2>1 DEF ApplyPersisted
    <2>2. CASE ~(LastId(proj[Store(r)]) >= req[r].replay.last + 1)
      <3> DEFINE new == Append(proj[Store(r)], InsertedEvent(r))
      <3>1. Len(new) = Len(proj[Store(r)]) + 1
        BY <1>3, <2>2, ApplyFacts DEF ApplyPersisted
      <3>2. Store(r) \in Stores
        BY HostAssumption DEF Store
      <3>3. Len(proj[Store(r)]) \in Nat
        BY <3>2 DEF IInv, TypeOK
      <3>4. /\ proj' = [proj EXCEPT ![Store(r)] = new]
            /\ rows' = rows /\ TypeOK' /\ ProjectionIsPrefix'
        BY <1>3, <2>2 DEF ApplyPersisted, IInv
      <3>5. Len(proj[Store(r)]) <= Len(new)
        BY <3>1, <3>3
      <3> HIDE DEF new
      <3> QED BY <3>2, <3>4, <3>5, ObserveStep
    <2> QED BY <2>1, <2>2
  <1>4. ASSUME NEW r \in Requests, Commit(r) PROVE Log!AppendEvent
    <2>1. rows' = Append(rows, Log!NewEvent(rows, req[r].kind, r, req[r].op, req[r].basis))
      BY <1>4, CommitFacts DEF Commit
    <2>2. /\ req[r].kind \in Kinds /\ req[r].op \in Log!Ops
          /\ req[r].basis \in 0 .. Len(rows)
          /\ req[r].op \in Log!ConditionalOps => req[r].basis = Len(rows)
      BY <1>4, CommitFacts DEF IInv, TypeOK, ReqRecords
    <2> QED BY <1>4, <2>1, <2>2 DEF Log!AppendEvent, Commit
  <1>5. ASSUME NEW s \in Stores, Crash(s) PROVE Log!Forget
    BY <1>5 DEF Crash, Log!Forget
  <1>6. ASSUME NEW r \in Requests,
               \/ ReadPosition(r) \/ LockStream(r) \/ EndLoad(r) \/ OpenHandle(r)
               \/ Finish(r) \/ RejectAppend(r) \/ Conflict(r) \/ Fail(r)
        PROVE  rows' = rows /\ proj' = proj
    BY <1>6 DEF ReadPosition, LockStream, EndLoad, OpenHandle, Finish, RejectAppend,
                Conflict, Fail
  <1>7. ASSUME NEW r \in Requests, NEW o \in Log!Ops, Arrive(r, o)
        PROVE  rows' = rows /\ proj' = proj
    BY <1>7 DEF Arrive
  <1>8. ASSUME NEW r \in Requests, NEW k \in Kinds, Decide(r, k)
        PROVE  rows' = rows /\ proj' = proj
    BY <1>8 DEF Decide
  <1>9. CASE UNCHANGED vars
    BY <1>9 DEF vars, Log!vars
  <1> QED
    BY <1>1, <1>2, <1>3, <1>4, <1>5, <1>6, <1>7, <1>8, <1>9 DEF Next, Step, Log!Next

(* The event store of src/store/ on PostgreSQL implements one append-only,  *)
(* hash-chained log of which every projection is a prefix.                  *)
THEOREM StoreImplementsLog == Spec => ImplementsEventLog
  <1>1. Init => Log!Init
    BY DEF Init, Log!Init
  <1> QED
    BY <1>1, LogStep, Invariance, PTL DEF Spec, ImplementsEventLog, Log!Spec

-----------------------------------------------------------------------------
(* What callers are told.                                                   *)

(* A request with n events in the table, while and after it writes.         *)
ToldOf(x, n) ==
    /\ n \in Nat
    /\ x.pc # "done" => x.result = "none"
    /\ \/ x.pc = "committed" /\ n = x.wrote + 1
       \/ x.pc # "committed" /\ n = x.wrote
       \/ x.pc # "committed" /\ x.result \in {"error", "crashed"} /\ n = x.wrote + 1
Told == \A r \in Requests : ToldOf(req[r], Cardinality(WrittenBy(r)))

LEMMA SilentStep ==
    ASSUME TypeOK, Told, NEW r \in Requests, NEW x, Becomes(r, x), rows' = rows,
           ToldOf(x, Cardinality(WrittenBy(r)))
    PROVE  Told'
  <1>1. req'[r] = x /\ \A q \in Requests : q # r => req'[q] = req[q]
    BY DEF Becomes, TypeOK
  <1>2. \A q \in Requests : WrittenBy(q)' = WrittenBy(q)
    BY DEF WrittenBy
  <1>3. \A q \in Requests : ToldOf(req'[q], Cardinality(WrittenBy(q)))
    BY <1>1 DEF Told
  <1> QED BY <1>2, <1>3 DEF Told

(* A step of a request on its way.                                          *)
LEMMA QuietStep ==
    ASSUME TypeOK, Told, NEW r \in Requests, NEW x, Becomes(r, x), rows' = rows,
           req[r].pc \notin {"committed", "done"}, x.pc \notin {"committed", "done"},
           x.result = req[r].result, x.wrote = req[r].wrote
    PROVE  Told'
  <1>1. ToldOf(req[r], Cardinality(WrittenBy(r)))
    BY DEF Told
  <1>2. ToldOf(x, Cardinality(WrittenBy(r)))
    BY <1>1 DEF ToldOf
  <1> QED BY <1>2, SilentStep

LEMMA AnsweredIs ==
    ASSUME NEW r, NEW a, NEW x, x = Answered(r, a)
    PROVE  x.pc = "done" /\ x.result = a /\ x.wrote = req[r].wrote
  BY DEF Answered, NewRequest

(* A request that did not commit is answered.                               *)
LEMMA EndStep ==
    ASSUME TypeOK, Told, NEW r \in Requests, NEW a, Becomes(r, Answered(r, a)), rows' = rows,
           req[r].pc \notin {"committed", "done"}
    PROVE  Told'
  <1>1. PICK x : x = Answered(r, a)
    OBVIOUS
  <1>2. x.pc = "done" /\ x.result = a /\ x.wrote = req[r].wrote
    BY <1>1, AnsweredIs
  <1>3. ToldOf(req[r], Cardinality(WrittenBy(r)))
    BY DEF Told
  <1>4. ToldOf(x, Cardinality(WrittenBy(r)))
    BY <1>2, <1>3 DEF ToldOf
  <1> QED BY <1>1, <1>4, SilentStep

LEMMA FiniteRows == ASSUME TypeOK, NEW r PROVE IsFiniteSet(WrittenBy(r))
  <1>1. IsFiniteSet(1 .. Len(rows))
    BY FS_Interval DEF TypeOK
  <1> QED BY <1>1, FS_Subset DEF WrittenBy

LEMMA ToldInit == ASSUME Init PROVE Told
  <1>1. \A r \in Requests : WrittenBy(r) = {}
    BY DEF Init, WrittenBy
  <1>2. \A r \in Requests : Cardinality(WrittenBy(r)) = 0
    BY <1>1, FS_EmptySet
  <1>3. \A r \in Requests : req[r].pc = "idle" /\ req[r].result = "none" /\ req[r].wrote = 0
    BY DEF Init, NewRequest
  <1> QED BY <1>2, <1>3 DEF Told, ToldOf

LEMMA CommitTold ==
    ASSUME TypeOK, Told, NEW r \in Requests, Commit(r)
    PROVE  Told'
  <1>1. PICK e : e = InsertedEvent(r)
    OBVIOUS
  <1>2. e.by = r /\ rows' = Append(rows, e) /\ req[r].pc = "caught"
    BY <1>1 DEF Commit, InsertedEvent, Appending
  <1>3. rows \in Seq(Log!Events) /\ Len(rows) \in Nat /\ e \in Log!Events
    BY <1>1, InsertedEventType DEF TypeOK
  <1>4. /\ Len(rows') = Len(rows) + 1 /\ rows'[Len(rows) + 1] = e
        /\ \A n \in 1 .. Len(rows) : rows'[n] = rows[n]
    BY <1>2, <1>3, AppendProperties
  <1>5. WrittenBy(r)' = WrittenBy(r) \cup {Len(rows) + 1} /\ Len(rows) + 1 \notin WrittenBy(r)
    BY <1>2, <1>3, <1>4 DEF WrittenBy
  <1>6. \A q \in Requests \ {r} : WrittenBy(q)' = WrittenBy(q)
    BY <1>2, <1>3, <1>4 DEF WrittenBy
  <1>7. Cardinality(WrittenBy(r))' = Cardinality(WrittenBy(r)) + 1
    BY <1>5, FiniteRows, FS_AddElement
  <1>8. ToldOf(req[r], Cardinality(WrittenBy(r)))
    BY DEF Told
  <1>9. req[r] \in ReqRecords
    BY DEF TypeOK
  <1>10. /\ \A q \in Requests \ {r} : req'[q] = req[q]
         /\ req'[r].wrote = req[r].wrote
         /\ \/ req'[r].pc = "committed" /\ req'[r].result = req[r].result
            \/ req'[r].pc = "done" /\ req'[r].result = "error"
    <2>1. CASE Becomes(r, [req[r] EXCEPT !.pc = "committed"])
      BY <1>9, <2>1 DEF Becomes, TypeOK, ReqRecords
    <2>2. CASE Becomes(r, Answered(r, "error"))
      BY <1>9, <2>2 DEF Becomes, TypeOK, Answered, NewRequest
    <2> QED BY <2>1, <2>2 DEF Commit
  <1>11. ToldOf(req'[r], Cardinality(WrittenBy(r))')
    BY <1>2, <1>7, <1>8, <1>9, <1>10, SMTT(40) DEF ToldOf, ReqRecords
  <1>12. \A q \in Requests \ {r} : ToldOf(req'[q], Cardinality(WrittenBy(q))')
    BY <1>6, <1>10 DEF Told
  <1> QED BY <1>11, <1>12 DEF Told

LEMMA ApplyTold ==
    ASSUME TypeOK, Told, NEW r \in Requests, ApplyPersisted(r)
    PROVE  Told'
  <1>1. req[r] \in ReqRecords /\ req[r].pc = "committed" /\ rows' = rows
    BY DEF TypeOK, ApplyPersisted
  <1>2. ToldOf(req[r], Cardinality(WrittenBy(r)))
    BY DEF Told
  <1>3. PICK x : /\ Becomes(r, x) /\ x.wrote = req[r].wrote + 1
                 /\ \/ x.pc = "done" /\ x.result = "ok"
                    \/ x.pc = "handle" /\ x.result = req[r].result
    <2>1. CASE req[r].op = "when"
      <3>1. PICK y, x : y = Answered(r, "ok") /\ x = [y EXCEPT !.wrote = @ + 1]
        OBVIOUS
      <3>2. y.pc = "done" /\ y.result = "ok" /\ y.wrote = req[r].wrote /\ y \in ReqRecords
        BY <3>1, AnsweredIs, AnsweredType DEF Results
      <3>3. x.pc = "done" /\ x.result = "ok" /\ x.wrote = req[r].wrote + 1
        BY <3>1, <3>2 DEF ReqRecords
      <3>4. Becomes(r, x)
        BY <2>1, <3>1 DEF ApplyPersisted
      <3> QED BY <3>3, <3>4
    <2>2. CASE req[r].op # "when"
      <3>1. PICK y, x : /\ y = Returned(r)
                        /\ x = [y EXCEPT !.pc = "handle", !.wrote = @ + 1,
                                         !.seen = IF req[r].op = "own" THEN @ + 1 ELSE @]
        OBVIOUS
      <3>2. y \in ReqRecords /\ y.wrote = req[r].wrote /\ y.result = req[r].result
        BY <1>1, <3>1, ReturnedType DEF Returned, ReqRecords
      <3>3. x.pc = "handle" /\ x.wrote = req[r].wrote + 1 /\ x.result = req[r].result
        BY <3>1, <3>2 DEF ReqRecords
      <3>4. Becomes(r, x)
        BY <2>2, <3>1 DEF ApplyPersisted
      <3> QED BY <3>3, <3>4
    <2> QED BY <2>1, <2>2
  <1>4. ToldOf(x, Cardinality(WrittenBy(r)))
    BY <1>1, <1>2, <1>3 DEF ToldOf
  <1> QED BY <1>1, <1>3, <1>4, SilentStep

LEMMA CrashTold ==
    ASSUME TypeOK, Told, NEW s \in Stores, Crash(s)
    PROVE  Told'
  <1>1. rows' = rows /\ \A q \in Requests : WrittenBy(q)' = WrittenBy(q)
    BY DEF Crash, WrittenBy
  <1>2. ASSUME NEW q \in Requests PROVE ToldOf(req'[q], Cardinality(WrittenBy(q)))
    <2>1. ToldOf(req[q], Cardinality(WrittenBy(q)))
      BY DEF Told
    <2>2. CASE Store(q) = s /\ Live(q)
      <3>1. PICK x : x = Answered(q, "crashed")
        OBVIOUS
      <3>2. x.pc = "done" /\ x.result = "crashed" /\ x.wrote = req[q].wrote /\ req'[q] = x
        BY <2>2, <3>1, AnsweredIs DEF Crash
      <3>3. req[q].pc # "done"
        BY <2>2 DEF Live
      <3> QED BY <2>1, <3>2, <3>3 DEF ToldOf
    <2>3. CASE ~(Store(q) = s /\ Live(q))
      BY <2>1, <2>3 DEF Crash
    <2> QED BY <2>2, <2>3
  <1> QED BY <1>1, <1>2 DEF Told

LEMMA ToldStep == TypeOK /\ Told /\ [Next]_vars => Told'
  <1> SUFFICES ASSUME TypeOK, Told, [Next]_vars PROVE Told'
    OBVIOUS
  <1>0. \A r \in Requests : req[r] \in ReqRecords
    BY DEF TypeOK
  <1>1. ASSUME NEW r \in Requests, NEW o \in Log!Ops, Arrive(r, o) PROVE Told'
    <2>0. PICK p : p = IF o # "own" /\ Store(r) \in cached THEN "handle" ELSE "begin"
      OBVIOUS
    <2>1. PICK x : x = [req[r] EXCEPT !.op = o, !.pc = p, !.tries = Attempts]
      OBVIOUS
    <2>2. x.pc = p /\ x.result = req[r].result /\ x.wrote = req[r].wrote
      BY <1>0, <2>1 DEF ReqRecords
    <2>3. Becomes(r, x) /\ rows' = rows /\ req[r].pc = "idle" /\ p \in {"handle", "begin"}
      BY <1>1, <2>0, <2>1 DEF Arrive
    <2> QED BY <2>2, <2>3, QuietStep
  <1>2. ASSUME NEW r \in Requests, ReadPosition(r) PROVE Told'
    <2>1. PICK x : x = [req[r] EXCEPT !.pc = "queued", !.from = Position(r)]
      OBVIOUS
    <2>2. x.pc = "queued" /\ x.result = req[r].result /\ x.wrote = req[r].wrote
      BY <1>0, <2>1 DEF ReqRecords
    <2> QED BY <1>2, <2>1, <2>2, QuietStep DEF ReadPosition
  <1>3. ASSUME NEW r \in Requests, LockStream(r) PROVE Told'
    <2>1. PICK x : x = [req[r] EXCEPT !.pc = "locked"]
      OBVIOUS
    <2>2. x.pc = "locked" /\ x.result = req[r].result /\ x.wrote = req[r].wrote
      BY <1>0, <2>1 DEF ReqRecords
    <2> QED BY <1>3, <2>1, <2>2, QuietStep DEF LockStream
  <1>4. ASSUME NEW r \in Requests, CatchUp(r) PROVE Told'
    <2>1. PICK v, x : x = [req[r] EXCEPT !.pc = "caught", !.replay = v] /\ Becomes(r, x)
      BY <1>4 DEF CatchUp
    <2>2. x.pc = "caught" /\ x.result = req[r].result /\ x.wrote = req[r].wrote
      BY <1>0, <2>1 DEF ReqRecords
    <2>3. req[r].pc = "locked" /\ rows' = rows
      BY <1>4 DEF CatchUp
    <2> QED BY <2>1, <2>2, <2>3, QuietStep
  <1>5. ASSUME NEW r \in Requests, NEW p \in {"loaded", "handle"},
               \/ Becomes(r, [Returned(r) EXCEPT !.pc = p])
               \/ Becomes(r, [Returned(r) EXCEPT !.pc = p, !.tries = @ - 1]),
               req[r].pc = "caught", rows' = rows
        PROVE  Told'
    <2>1. PICK y : y = Returned(r)
      OBVIOUS
    <2>2. y \in ReqRecords /\ y.wrote = req[r].wrote /\ y.result = req[r].result
      BY <1>0, <2>1, ReturnedType, ZenonT(40) DEF Returned, ReqRecords
    <2>3. PICK x : /\ x = [y EXCEPT !.pc = p] \/ x = [y EXCEPT !.pc = p, !.tries = @ - 1]
                   /\ Becomes(r, x)
      BY <1>5, <2>1
    <2>4. x.pc = p /\ x.result = req[r].result /\ x.wrote = req[r].wrote
      BY <2>2, <2>3 DEF ReqRecords
    <2> QED BY <1>5, <2>3, <2>4, QuietStep
  <1>6. ASSUME NEW r \in Requests, EndLoad(r) PROVE Told'
    BY <1>5, <1>6 DEF EndLoad
  <1>7. ASSUME NEW r \in Requests, OpenHandle(r) PROVE Told'
    <2>1. PICK x : x = [req[r] EXCEPT !.pc = "handle", !.seen = Position(r)]
      OBVIOUS
    <2>2. x.pc = "handle" /\ x.result = req[r].result /\ x.wrote = req[r].wrote
      BY <1>0, <2>1 DEF ReqRecords
    <2> QED BY <1>7, <2>1, <2>2, QuietStep DEF OpenHandle
  <1>8. ASSUME NEW r \in Requests, NEW k \in Kinds, Decide(r, k) PROVE Told'
    <2>1. PICK x : x = [req[r] EXCEPT !.pc = "begin", !.task = "append",
                                      !.kind = k, !.basis = Position(r)]
      OBVIOUS
    <2>2. x.pc = "begin" /\ x.result = req[r].result /\ x.wrote = req[r].wrote
      BY <1>0, <2>1 DEF ReqRecords
    <2> QED BY <1>8, <2>1, <2>2, QuietStep DEF Decide
  <1>9. ASSUME NEW r \in Requests, Finish(r) PROVE Told'
    BY <1>9, EndStep DEF Finish
  <1>10. ASSUME NEW r \in Requests, RejectAppend(r) PROVE Told'
    BY <1>10, EndStep DEF RejectAppend, Appending
  <1>11. ASSUME NEW r \in Requests, Conflict(r) PROVE Told'
    <2>1. req[r].pc = "caught" /\ rows' = rows
      BY <1>11 DEF Conflict, Appending
    <2>2. CASE \E a : Becomes(r, Answered(r, a))
      BY <2>1, <2>2, EndStep, SMTT(40)
    <2>3. CASE Becomes(r, [Returned(r) EXCEPT !.pc = "handle", !.tries = @ - 1])
      BY <1>5, <2>1, <2>3
    <2> QED BY <1>11, <2>2, <2>3 DEF Conflict
  <1>12. ASSUME NEW r \in Requests, Fail(r) PROVE Told'
    BY <1>12, EndStep DEF Fail
  <1>13. CASE UNCHANGED vars
    <2>1. rows' = rows /\ req' = req
      BY <1>13 DEF vars
    <2>2. \A q \in Requests : WrittenBy(q)' = WrittenBy(q)
      BY <2>1 DEF WrittenBy
    <2> QED BY <2>1, <2>2 DEF Told
  <1> QED
    BY <1>1, <1>2, <1>3, <1>4, <1>6, <1>7, <1>8, <1>9, <1>10, <1>11, <1>12, <1>13,
       CommitTold, ApplyTold, CrashTold DEF Next, Step

(* update, update_if_unchanged and update_when tell their callers the truth *)
(* about what is in the table, across retries, failures between COMMIT and  *)
(* its answer, and crashes.                                                 *)
THEOREM CallersAreTold == Spec => []AnswersAreTrue
  <1>1. Told => AnswersAreTrue
    BY DEF Told, ToldOf, AnswersAreTrue
  <1>2. Init => Told
    BY ToldInit
  <1> QED BY <1>1, <1>2, ToldStep, TypeCorrect, PTL DEF Spec
=============================================================================
