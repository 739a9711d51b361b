-------------------------- MODULE AuditTrailProofs --------------------------
(***************************************************************************)
(* The audit trail for any number of append calls, restarts and entries:   *)
(* lastHash always belongs to the newest entry, and a log whose appends    *)
(* did not overlap is a correct hash chain; appends that interleave with a *)
(* verification do not change its verdict, and what a restart restores is  *)
(* a part of the log.                                                      *)
(***************************************************************************)
EXTENDS AuditTrail, SequenceTheorems, WellFoundedInduction, TLAPS

\* A log is a sequence, whatever its entries carry.
IsLog(es) == \E S : es \in Seq(S)

-----------------------------------------------------------------------------
(* Logs *)

LEMMA LogLength ==
    ASSUME NEW es, IsLog(es)
    PROVE  /\ Len(es) \in Nat
           /\ DOMAIN es = 1..Len(es)
           /\ es # <<>> => Len(es) # 0
<1>1. PICK S : es \in Seq(S)
    BY DEF IsLog
<1>2. QED
    BY <1>1, LenProperties, EmptySeq

LEMMA AppendIsLog ==
    ASSUME NEW es, IsLog(es), NEW e
    PROVE  /\ IsLog(Append(es, e))
           /\ Append(es, e) # <<>>
           /\ Len(Append(es, e)) = Len(es) + 1
           /\ \A i \in 1..Len(es) : Append(es, e)[i] = es[i]
           /\ Append(es, e)[Len(es) + 1] = e
<1>1. PICK S : es \in Seq(S)
    BY DEF IsLog
<1> DEFINE T == S \cup {e}
<1>2. es \in Seq(T) /\ e \in T
    BY <1>1, SeqMonotonic
<1>3. /\ Append(es, e) \in Seq(T)
      /\ Append(es, e) # <<>>
      /\ Len(Append(es, e)) = Len(es) + 1
      /\ \A i \in 1..Len(es) : Append(es, e)[i] = es[i]
      /\ Append(es, e)[Len(es) + 1] = e
    BY <1>2, AppendProperties
<1>4. QED
    BY <1>3 DEF IsLog

\* Entries exchanged or altered leave a sequence.
LEMMA ExceptIsLog ==
    ASSUME NEW es, IsLog(es), NEW i \in 1..Len(es), NEW e
    PROVE  IsLog([es EXCEPT ![i] = e]) /\ Len([es EXCEPT ![i] = e]) = Len(es)
<1>1. PICK S : es \in Seq(S)
    BY DEF IsLog
<1> DEFINE T == S \cup {e}
<1>2. es \in Seq(T) /\ e \in T
    BY <1>1, SeqMonotonic
<1>3. [es EXCEPT ![i] = e] \in Seq(T) /\ Len([es EXCEPT ![i] = e]) = Len(es)
    BY <1>2, ExceptSeq
<1>4. QED
    BY <1>3 DEF IsLog

\* Part of a log is a log.
LEMMA SubSeqIsLog ==
    ASSUME NEW es, IsLog(es), NEW a \in Nat \ {0}, NEW b \in Int, b <= Len(es)
    PROVE  IsLog(SubSeq(es, a, b))
<1>1. PICK S : es \in Seq(S)
    BY DEF IsLog
<1>2. Len(es) \in Nat /\ \A i \in 1..Len(es) : es[i] \in S
    BY <1>1, LenProperties, ElementOfSeq
<1>3. \A i \in a..b : es[i] \in S
    BY <1>2
<1>4. SubSeq(es, a, b) \in Seq(S)
    BY <1>3, SubSeqProperties
<1>5. QED
    BY <1>4 DEF IsLog

LEMMA RemoveAtIsLog ==
    ASSUME NEW es, IsLog(es), NEW i \in 1..Len(es)
    PROVE  IsLog(RemoveAt(es, i))
<1>1. PICK S : es \in Seq(S)
    BY DEF IsLog
<1>2. Len(es) \in Nat /\ \A j \in 1..Len(es) : es[j] \in S
    BY <1>1, LenProperties, ElementOfSeq
<1>3. SubSeq(es, 1, i - 1) \in Seq(S)
  <2>1. \A j \in 1..(i - 1) : es[j] \in S
    BY <1>2
  <2>2. QED
    BY <1>2, <2>1, SubSeqProperties
<1>4. SubSeq(es, i + 1, Len(es)) \in Seq(S)
  <2>1. \A j \in (i + 1)..Len(es) : es[j] \in S
    BY <1>2
  <2>2. QED
    BY <1>2, <2>1, SubSeqProperties
<1>5. RemoveAt(es, i) \in Seq(S)
    BY <1>3, <1>4, ConcatProperties DEF RemoveAt
<1>6. QED
    BY <1>5 DEF IsLog

\* compact() leaves a log of the same length.
LEMMA RenumberIsLog ==
    ASSUME NEW es, IsLog(es)
    PROVE  IsLog(Renumber(es))
<1> DEFINE r(i) == [es[i] EXCEPT !.index = i - 1,
                                 !.previousHash = ExpectedPrevious(es, i - 1)]
           S == {r(i) : i \in 1..Len(es)}
<1>1. Len(es) \in Nat
    BY LogLength
<1>2. [i \in 1..Len(es) |-> r(i)] \in [1..Len(es) -> S]
    OBVIOUS
<1>3. [i \in 1..Len(es) |-> r(i)] \in Seq(S)
    BY <1>1, <1>2, SeqDef
<1>4. QED
    BY <1>3 DEF Renumber, IsLog

\* Whatever happened to a stored snapshot, it is a sequence.
LEMMA SnapshotIsLog ==
    ASSUME NEW es, IsLog(es), NEW s \in Snapshots(es)
    PROVE  IsLog(s)
<1>1. CASE s = es
    BY <1>1
<1>2. ASSUME NEW i \in 1..Len(es), NEW c \in Calls, s = [es EXCEPT ![i].payload = c]
      PROVE  IsLog(s)
    BY <1>2, ExceptIsLog
<1>3. ASSUME NEW i \in 1..Len(es), s = RemoveAt(es, i) PROVE IsLog(s)
    BY <1>3, RemoveAtIsLog
<1>4. ASSUME NEW i \in 1..Len(es), NEW j \in 1..Len(es),
             s = [es EXCEPT ![i] = es[j], ![j] = es[i]]
      PROVE  IsLog(s)
  <2>1. IsLog([es EXCEPT ![i] = es[j]]) /\ Len([es EXCEPT ![i] = es[j]]) = Len(es)
    BY ExceptIsLog
  <2>2. QED
    BY <1>4, <2>1, ExceptIsLog
<1>5. QED
    BY <1>1, <1>2, <1>3, <1>4 DEF Snapshots

-----------------------------------------------------------------------------
(* The chain *)

\* A snapshot in which verify() finds nothing is a correct chain.
LEMMA VerifiedIsChained ==
    ASSUME NEW k, NEW es, IsLog(es), Tampered(k, es) = {}
    PROVE  Chained(k, es)
<1>1. Len(es) \in Nat
    BY LogLength
<1>2. SUFFICES ASSUME NEW i \in 1..Len(es)
               PROVE  /\ es[i].index = i - 1
                      /\ es[i].previousHash = (IF i = 1 THEN Genesis ELSE es[i - 1].hash)
                      /\ es[i].hash = Digest(k, es[i])
    BY DEF Chained
<1> DEFINE j == i - 1
<1>3. j \in 0..(Len(es) - 1) /\ j + 1 = i /\ (j = 0 <=> i = 1)
    BY <1>1
<1>4. Linked(es, j) /\ Genuine(k, es[j + 1], j)
    BY <1>3 DEF Tampered
<1>5. QED
    BY <1>3, <1>4 DEF Linked, Genuine, ExpectedPrevious

\* An entry that carries the length and the last hash of the chain extends it.
LEMMA AppendExtendsChain ==
    ASSUME NEW k, NEW es, IsLog(es), Chained(k, es),
           NEW e, e.index = Len(es), e.previousHash = LastOr(es, Genesis),
           e.hash = Digest(k, e)
    PROVE  Chained(k, Append(es, e))
<1> DEFINE new == Append(es, e)
<1>1. /\ Len(es) \in Nat /\ (es # <<>> => Len(es) # 0)
      /\ Len(new) = Len(es) + 1
      /\ \A i \in 1..Len(es) : new[i] = es[i]
      /\ new[Len(es) + 1] = e
    BY LogLength, AppendIsLog
<1>2. SUFFICES ASSUME NEW i \in 1..Len(new)
               PROVE  /\ new[i].index = i - 1
                      /\ new[i].previousHash = (IF i = 1 THEN Genesis ELSE new[i - 1].hash)
                      /\ new[i].hash = Digest(k, new[i])
    BY DEF Chained
<1>3. CASE i \in 1..Len(es)
  <2>1. i # 1 => i - 1 \in 1..Len(es)
    BY <1>1, <1>3
  <2>2. QED
    BY <1>1, <1>3, <2>1 DEF Chained
<1>4. CASE i = Len(es) + 1
  <2>1. CASE Len(es) = 0
    BY <1>1, <1>4, <2>1 DEF LastOr
  <2>2. CASE Len(es) # 0
    <3>1. es # <<>> /\ Len(es) \in 1..Len(es)
        BY <1>1, <2>2, EmptySeq
    <3>2. LastOr(es, Genesis) = new[i - 1].hash
        BY <1>1, <1>4, <3>1 DEF LastOr
    <3>3. QED
        BY <1>1, <1>4, <2>2, <3>2
  <2>3. QED
    BY <2>1, <2>2
<1>5. QED
    BY <1>1, <1>3, <1>4

-----------------------------------------------------------------------------
(* The inductive invariant *)

Hashing(c) == call[c] = "hashing"

CallsOK == /\ call \in [Calls -> {"idle", "hashing", "done", "dead"}]
           /\ draft = [c \in Calls |-> draft[c]]

\* As long as no append began during another, at most one is in flight.
OneInFlight == ~overlapped => \A c, d \in Calls : Hashing(c) /\ Hashing(d) => c = d

ChainInv == /\ IsLog(entries)
            /\ CallsOK
            /\ LastHashIsTail
            /\ OneInFlight
            /\ SerialLogIsChained

LEMMA InitChain == Init => ChainInv
<1> SUFFICES ASSUME Init PROVE ChainInv
    OBVIOUS
<1>1. IsLog(entries)
    BY EmptySeq DEF Init, IsLog
<1>2. CallsOK
    BY DEF Init, CallsOK
<1>3. OneInFlight
    BY DEF Init, OneInFlight, Hashing
<1>4. LastHashIsTail
    BY DEF Init, LastHashIsTail, LastOr
<1>5. ChainIntact
  <2>1. Len(<<>>) = 0
    BY <<>> \in Seq({}), EmptySeq
  <2>2. Chained(key, <<>>)
    BY <2>1 DEF Chained
  <2>3. QED
    BY <2>2 DEF Init, ChainIntact
<1>6. QED
    BY <1>1, <1>2, <1>3, <1>4, <1>5 DEF ChainInv, SerialLogIsChained

\* An append that begins reads the length and the hash its entry will follow.
LEMMA BeginChain ==
    ASSUME ChainInv, NEW c \in Calls, AppendBegin(c)
    PROVE  ChainInv'
<1>1. /\ call' = [call EXCEPT ![c] = "hashing"]
      /\ draft' = [draft EXCEPT ![c] = [index        |-> Len(entries),
                                        payload      |-> c,
                                        previousHash |-> lastHash]]
      /\ overlapped' = (overlapped \/ \E d \in Calls : Hashing(d))
      /\ entries' = entries /\ lastHash' = lastHash /\ key' = key
      /\ compacted' = compacted
    BY DEF AppendBegin, trail, Hashing
<1>2. CallsOK'
    BY <1>1 DEF ChainInv, CallsOK
<1>3. OneInFlight'
    BY <1>1 DEF ChainInv, CallsOK, OneInFlight, Hashing
<1>4. SerialLogIsChained'
  <2>1. SUFFICES ASSUME ~overlapped', ~compacted' PROVE ChainIntact'
    BY DEF SerialLogIsChained
  <2>2. Chained(key, entries) /\ \A d \in Calls : ~Hashing(d)
    BY <1>1, <2>1 DEF ChainInv, SerialLogIsChained, ChainIntact
  <2>3. ASSUME NEW d \in Calls, call'[d] = "hashing"
        PROVE  draft'[d].index = Len(entries') /\ draft'[d].previousHash = lastHash'
    <3>1. d = c
        BY <1>1, <2>2, <2>3 DEF ChainInv, CallsOK, Hashing
    <3>2. draft'[c] = [index |-> Len(entries), payload |-> c, previousHash |-> lastHash]
        BY <1>1 DEF ChainInv, CallsOK
    <3>3. QED
        BY <1>1, <3>1, <3>2
  <2>4. QED
    BY <1>1, <2>2, <2>3 DEF ChainIntact, Chained
<1>5. QED
    BY <1>1, <1>2, <1>3, <1>4 DEF ChainInv, LastHashIsTail, IsLog

\* An append that ends pushes its entry and takes its digest as the last hash.
LEMMA EndChain ==
    ASSUME ChainInv, NEW c \in Calls, AppendEnd(c)
    PROVE  ChainInv'
<1> DEFINE d == draft[c]
           e == [index        |-> d.index,
                 payload      |-> d.payload,
                 previousHash |-> d.previousHash,
                 hash         |-> Digest(key, d)]
<1>1. /\ Hashing(c)
      /\ call' = [call EXCEPT ![c] = "done"]
      /\ draft' = [draft EXCEPT ![c] = NoEntry]
      /\ entries' = Append(entries, e)
      /\ lastHash' = Digest(key, d)
      /\ key' = key /\ overlapped' = overlapped /\ compacted' = compacted
    BY DEF AppendEnd, Hashing
<1>2. CallsOK'
    BY <1>1 DEF ChainInv, CallsOK
<1>3. OneInFlight'
    BY <1>1 DEF ChainInv, CallsOK, OneInFlight, Hashing
<1>4. /\ IsLog(entries') /\ entries' # <<>>
      /\ Len(entries') = Len(entries) + 1
      /\ entries'[Len(entries) + 1] = e
    BY <1>1, AppendIsLog DEF ChainInv
<1>5. LastHashIsTail'
  <2>1. entries'[Len(entries')].hash = Digest(key, d)
    BY <1>4
  <2>2. QED
    BY <1>1, <1>4, <2>1 DEF LastHashIsTail, LastOr
<1>6. SerialLogIsChained'
  <2>1. SUFFICES ASSUME ~overlapped', ~compacted' PROVE ChainIntact'
    BY DEF SerialLogIsChained
  <2>2. /\ Chained(key, entries)
        /\ d.index = Len(entries)
        /\ d.previousHash = LastOr(entries, Genesis)
        /\ \A b \in Calls : Hashing(b) => b = c
    BY <1>1, <2>1 DEF ChainInv, SerialLogIsChained, ChainIntact, Hashing, LastHashIsTail, OneInFlight
  <2>3. e.hash = Digest(key, e)
    BY DEF Digest
  <2>4. Chained(key, Append(entries, e))
    <3>1. e.index = Len(entries) /\ e.previousHash = LastOr(entries, Genesis)
        BY <2>2
    <3>2. IsLog(entries)
        BY DEF ChainInv
    <3>3. QED
        BY <2>2, <2>3, <3>1, <3>2, AppendExtendsChain
  <2>5. \A b \in Calls : call'[b] # "hashing"
    BY <1>1, <2>2 DEF ChainInv, CallsOK, Hashing
  <2>6. QED
    BY <1>1, <2>4, <2>5 DEF ChainIntact
<1>7. QED
    BY <1>2, <1>3, <1>4, <1>5, <1>6 DEF ChainInv

LEMMA CompactChain ==
    ASSUME ChainInv, NEW from \in 1..Len(entries), Compact(from)
    PROVE  ChainInv'
<1>1. /\ entries' = Renumber(SubSeq(entries, from + 1, Len(entries)))
      /\ lastHash' = LastOr(entries', Genesis)
      /\ compacted'
      /\ call' = call /\ draft' = draft /\ overlapped' = overlapped
    BY DEF Compact, appends
<1>2. IsLog(entries')
  <2>1. IsLog(entries) /\ Len(entries) \in Nat
    BY LogLength DEF ChainInv
  <2>2. IsLog(SubSeq(entries, from + 1, Len(entries)))
    BY <2>1, SubSeqIsLog
  <2>3. QED
    BY <1>1, <2>2, RenumberIsLog
<1>3. QED
    BY <1>1, <1>2 DEF ChainInv, CallsOK, LastHashIsTail, OneInFlight, Hashing, SerialLogIsChained

\* A snapshot is restored only if it verifies, so it is a chain; the calls that
\* were in flight died with the process.
LEMMA RestartChain ==
    ASSUME ChainInv, NEW s \in Snapshots(entries), Restart(s)
    PROVE  ChainInv'
<1>1. /\ call' = [c \in Calls |-> IF call[c] = "hashing" THEN "dead" ELSE call[c]]
      /\ draft' = [c \in Calls |-> NoEntry]
      /\ overlapped' = overlapped /\ compacted' = compacted
    BY DEF Restart
<1>2. CallsOK' /\ \A c \in Calls : call'[c] # "hashing"
    BY <1>1 DEF ChainInv, CallsOK
<1>3. OneInFlight'
    BY <1>2 DEF OneInFlight, Hashing
<1>4. IsLog(entries)
    BY DEF ChainInv
<1>5. CASE Tampered(NoKey, s) = {}
  <2>1. entries' = s /\ lastHash' = LastOr(s, Genesis) /\ key' = NoKey
    BY <1>5 DEF Restart
  <2>2. IsLog(s) /\ Chained(NoKey, s)
    BY <1>4, <1>5, SnapshotIsLog, VerifiedIsChained
  <2>3. ChainIntact'
    BY <1>2, <2>1, <2>2 DEF ChainIntact
  <2>4. QED
    BY <1>2, <1>3, <2>1, <2>2, <2>3 DEF ChainInv, LastHashIsTail, SerialLogIsChained
<1>6. CASE Tampered(NoKey, s) # {}
  <2>1. entries' = entries /\ lastHash' = lastHash /\ key' = key
    BY <1>6 DEF Restart, trail
  <2>2. ~overlapped /\ ~compacted => ChainIntact'
    BY <1>2, <2>1 DEF ChainInv, SerialLogIsChained, ChainIntact
  <2>3. QED
    BY <1>1, <1>2, <1>3, <2>1, <2>2 DEF ChainInv, LastHashIsTail, SerialLogIsChained, IsLog
<1>7. QED
    BY <1>5, <1>6

LEMMA NextChain == ChainInv /\ [Next]_vars => ChainInv'
<1> SUFFICES ASSUME ChainInv, [Next]_vars PROVE ChainInv'
    OBVIOUS
<1>1. ASSUME NEW c \in Calls, AppendBegin(c) PROVE ChainInv'
    BY <1>1, BeginChain
<1>2. ASSUME NEW c \in Calls, AppendEnd(c) PROVE ChainInv'
    BY <1>2, EndChain
<1>3. ASSUME UNCHANGED <<trail, appends, compacted>> PROVE ChainInv'
    BY <1>3 DEF trail, appends, ChainInv, IsLog, CallsOK, LastHashIsTail, OneInFlight,
                Hashing, SerialLogIsChained, ChainIntact, Chained
<1>4. CASE VerifyBegin \/ VerifyResume
    BY <1>3, <1>4 DEF VerifyBegin, VerifyResume
<1>5. ASSUME NEW from \in 1..Len(entries), Compact(from) PROVE ChainInv'
    BY <1>5, CompactChain
<1>6. ASSUME NEW s \in Snapshots(entries), Restart(s) PROVE ChainInv'
    BY <1>6, RestartChain
<1>7. CASE UNCHANGED vars
    BY <1>3, <1>7 DEF vars
<1>8. QED
    BY <1>1, <1>2, <1>4, <1>5, <1>6, <1>7 DEF Next

LEMMA ChainInvariant == Spec => []ChainInv
BY InitChain, NextChain, PTL DEF Spec

\* lastHash is the hash of the newest entry in every reachable state, also when
\* appends overlap, the log is compacted, or the process restarts.
THEOREM TailIsKept == Spec => []LastHashIsTail
<1>1. ChainInv => LastHashIsTail
    BY DEF ChainInv
<1>2. QED
    BY <1>1, ChainInvariant, PTL

\* Callers that await each append always hold a log that is a correct chain, and
\* the append in flight will extend it.
THEOREM SerialLogsAreChains == Spec => []SerialLogIsChained
<1>1. ChainInv => SerialLogIsChained
    BY DEF ChainInv
<1>2. QED
    BY <1>1, ChainInvariant, PTL

-----------------------------------------------------------------------------
(* Verification raises no false alarm *)

\* While the log is a chain, verify() has found nothing, and holds the entry it
\* awaits the digest of; the log only grows behind the part it looks at.
VerifierOK ==
    ~overlapped /\ ~compacted =>
        /\ verdict \notin {"tampered", "threw"}
        /\ n \in Nat /\ n <= Len(entries)
        /\ verdict = "hashing" => /\ at \in 0..(n - 1)
                                  /\ held = entries[at + 1]
                                  /\ tampered = {}

\* On a correct chain verify() stops at the next entry, or at the end, and has
\* nothing to report.
LEMMA ScanFindsNothing ==
    ASSUME IsLog(entries), Chained(key, entries),
           NEW len \in Nat, len <= Len(entries), NEW i \in 0..len,
           Scan(i, len, {})
    PROVE  /\ tampered' = {} /\ n' = len
           /\ \/ verdict' = "valid"
              \/ /\ verdict' = "hashing"
                 /\ at' \in 0..(len - 1)
                 /\ held' = entries[at' + 1]
<1> DEFINE stops == {j \in i..len : j = len \/ j >= Len(entries) \/ Linked(entries, j)}
           stop  == CHOOSE j \in stops : \A k \in stops : j <= k
<1>1. Len(entries) \in Nat
    BY LogLength
<1>2. i \in stops
  <2>1. CASE i = len
    BY <2>1
  <2>2. CASE i # len
    <3>1. i + 1 \in 1..Len(entries) /\ (i # 0 => i + 1 # 1) /\ (i + 1) - 1 = i
        BY <1>1, <2>2
    <3>2. entries[i + 1].previousHash = ExpectedPrevious(entries, i)
        BY <3>1 DEF Chained, ExpectedPrevious
    <3>3. QED
        BY <3>2 DEF Linked
  <2>3. QED
    BY <2>1, <2>2
<1>3. \A k \in stops : i <= k
    OBVIOUS
<1>4. stop \in stops /\ \A k \in stops : stop <= k
    BY <1>2, <1>3
<1>5. stop = i
    BY <1>2, <1>3, <1>4
<1>6. /\ tampered' = {} \cup i..(stop - 1) /\ n' = len
      /\ \/ stop = len /\ verdict' = IF {} \cup i..(stop - 1) = {} THEN "valid" ELSE "tampered"
         \/ stop < len /\ stop >= Len(entries)
         \/ stop < len /\ verdict' = "hashing" /\ at' = stop /\ held' = entries[stop + 1]
    BY DEF Scan
<1> HIDE DEF stop, stops
<1>7. {} \cup i..(stop - 1) = {}
    BY <1>5
<1>8. ~(stop < len /\ stop >= Len(entries))
    BY <1>1, <1>5
<1>9. CASE stop = len /\ verdict' = IF {} \cup i..(stop - 1) = {} THEN "valid" ELSE "tampered"
    BY <1>6, <1>7, <1>9
<1>10. CASE stop < len /\ verdict' = "hashing" /\ at' = stop /\ held' = entries[stop + 1]
    BY <1>5, <1>6, <1>7, <1>10
<1>11. QED
    BY <1>6, <1>8, <1>9, <1>10

LEMMA VerifyBeginOK == ChainInv /\ VerifierOK /\ VerifyBegin => VerifierOK'
<1> SUFFICES ASSUME ChainInv, VerifyBegin, ~overlapped', ~compacted'
             PROVE  /\ verdict' \notin {"tampered", "threw"}
                    /\ n' \in Nat /\ n' <= Len(entries')
                    /\ verdict' = "hashing" => /\ at' \in 0..(n' - 1)
                                               /\ held' = entries'[at' + 1]
                                               /\ tampered' = {}
    BY DEF VerifierOK
<1>1. entries' = entries /\ IsLog(entries) /\ Chained(key, entries)
    BY DEF VerifyBegin, trail, appends, ChainInv, SerialLogIsChained, ChainIntact
<1>2. Len(entries) \in Nat /\ (entries # <<>> => 1 \in 1..Len(entries))
    BY <1>1, LogLength
<1>3. (IF entries # <<>> /\ entries[1].index # 0 THEN {0} ELSE {}) = {}
  <2>1. entries # <<>> => entries[1].index = 0
    BY <1>1, <1>2 DEF Chained
  <2>2. QED
    BY <2>1
<1>4. Scan(0, Len(entries), {})
    BY <1>3 DEF VerifyBegin
<1>5. QED
    BY <1>1, <1>2, <1>4, ScanFindsNothing

LEMMA VerifyResumeOK == ChainInv /\ VerifierOK /\ VerifyResume => VerifierOK'
<1> SUFFICES ASSUME ChainInv, VerifierOK, VerifyResume, ~overlapped', ~compacted'
             PROVE  /\ verdict' \notin {"tampered", "threw"}
                    /\ n' \in Nat /\ n' <= Len(entries')
                    /\ verdict' = "hashing" => /\ at' \in 0..(n' - 1)
                                               /\ held' = entries'[at' + 1]
                                               /\ tampered' = {}
    BY DEF VerifierOK
<1>1. /\ entries' = entries /\ IsLog(entries) /\ Chained(key, entries)
      /\ verdict = "hashing" /\ at \in 0..(n - 1) /\ n \in Nat /\ n <= Len(entries)
      /\ held = entries[at + 1] /\ tampered = {}
    BY DEF VerifyResume, trail, appends, ChainInv, SerialLogIsChained, ChainIntact, VerifierOK
<1>2. Len(entries) \in Nat
    BY <1>1, LogLength
<1>3. at + 1 \in 1..Len(entries) /\ (at + 1) - 1 = at /\ at + 1 \in 0..n
    BY <1>1, <1>2
<1>4. Genuine(key, held, at)
    BY <1>1, <1>3 DEF Genuine, Chained
<1>5. Scan(at + 1, n, {})
  <2>1. tampered \cup (IF Genuine(key, held, at) THEN {} ELSE {at}) = {}
    BY <1>1, <1>4
  <2>2. QED
    BY <2>1 DEF VerifyResume
<1>6. QED
    BY <1>1, <1>3, <1>5, ScanFindsNothing

\* No verification of a log whose callers awaited each append, however it
\* interleaves with further appends, ends in an alarm or an exception.
THEOREM NoAlarmIsFalse == Spec => []NoFalseAlarm
<1>1. Init => VerifierOK
  <2>1. Len(<<>>) = 0
    BY <<>> \in Seq({}), EmptySeq
  <2>2. QED
    BY <2>1 DEF Init, VerifierOK
<1>2. ChainInv /\ VerifierOK /\ [Next]_vars => VerifierOK'
  <2> SUFFICES ASSUME ChainInv, VerifierOK, [Next]_vars PROVE VerifierOK'
    OBVIOUS
  <2>1. ASSUME NEW c \in Calls, AppendBegin(c) PROVE VerifierOK'
    BY <2>1 DEF AppendBegin, trail, verifier, VerifierOK
  <2>2. ASSUME NEW c \in Calls, AppendEnd(c) PROVE VerifierOK'
    <3>1. PICK e : entries' = Append(entries, e)
        BY <2>2 DEF AppendEnd
    <3>2. /\ Len(entries) \in Nat
          /\ Len(entries') = Len(entries) + 1
          /\ \A i \in 1..Len(entries) : entries'[i] = entries[i]
        BY <3>1, AppendIsLog, LogLength DEF ChainInv
    <3>3. /\ UNCHANGED <<overlapped, compacted>>
          /\ UNCHANGED <<verdict, n, at, held, tampered>>
        BY <2>2 DEF AppendEnd, verifier
    <3>4. QED
        BY <3>2, <3>3 DEF VerifierOK
  <2>3. CASE VerifyBegin
    BY <2>3, VerifyBeginOK
  <2>4. CASE VerifyResume
    BY <2>4, VerifyResumeOK
  <2>5. ASSUME NEW from \in 1..Len(entries), Compact(from) PROVE VerifierOK'
    BY <2>5 DEF Compact, VerifierOK
  <2>6. ASSUME NEW s \in Snapshots(entries), Restart(s) PROVE VerifierOK'
    <3>1. verdict' = "none" /\ n' = 0 /\ IsLog(entries')
        BY <2>6, RestartChain DEF Restart, ChainInv
    <3>2. Len(entries') \in Nat
        BY <3>1, LogLength
    <3>3. QED
        BY <3>1, <3>2 DEF VerifierOK
  <2>7. CASE UNCHANGED vars
    BY <2>7 DEF vars, trail, appends, verifier, VerifierOK
  <2>8. QED
    BY <2>1, <2>2, <2>3, <2>4, <2>5, <2>6, <2>7 DEF Next
<1>3. VerifierOK => NoFalseAlarm
    BY DEF VerifierOK, NoFalseAlarm
<1>4. QED
    BY <1>1, <1>2, <1>3, ChainInvariant, PTL DEF Spec

-----------------------------------------------------------------------------
(* A verification that interleaves with appends judges what it began with *)

\* What verify() has reported of the first len entries once it is past the
\* first m of them.
Found(k, es, len, m) ==
    {i \in 0..(len - 1) :
        \/ i = 0 /\ es[1].index # 0
        \/ i < m /\ (~Linked(es, i) \/ ~Genuine(k, es[i + 1], i))}

\* Nonempty sets of naturals have a least element.
LEMMA LeastNatural ==
    ASSUME NEW S, S \subseteq Nat, S # {}
    PROVE  \E x \in S : \A y \in S : x <= y
<1> DEFINE R == {ss \in Nat \X Nat : ss[1] < ss[2]}
<1>1. IsWellFoundedOn(R, Nat)
    BY NatLessThanWellFounded DEF OpToRel
<1>2. PICK x \in S : \A y \in S : ~(<<y, x>> \in R)
    BY <1>1, WFMin
<1>3. ASSUME NEW y \in S PROVE x <= y
  <2>1. <<y, x>> \in Nat \X Nat /\ ~(y < x)
    BY <1>2
  <2>2. QED
    BY <2>1
<1>4. QED
    BY <1>3

\* Entries that are appended do not change what is said of the first ones.
LEMMA FoundIsKept ==
    ASSUME NEW k, NEW es, NEW fs, NEW len \in Nat, NEW m,
           \A i \in 1..len : fs[i] = es[i]
    PROVE  Found(k, fs, len, m) = Found(k, es, len, m)
<1>1. ASSUME NEW i \in 0..(len - 1)
      PROVE  /\ fs[1] = es[1]
             /\ fs[i + 1] = es[i + 1]
             /\ ExpectedPrevious(fs, i) = ExpectedPrevious(es, i)
    BY DEF ExpectedPrevious
<1>2. QED
    BY <1>1 DEF Found, Linked, Genuine

\* Once it is past all of them, that is what it reports of the prefix alone.
LEMMA FoundIsTampered ==
    ASSUME NEW k, NEW es, IsLog(es), NEW len \in Nat, len <= Len(es)
    PROVE  Found(k, es, len, len) = Tampered(k, SubSeq(es, 1, len))
<1> DEFINE fs == SubSeq(es, 1, len)
<1>1. Len(es) \in Nat
    BY LogLength
<1>2. Len(fs) = len /\ \A i \in 1..len : fs[i] = es[i]
  <2>1. PICK S : es \in Seq(S)
    BY DEF IsLog
  <2>2. \A i \in 1..len : es[i] \in S
    BY <1>1, <2>1, ElementOfSeq
  <2>3. QED
    BY <2>2, SubSeqProperties
<1> HIDE DEF fs
<1>3. Found(k, es, len, len) = Found(k, fs, len, len)
    BY <1>2, FoundIsKept
<1>4. \A i \in 0..(len - 1) : i < len
    OBVIOUS
<1>5. QED
    BY <1>2, <1>3, <1>4 DEF Found, Tampered, fs

\* From position i on verify() reports the entries whose link is wrong, up to
\* the next one that links.
LEMMA ScanReports ==
    ASSUME IsLog(entries), NEW len \in Nat, len <= Len(entries), NEW i \in 0..len,
           Scan(i, len, Found(key, entries, len, i))
    PROVE  /\ n' = len
           /\ \/ /\ verdict' \in {"valid", "tampered"}
                 /\ tampered' = Found(key, entries, len, len)
              \/ /\ verdict' = "hashing"
                 /\ at' \in 0..(len - 1)
                 /\ held' = entries[at' + 1]
                 /\ Linked(entries, at')
                 /\ tampered' = Found(key, entries, len, at')
<1> DEFINE stops == {j \in i..len : j = len \/ j >= Len(entries) \/ Linked(entries, j)}
           stop  == CHOOSE j \in stops : \A k \in stops : j <= k
           bad   == Found(key, entries, len, i)
<1>1. Len(entries) \in Nat
    BY LogLength
<1>2. len \in stops /\ stops \subseteq Nat
    OBVIOUS
<1>3. stop \in stops /\ \A k \in stops : stop <= k
    BY <1>2, LeastNatural
<1>4. /\ tampered' = bad \cup i..(stop - 1) /\ n' = len
      /\ \/ /\ stop = len
            /\ verdict' = IF bad \cup i..(stop - 1) = {} THEN "valid" ELSE "tampered"
         \/ stop < len /\ stop >= Len(entries)
         \/ stop < len /\ verdict' = "hashing" /\ at' = stop /\ held' = entries[stop + 1]
    BY DEF Scan
<1>5. stop \in i..len /\ (stop = len \/ Linked(entries, stop))
    BY <1>1, <1>3
<1>6. \A j \in i..(stop - 1) : ~Linked(entries, j)
  <2>1. SUFFICES ASSUME NEW j \in i..(stop - 1), Linked(entries, j) PROVE FALSE
    OBVIOUS
  <2>2. j \in stops /\ ~(stop <= j)
    BY <1>5, <2>1
  <2>3. QED
    BY <1>3, <2>2
<1> HIDE DEF stop, stops
<1>7. bad \cup i..(stop - 1) = Found(key, entries, len, stop)
  <2>1. ASSUME NEW j \in 0..(len - 1)
        PROVE  j < stop <=> j < i \/ j \in i..(stop - 1)
    BY <1>5
  <2>2. i..(stop - 1) \subseteq 0..(len - 1)
    BY <1>5
  <2>3. QED
    BY <1>6, <2>1, <2>2 DEF Found
<1>8. ~(stop < len /\ stop >= Len(entries))
    BY <1>1, <1>5
<1>9. CASE stop = len /\ verdict' = IF bad \cup i..(stop - 1) = {} THEN "valid" ELSE "tampered"
    BY <1>4, <1>7, <1>9
<1>10. CASE stop < len /\ verdict' = "hashing" /\ at' = stop /\ held' = entries[stop + 1]
    BY <1>4, <1>5, <1>7, <1>10
<1>11. QED
    BY <1>4, <1>8, <1>9, <1>10

\* While nothing was compacted: the entries a verification began with are still
\* there; it holds the entry whose digest it awaits, and has reported what is
\* wrong before it; once it ended it has reported everything.
PrefixInv ==
    ~compacted =>
        /\ n \in Nat /\ n <= Len(entries)
        /\ verdict = "hashing" => /\ at \in 0..(n - 1)
                                  /\ held = entries[at + 1]
                                  /\ Linked(entries, at)
                                  /\ tampered = Found(key, entries, n, at)
        /\ verdict \in {"valid", "tampered"} => tampered = Found(key, entries, n, n)

\* What verify() reports before it looks at any link is the number of the first
\* entry.
LEMMA BeginPrefix == ChainInv /\ PrefixInv /\ VerifyBegin => PrefixInv'
<1> SUFFICES ASSUME ChainInv, VerifyBegin PROVE PrefixInv'
    OBVIOUS
<1>1. entries' = entries /\ key' = key /\ IsLog(entries)
    BY DEF VerifyBegin, trail, ChainInv
<1>2. Len(entries) \in Nat /\ (entries # <<>> <=> Len(entries) # 0)
  <2>1. PICK S : entries \in Seq(S)
    BY <1>1 DEF IsLog
  <2>2. QED
    BY <2>1, LenProperties, EmptySeq
<1>3. (IF entries # <<>> /\ entries[1].index # 0 THEN {0} ELSE {})
        = Found(key, entries, Len(entries), 0)
  <2>1. \A i \in 0..(Len(entries) - 1) : ~(i < 0)
    OBVIOUS
  <2>2. 0 \in 0..(Len(entries) - 1) <=> entries # <<>>
    BY <1>2
  <2>3. QED
    BY <2>1, <2>2 DEF Found
<1>4. Scan(0, Len(entries), Found(key, entries, Len(entries), 0))
    BY <1>3 DEF VerifyBegin
<1>5. 0 \in 0..Len(entries) /\ Len(entries) <= Len(entries)
    BY <1>2
<1>6. QED
    BY <1>1, <1>2, <1>4, <1>5, ScanReports DEF PrefixInv

\* The entry it holds was the one at its position, so its digest decides.
LEMMA ResumePrefix == ChainInv /\ PrefixInv /\ VerifyResume => PrefixInv'
<1> SUFFICES ASSUME ChainInv, PrefixInv, VerifyResume, ~compacted PROVE PrefixInv'
    BY DEF PrefixInv, VerifyResume
<1>1. /\ entries' = entries /\ key' = key /\ IsLog(entries)
      /\ n \in Nat /\ n <= Len(entries)
      /\ at \in 0..(n - 1) /\ held = entries[at + 1] /\ Linked(entries, at)
      /\ tampered = Found(key, entries, n, at)
    BY DEF VerifyResume, trail, ChainInv, PrefixInv
<1>2. tampered \cup (IF Genuine(key, held, at) THEN {} ELSE {at})
        = Found(key, entries, n, at + 1)
  <2>1. \A i \in 0..(n - 1) : i < at + 1 <=> i < at \/ i = at
    BY <1>1
  <2>2. QED
    BY <1>1, <2>1 DEF Found
<1>3. Scan(at + 1, n, Found(key, entries, n, at + 1))
    BY <1>2, Zenon DEF VerifyResume
<1>4. at + 1 \in 0..n
    BY <1>1
<1>5. QED
    BY <1>1, <1>3, <1>4, ScanReports DEF PrefixInv

\* An append, wherever its entry links, stands behind everything verify() looks
\* at.
LEMMA AppendPrefix ==
    ASSUME ChainInv, PrefixInv, NEW c \in Calls, AppendEnd(c)
    PROVE  PrefixInv'
<1> SUFFICES ASSUME ~compacted PROVE PrefixInv'
    BY DEF PrefixInv, AppendEnd
<1>1. PICK e : entries' = Append(entries, e)
    BY DEF AppendEnd
<1>2. /\ Len(entries) \in Nat
      /\ Len(entries') = Len(entries) + 1
      /\ \A i \in 1..Len(entries) : entries'[i] = entries[i]
    BY <1>1, AppendIsLog, LogLength DEF ChainInv
<1>3. key' = key /\ UNCHANGED <<verdict, n, at, held, tampered>>
    BY DEF AppendEnd, verifier
<1>4. n \in Nat /\ n <= Len(entries) /\ \A i \in 1..n : entries'[i] = entries[i]
    BY <1>2 DEF PrefixInv
<1>5. \A m : Found(key, entries', n, m) = Found(key, entries, n, m)
    BY <1>4, FoundIsKept
<1>6. \A i \in 0..(n - 1) : Linked(entries', i) <=> Linked(entries, i)
    BY <1>4 DEF Linked, ExpectedPrevious
<1>7. QED
    BY <1>2, <1>3, <1>4, <1>5, <1>6 DEF PrefixInv

LEMMA NextPrefix == ChainInv /\ PrefixInv /\ [Next]_vars => PrefixInv'
<1> SUFFICES ASSUME ChainInv, PrefixInv, [Next]_vars PROVE PrefixInv'
    OBVIOUS
<1>1. ASSUME UNCHANGED <<trail, verifier, compacted>> PROVE PrefixInv'
    BY <1>1 DEF trail, verifier, PrefixInv, Found, Linked, Genuine, ExpectedPrevious
<1>2. ASSUME NEW c \in Calls, AppendBegin(c) PROVE PrefixInv'
    BY <1>1, <1>2 DEF AppendBegin
<1>3. ASSUME NEW c \in Calls, AppendEnd(c) PROVE PrefixInv'
    BY <1>3, AppendPrefix
<1>4. CASE VerifyBegin \/ VerifyResume
    BY <1>4, BeginPrefix, ResumePrefix
<1>5. ASSUME NEW from \in 1..Len(entries), Compact(from) PROVE PrefixInv'
    BY <1>5 DEF Compact, PrefixInv
<1>6. ASSUME NEW s \in Snapshots(entries), Restart(s) PROVE PrefixInv'
  <2>1. verdict' = "none" /\ n' = 0 /\ IsLog(entries')
    BY <1>6, RestartChain DEF Restart, ChainInv
  <2>2. Len(entries') \in Nat
    BY <2>1, LogLength
  <2>3. QED
    BY <2>1, <2>2 DEF PrefixInv
<1>7. CASE UNCHANGED vars
    BY <1>1, <1>7 DEF vars
<1>8. QED
    BY <1>2, <1>3, <1>4, <1>5, <1>6, <1>7 DEF Next

\* A verification during which entries are appended, in whatever order their
\* digests come, reports exactly what is wrong in the entries it began with.
THEOREM VerdictsAreOfPrefixes == Spec => []VerdictIsOfPrefix
<1>1. Init => PrefixInv
  <2>1. Len(<<>>) = 0
    BY <<>> \in Seq({}), EmptySeq
  <2>2. QED
    BY <2>1 DEF Init, PrefixInv
<1>2. ChainInv /\ PrefixInv => VerdictIsOfPrefix
    BY FoundIsTampered DEF ChainInv, PrefixInv, VerdictIsOfPrefix
<1>3. QED
    BY <1>1, <1>2, NextPrefix, ChainInvariant, PTL DEF Spec

-----------------------------------------------------------------------------
(* What a restart restores, and what a running process may do to the log *)

\* Entries are records of the four fields, whatever happened to the log.
IsEntry(e) == e = [index |-> e.index, payload |-> e.payload,
                   previousHash |-> e.previousHash, hash |-> e.hash]
AreEntries(es) == \A i \in 1..Len(es) : IsEntry(es[i])

LEMMA LogIsFunction ==
    ASSUME NEW es, IsLog(es)
    PROVE  es = [i \in 1..Len(es) |-> es[i]]
<1>1. PICK S : es \in Seq(S)
    BY DEF IsLog
<1>2. es \in [1..Len(es) -> S]
    BY <1>1, LenProperties
<1>3. QED
    BY <1>2

LEMMA FunctionIsLog ==
    ASSUME NEW len \in Nat, NEW f, f = [i \in 1..len |-> f[i]]
    PROVE  IsLog(f) /\ Len(f) = len
<1> DEFINE S == {f[i] : i \in 1..len}
<1>1. f \in [1..len -> S]
    OBVIOUS
<1>2. f \in Seq(S)
    BY <1>1, SeqDef
<1>3. Len(f) \in Nat /\ DOMAIN f = 1..Len(f) /\ DOMAIN f = 1..len
    BY <1>1, <1>2, LenProperties
<1>4. Len(f) = len
  <2>1. \A m \in Nat : 1..m = 1..len => m = len
    OBVIOUS
  <2>2. QED
    BY <1>3, <2>1
<1>5. QED
    BY <1>2, <1>4 DEF IsLog

LEMMA RenumberedEntry ==
    ASSUME NEW e, IsEntry(e), NEW x, NEW y
    PROVE  [e EXCEPT !.index = x, !.previousHash = y]
             = [index |-> x, payload |-> e.payload, previousHash |-> y, hash |-> e.hash]
<1>1. PICK a, b, c, d : e = [index |-> a, payload |-> b, previousHash |-> c, hash |-> d]
    BY DEF IsEntry
<1> DEFINE f == [e EXCEPT !.index = x]
<1>2. f = [index |-> x, payload |-> b, previousHash |-> c, hash |-> d]
    BY <1>1
<1> HIDE DEF f
<1>3. [f EXCEPT !.previousHash = y] = [index |-> x, payload |-> b, previousHash |-> y, hash |-> d]
    BY <1>2
<1>4. e.payload = b /\ e.hash = d
    BY <1>1
<1>5. QED
    BY <1>3, <1>4 DEF f

LEMMA PrefixByEntries ==
    ASSUME NEW s, NEW t, IsLog(t), Len(s) \in Nat, Len(s) <= Len(t),
           \A i \in 1..Len(s) : s[i] = t[i]
    PROVE  IsPrefix(s, t)
<1>1. PICK T : t \in Seq(T)
    BY DEF IsLog
<1>2. Len(t) \in Nat /\ \A i \in 1..Len(t) : t[i] \in T
    BY <1>1, LenProperties, ElementOfSeq
<1>3. \A i \in 1..Len(s) : t[i] \in T /\ s[i] \in T
    BY <1>2
<1> DEFINE len == Len(s)
           a == SubSeq(s, 1, len)
           b == SubSeq(t, 1, len)
<1>4. /\ a \in Seq(T) /\ Len(a) = len /\ \A i \in 1..len : a[i] = s[i]
      /\ b \in Seq(T) /\ Len(b) = len /\ \A i \in 1..len : b[i] = t[i]
    BY <1>3, SubSeqProperties
<1> HIDE DEF a, b
<1>5. a = b
    BY <1>4, SeqEqual
<1>6. QED
    BY <1>5 DEF IsPrefix, a, b

LEMMA RemoveAtEntries ==
    ASSUME NEW es, IsLog(es), NEW i \in 1..Len(es)
    PROVE  /\ Len(RemoveAt(es, i)) = Len(es) - 1
           /\ \A j \in 1..(Len(es) - 1) :
                 RemoveAt(es, i)[j] = IF j < i THEN es[j] ELSE es[j + 1]
<1>1. PICK S : es \in Seq(S)
    BY DEF IsLog
<1>2. Len(es) \in Nat /\ \A j \in 1..Len(es) : es[j] \in S
    BY <1>1, LenProperties, ElementOfSeq
<1> DEFINE a == SubSeq(es, 1, i - 1)
           b == SubSeq(es, i + 1, Len(es))
<1>3. a \in Seq(S) /\ Len(a) = i - 1 /\ \A j \in 1..(i - 1) : a[j] = es[j]
  <2>1. \A j \in 1..(i - 1) : es[j] \in S
    BY <1>2
  <2>2. QED
    BY <1>2, <2>1, SubSeqProperties
<1>4. /\ b \in Seq(S) /\ Len(b) = Len(es) - i
      /\ \A j \in 1..(Len(es) - i) : b[j] = es[i + j]
  <2>1. \A j \in (i + 1)..Len(es) : es[j] \in S
    BY <1>2
  <2>2. /\ b \in Seq(S)
        /\ Len(b) = IF i + 1 <= Len(es) THEN Len(es) - (i + 1) + 1 ELSE 0
        /\ \A j \in 1..(Len(es) - (i + 1) + 1) : b[j] = es[(i + 1) + j - 1]
    BY <1>2, <2>1, SubSeqProperties
  <2>3. QED
    BY <1>2, <2>2
<1> HIDE DEF a, b
<1>5. /\ Len(a \o b) = Len(a) + Len(b)
      /\ \A j \in 1..(Len(a) + Len(b)) : (a \o b)[j] = IF j <= Len(a) THEN a[j] ELSE b[j - Len(a)]
    BY <1>3, <1>4, ConcatProperties
<1>6. RemoveAt(es, i) = a \o b
    BY DEF RemoveAt, a, b
<1>7. Len(RemoveAt(es, i)) = Len(es) - 1
  <2>1. Len(a) + Len(b) = Len(es) - 1
    BY <1>2, <1>3, <1>4
  <2>2. QED
    BY <1>5, <1>6, <2>1, Zenon
<1>8. ASSUME NEW j \in 1..(Len(es) - 1)
      PROVE  RemoveAt(es, i)[j] = IF j < i THEN es[j] ELSE es[j + 1]
  <2>1. RemoveAt(es, i)[j] = IF j <= i - 1 THEN a[j] ELSE b[j - (i - 1)]
    <3>1. j \in 1..(Len(a) + Len(b)) /\ Len(a) = i - 1
        BY <1>2, <1>3, <1>4
    <3>2. (a \o b)[j] = IF j <= Len(a) THEN a[j] ELSE b[j - Len(a)]
        BY <1>5, <3>1, Zenon
    <3>3. QED
        BY <1>6, <3>1, <3>2, Zenon
  <2>2. CASE j < i
    BY <1>2, <1>3, <2>1, <2>2
  <2>3. CASE ~(j < i)
    <3>1. j - (i - 1) \in 1..(Len(es) - i) /\ i + (j - (i - 1)) = j + 1
        BY <1>2, <2>3
    <3>2. QED
        BY <1>2, <1>4, <2>1, <2>3, <3>1
  <2>4. QED
    BY <2>2, <2>3
<1>9. QED
    BY <1>7, <1>8

\* If two entries of a log are exchanged, each stands at the other's position.
LEMMA ExchangedEntries ==
    ASSUME NEW es, IsLog(es), NEW i \in 1..Len(es), NEW j \in 1..Len(es)
    PROVE  LET s == [es EXCEPT ![i] = es[j], ![j] = es[i]]
           IN  /\ Len(s) = Len(es)
               /\ \A m \in 1..Len(es) :
                     s[m] = IF m = j THEN es[i] ELSE IF m = i THEN es[j] ELSE es[m]
<1> DEFINE r == [es EXCEPT ![i] = es[j]]
           s == [r EXCEPT ![j] = es[i]]
<1>1. IsLog(r) /\ Len(r) = Len(es) /\ IsLog(s) /\ Len(s) = Len(r)
    BY ExceptIsLog
<1>2. DOMAIN es = 1..Len(es)
    BY LogLength
<1>3. \A m \in 1..Len(es) : s[m] = IF m = j THEN es[i] ELSE IF m = i THEN es[j] ELSE es[m]
    BY <1>2
<1>4. QED
    BY <1>1, <1>3

\* An altered payload contradicts the digest, an exchanged or missing entry the
\* numbers of those that moved; only the newest can be missing.
LEMMA VerifiedIsPrefix ==
    ASSUME NEW k, NEW es, IsLog(es), AreEntries(es), Chained(k, es),
           NEW s \in Snapshots(es), Chained(NoKey, s)
    PROVE  IsPrefix(s, es)
<1>1. Len(es) \in Nat /\ DOMAIN es = 1..Len(es)
    BY LogLength
<1>2. CASE s = es
    BY <1>1, <1>2, PrefixByEntries
<1>3. ASSUME NEW i \in 1..Len(es), NEW c \in Calls, s = [es EXCEPT ![i].payload = c]
      PROVE  IsPrefix(s, es)
  <2>1. s[i] = [es[i] EXCEPT !.payload = c] /\ Len(s) = Len(es)
    BY <1>1, <1>3, ExceptIsLog
  <2>2. /\ s[i] = [index |-> es[i].index, payload |-> c,
                   previousHash |-> es[i].previousHash, hash |-> es[i].hash]
    BY <2>1 DEF AreEntries, IsEntry
  <2>3. s[i].hash = Digest(NoKey, s[i]) /\ es[i].hash = Digest(k, es[i])
    BY <2>1 DEF Chained
  <2>4. c = es[i].payload
    BY <2>2, <2>3 DEF Digest
  <2>5. s[i] = es[i]
    BY <2>2, <2>4 DEF AreEntries, IsEntry
  <2>6. \A m \in 1..Len(es) : s[m] = es[m]
    BY <1>1, <1>3, <2>5
  <2>7. QED
    BY <1>1, <2>1, <2>6, PrefixByEntries
<1>4. ASSUME NEW i \in 1..Len(es), s = RemoveAt(es, i) PROVE IsPrefix(s, es)
  <2>1. /\ Len(s) = Len(es) - 1
        /\ \A j \in 1..(Len(es) - 1) : s[j] = IF j < i THEN es[j] ELSE es[j + 1]
    BY <1>4, RemoveAtEntries
  <2>2. CASE i = Len(es)
    BY <1>1, <2>1, <2>2, PrefixByEntries
  <2>3. CASE i # Len(es)
    <3> DEFINE last == Len(es)
    <3>5. last \in Nat /\ i \in 1..last /\ i # last
        BY <1>1, <2>3
    <3> HIDE DEF last
    <3>6. i \in 1..(last - 1) /\ i + 1 \in 1..last /\ ~(i < i)
        BY <3>5
    <3>1. i \in 1..(Len(es) - 1) /\ i + 1 \in 1..Len(es) /\ ~(i < i)
        BY <3>6 DEF last
    <3>2. s[i] = es[i + 1] /\ i \in 1..Len(s)
        BY <2>1, <3>1, Zenon
    <3>3. s[i].index = i - 1 /\ es[i + 1].index = (i + 1) - 1
        BY <3>1, <3>2 DEF Chained
    <3>4. QED
        BY <3>1, <3>2, <3>3
  <2>4. QED
    BY <2>2, <2>3
<1>5. ASSUME NEW i \in 1..Len(es), NEW j \in 1..Len(es),
             s = [es EXCEPT ![i] = es[j], ![j] = es[i]]
      PROVE  IsPrefix(s, es)
  <2>1. /\ Len(s) = Len(es)
        /\ \A m \in 1..Len(es) :
              s[m] = IF m = j THEN es[i] ELSE IF m = i THEN es[j] ELSE es[m]
    BY <1>5, ExchangedEntries
  <2>2. s[j] = es[i] /\ s[j].index = j - 1 /\ es[i].index = i - 1
    BY <2>1 DEF Chained
  <2>3. i = j
    BY <2>2
  <2>4. \A m \in 1..Len(es) : s[m] = es[m]
    BY <2>1, <2>3
  <2>5. QED
    BY <1>1, <2>1, <2>4, PrefixByEntries
<1>6. QED
    BY <1>2, <1>3, <1>4, <1>5 DEF Snapshots

\* The log is made of entries, and restarts are counted.
LogInv == AreEntries(entries) /\ restarts \in Nat

LEMMA SnapshotEntries ==
    ASSUME NEW es, IsLog(es), AreEntries(es), NEW s \in Snapshots(es)
    PROVE  AreEntries(s)
<1>1. Len(es) \in Nat /\ DOMAIN es = 1..Len(es)
    BY LogLength
<1>2. ASSUME NEW i \in 1..Len(es), NEW c \in Calls, s = [es EXCEPT ![i].payload = c]
      PROVE  AreEntries(s)
  <2>1. s[i] = [es[i] EXCEPT !.payload = c] /\ Len(s) = Len(es)
    BY <1>1, <1>2, ExceptIsLog
  <2>2. s[i] = [index |-> es[i].index, payload |-> c,
                previousHash |-> es[i].previousHash, hash |-> es[i].hash]
    BY <2>1 DEF AreEntries, IsEntry
  <2>3. IsEntry(s[i])
    BY <2>2 DEF IsEntry
  <2>4. \A m \in 1..Len(es) : m # i => s[m] = es[m]
    BY <1>1, <1>2
  <2>5. QED
    BY <2>1, <2>3, <2>4 DEF AreEntries
<1>3. ASSUME NEW i \in 1..Len(es), s = RemoveAt(es, i) PROVE AreEntries(s)
  <2>1. /\ Len(s) = Len(es) - 1
        /\ \A j \in 1..(Len(es) - 1) : s[j] = IF j < i THEN es[j] ELSE es[j + 1]
    BY <1>3, RemoveAtEntries
  <2>2. \A j \in 1..Len(s) : j \in 1..Len(es) /\ j + 1 \in 1..Len(es)
    BY <1>1, <2>1
  <2>3. QED
    BY <2>1, <2>2 DEF AreEntries
<1>4. ASSUME NEW i \in 1..Len(es), NEW j \in 1..Len(es),
             s = [es EXCEPT ![i] = es[j], ![j] = es[i]]
      PROVE  AreEntries(s)
  <2>1. /\ Len(s) = Len(es)
        /\ \A m \in 1..Len(es) :
              s[m] = IF m = j THEN es[i] ELSE IF m = i THEN es[j] ELSE es[m]
    BY <1>4, ExchangedEntries
  <2>2. QED
    BY <2>1 DEF AreEntries
<1>5. QED
    BY <1>2, <1>3, <1>4 DEF Snapshots

\* compact() drops the oldest entries and keeps the payloads of the others.
LEMMA CompactKeepsPayloads ==
    ASSUME ChainInv, LogInv, NEW from \in 1..Len(entries), Compact(from)
    PROVE  /\ AreEntries(entries')
           /\ IsStrictSuffix(Payloads(entries'), Payloads(entries))
<1> DEFINE es == entries
           fs == SubSeq(es, from + 1, Len(es))
           r(i) == [fs[i] EXCEPT !.index = i - 1, !.previousHash = ExpectedPrevious(fs, i - 1)]
<1>1. IsLog(es) /\ Len(es) \in Nat
    BY LogLength DEF ChainInv
<1>2. Len(fs) = Len(es) - from /\ \A i \in 1..(Len(es) - from) : fs[i] = es[from + i]
  <2>1. PICK S : es \in Seq(S)
    BY <1>1 DEF IsLog
  <2>2. \A i \in 1..Len(es) : es[i] \in S
    BY <2>1, ElementOfSeq
  <2>3. \A i \in (from + 1)..Len(es) : es[i] \in S
    BY <1>1, <2>2
  <2>4. /\ Len(fs) = IF from + 1 <= Len(es) THEN Len(es) - (from + 1) + 1 ELSE 0
        /\ \A i \in 1..(Len(es) - (from + 1) + 1) : fs[i] = es[(from + 1) + i - 1]
    BY <1>1, <2>3, SubSeqProperties
  <2>5. QED
    BY <1>1, <2>4
<1>3. entries' = [i \in 1..Len(fs) |-> r(i)]
    BY DEF Compact, Renumber
<1> HIDE DEF fs
<1>4. Len(fs) \in Nat
    BY <1>1, <1>2
<1>5. Len(entries') = Len(fs) /\ \A i \in 1..Len(fs) : entries'[i] = r(i)
  <2>1. entries' = [i \in 1..Len(fs) |-> entries'[i]]
    BY <1>3
  <2>2. QED
    BY <1>3, <1>4, <2>1, FunctionIsLog
<1>6. ASSUME NEW i \in 1..Len(fs)
      PROVE  IsEntry(entries'[i]) /\ entries'[i].payload = es[from + i].payload
  <2>1. from + i \in 1..Len(es) /\ fs[i] = es[from + i]
    BY <1>1, <1>2
  <2>2. IsEntry(fs[i])
    BY <2>1 DEF LogInv, AreEntries
  <2>3. r(i) = [index |-> i - 1, payload |-> fs[i].payload,
                previousHash |-> ExpectedPrevious(fs, i - 1), hash |-> fs[i].hash]
    BY <2>2, RenumberedEntry
  <2>4. QED
    BY <1>5, <2>1, <2>3 DEF IsEntry
<1>7. AreEntries(entries')
    BY <1>5, <1>6 DEF AreEntries
<1> DEFINE p == Payloads(entries')
           q == Payloads(es)
<1>8. /\ Len(p) = Len(es) - from /\ Len(q) = Len(es)
      /\ \A i \in 1..Len(q) : q[i] = es[i].payload
      /\ \A i \in 1..Len(p) : p[i] = q[from + i]
  <2>1. Len(q) = Len(es) /\ \A i \in 1..Len(es) : q[i] = es[i].payload
    BY <1>1 DEF Payloads
  <2>2. Len(p) = Len(es) - from /\ \A i \in 1..Len(p) : p[i] = entries'[i].payload
    <3>1. p = [i \in 1..Len(fs) |-> entries'[i].payload]
        BY <1>5 DEF Payloads
    <3>2. p = [i \in 1..Len(fs) |-> p[i]] /\ \A i \in 1..Len(fs) : p[i] = entries'[i].payload
        BY <3>1
    <3>3. Len(p) = Len(fs)
        BY <1>4, <3>2, FunctionIsLog
    <3>4. QED
        BY <1>2, <3>2, <3>3
  <2>3. ASSUME NEW i \in 1..Len(p)
        PROVE  p[i] = q[from + i]
    <3>1. i \in 1..Len(fs) /\ from + i \in 1..Len(es)
        BY <1>1, <1>2, <2>2
    <3>2. entries'[i].payload = es[from + i].payload
        BY <1>6, <3>1
    <3>3. QED
        BY <2>1, <2>2, <3>1, <3>2
  <2>4. Len(p) = Len(es) - from
    BY <2>2
  <2>5. QED
    BY <2>1, <2>3, <2>4
<1> HIDE DEF p, q
<1>9. /\ Len(Reverse(p)) = Len(p) /\ Len(Reverse(q)) = Len(q)
      /\ \A i \in 1..Len(p) : Reverse(p)[i] = p[Len(p) - i + 1]
      /\ \A i \in 1..Len(q) : Reverse(q)[i] = q[Len(q) - i + 1]
    BY <1>1, <1>8 DEF Reverse
<1>10. \A i \in 1..Len(p) : Reverse(p)[i] = Reverse(q)[i]
  <2>1. SUFFICES ASSUME NEW i \in 1..Len(p) PROVE Reverse(p)[i] = Reverse(q)[i]
    OBVIOUS
  <2>2. /\ i \in 1..Len(q) /\ Len(p) - i + 1 \in 1..Len(p)
        /\ from + (Len(p) - i + 1) = Len(q) - i + 1
    BY <1>1, <1>8
  <2>3. QED
    BY <1>8, <1>9, <2>2
<1>11. IsLog(Reverse(q))
  <2>1. Reverse(q) \in [1..Len(q) -> {Reverse(q)[i] : i \in 1..Len(q)}]
    BY DEF Reverse
  <2>2. Reverse(q) \in Seq({Reverse(q)[i] : i \in 1..Len(q)})
    BY <1>1, <1>8, <2>1, SeqDef
  <2>3. QED
    BY <2>2 DEF IsLog
<1>12. IsPrefix(Reverse(p), Reverse(q))
  <2>1. Len(p) \in Nat /\ Len(p) <= Len(q)
    BY <1>1, <1>8
  <2>2. Len(Reverse(p)) \in Nat /\ Len(Reverse(p)) <= Len(Reverse(q))
    BY <1>9, <2>1, Zenon
  <2>3. \A i \in 1..Len(Reverse(p)) : Reverse(p)[i] = Reverse(q)[i]
    BY <1>9, <1>10, Zenon
  <2>4. QED
    BY <1>11, <2>2, <2>3, PrefixByEntries
<1>13. p # q
    BY <1>1, <1>8
<1>14. QED
    BY <1>7, <1>12, <1>13 DEF IsStrictSuffix, IsSuffix, p, q

LEMMA AppendKeepsLog ==
    ASSUME ChainInv, LogInv, NEW c \in Calls, AppendEnd(c)
    PROVE  AreEntries(entries') /\ IsPrefix(entries, entries')
<1> DEFINE e == [index        |-> draft[c].index,
                 payload      |-> draft[c].payload,
                 previousHash |-> draft[c].previousHash,
                 hash         |-> Digest(key, draft[c])]
<1>1. entries' = Append(entries, e)
    BY DEF AppendEnd
<1>2. IsEntry(e)
    BY DEF IsEntry
<1> HIDE DEF e
<1>3. /\ Len(entries) \in Nat /\ IsLog(entries')
      /\ Len(entries') = Len(entries) + 1
      /\ \A i \in 1..Len(entries) : entries'[i] = entries[i]
      /\ entries'[Len(entries) + 1] = e
    BY <1>1, AppendIsLog, LogLength DEF ChainInv
<1>4. \A i \in 1..Len(entries') : i \in 1..Len(entries) \/ i = Len(entries) + 1
    BY <1>3
<1>5. AreEntries(entries')
    BY <1>2, <1>3, <1>4 DEF AreEntries, LogInv
<1>6. QED
    BY <1>3, <1>5, PrefixByEntries

LEMMA NextLog == ChainInv /\ LogInv /\ [Next]_vars => LogInv'
<1> SUFFICES ASSUME ChainInv, LogInv, [Next]_vars PROVE LogInv'
    OBVIOUS
<1>1. ASSUME UNCHANGED <<trail, restarts>> PROVE LogInv'
    BY <1>1 DEF trail, LogInv, AreEntries
<1>2. ASSUME NEW c \in Calls, AppendBegin(c), UNCHANGED restarts PROVE LogInv'
    BY <1>1, <1>2 DEF AppendBegin
<1>3. ASSUME NEW c \in Calls, AppendEnd(c), UNCHANGED restarts PROVE LogInv'
    BY <1>3, AppendKeepsLog DEF LogInv
<1>4. CASE (VerifyBegin \/ VerifyResume) /\ UNCHANGED restarts
    BY <1>1, <1>4 DEF VerifyBegin, VerifyResume
<1>5. ASSUME NEW from \in 1..Len(entries), Compact(from), UNCHANGED restarts PROVE LogInv'
    BY <1>5, CompactKeepsPayloads DEF LogInv
<1>6. ASSUME NEW s \in Snapshots(entries), Restart(s) PROVE LogInv'
  <2>1. AreEntries(s) /\ restarts' \in Nat
    BY <1>6, SnapshotEntries DEF Restart, LogInv, ChainInv
  <2>2. entries' = s \/ entries' = entries
    BY <1>6 DEF Restart, trail
  <2>3. QED
    BY <2>1, <2>2 DEF LogInv, AreEntries
<1>7. CASE UNCHANGED vars
    BY <1>1, <1>7 DEF vars
<1>8. QED
    BY <1>2, <1>3, <1>4, <1>5, <1>6, <1>7 DEF Next

LEMMA LogInvariant == Spec => []LogInv
<1>1. Init => LogInv
  <2>1. Len(<<>>) = 0
    BY <<>> \in Seq({}), EmptySeq
  <2>2. QED
    BY <2>1 DEF Init, LogInv, AreEntries
<1>2. QED
    BY <1>1, NextLog, ChainInvariant, PTL DEF Spec

\* What a restart brings back of an intact log is an initial segment of it: an
\* altered, exchanged or missing entry is noticed unless it was the newest.
THEOREM RestoresArePrefixes == Spec => RestoredIsPrefix
<1>1. ChainInv /\ LogInv /\ [Next]_vars
        => [restarts' # restarts /\ Chained(key, entries) => IsPrefix(entries', entries)]_vars
  <2> SUFFICES ASSUME ChainInv, LogInv, Next, restarts' # restarts, Chained(key, entries)
               PROVE  IsPrefix(entries', entries)
    OBVIOUS
  <2>1. PICK s \in Snapshots(entries) : Restart(s)
    BY DEF Next
  <2>2. IsLog(entries) /\ AreEntries(entries) /\ Len(entries) \in Nat
    BY LogLength DEF ChainInv, LogInv
  <2>3. CASE Tampered(NoKey, s) = {}
    <3>1. entries' = s /\ IsLog(s)
        BY <2>1, <2>2, <2>3, SnapshotIsLog DEF Restart
    <3>2. Chained(NoKey, s)
        BY <2>3, <3>1, VerifiedIsChained
    <3>3. QED
        BY <2>2, <3>1, <3>2, VerifiedIsPrefix
  <2>4. CASE Tampered(NoKey, s) # {}
    <3>1. entries' = entries
        BY <2>1, <2>4 DEF Restart, trail
    <3>2. QED
        BY <2>2, <3>1, PrefixByEntries
  <2>5. QED
    BY <2>3, <2>4
<1>2. QED
    BY <1>1, ChainInvariant, LogInvariant, PTL DEF Spec, RestoredIsPrefix

\* While the process runs, a step only adds entries behind the others or drops
\* the oldest: no payload is changed, moved or lost in between.
THEOREM LogIsAppendOnly == Spec => AppendOnly
<1>1. ChainInv /\ LogInv /\ [Next]_vars
        => [restarts' = restarts =>
               \/ IsPrefix(entries, entries')
               \/ IsStrictSuffix(Payloads(entries'), Payloads(entries))]_entries
  <2> SUFFICES ASSUME ChainInv, LogInv, Next, restarts' = restarts, entries' # entries
               PROVE  \/ IsPrefix(entries, entries')
                      \/ IsStrictSuffix(Payloads(entries'), Payloads(entries))
    BY DEF vars, trail
  <2>1. ASSUME NEW c \in Calls, AppendEnd(c) PROVE IsPrefix(entries, entries')
    BY <2>1, AppendKeepsLog
  <2>2. ASSUME NEW from \in 1..Len(entries), Compact(from)
        PROVE  IsStrictSuffix(Payloads(entries'), Payloads(entries))
    BY <2>2, CompactKeepsPayloads
  <2>3. ASSUME NEW c \in Calls, AppendBegin(c) PROVE FALSE
    BY <2>3 DEF AppendBegin, trail
  <2>4. CASE VerifyBegin \/ VerifyResume
    BY <2>4 DEF VerifyBegin, VerifyResume, trail
  <2>5. ASSUME NEW s, Restart(s) PROVE FALSE
    BY <2>5 DEF Restart, LogInv
  <2>6. QED
    BY <2>1, <2>2, <2>3, <2>4, <2>5 DEF Next
<1>2. QED
    BY <1>1, ChainInvariant, LogInvariant, PTL DEF Spec, AppendOnly
=============================================================================
