----------------------------- MODULE AuditTrail -----------------------------
(***************************************************************************)
(* The hash-chained audit log of pipeline/src/audit-trail.ts.              *)
(*                                                                         *)
(* append() and verify() are async: each runs up to an await of the digest *)
(* and resumes when the crypto thread pool answers, in any order.  Between *)
(* the two halves other appends, a verification or a compaction may run.   *)
(*                                                                         *)
(* Digests are symbolic and free of collisions.  The timestamp, type and   *)
(* payload of an entry are one value, the append call that produced it.    *)
(***************************************************************************)
EXTENDS Integers, Sequences, SequencesExt

CONSTANTS Calls,     \* the append calls of the callers
          HmacKey,   \* a key create() can be given
          NoKey,     \* plain SHA-256
          MaxRestarts   \* bound: restarts of the process

ASSUME MaxRestartsAssumption == MaxRestarts \in Nat

VARIABLES
    entries,     \* this.entries
    lastHash,    \* this.lastHash
    key,         \* this.hmacKey
    call,        \* of each append call: "idle", "hashing", "done", "dead"
    draft,       \* what a hashing call read before its await
    verdict,     \* of verify(): "none", "hashing", "valid", "tampered", "threw"
    n,           \* entries.length when verify() began
    at,          \* the position whose digest verify() awaits
    held,        \* the entry at that position when it was read
    tampered,    \* tamperedIndices so far
    overlapped,  \* history: an append began while another was in flight
    compacted,   \* history: compact() removed something
    restarts,    \* number of restarts
    refused      \* a restart found a snapshot it could not restore

trail == <<entries, lastHash, key>>
appends == <<call, draft, overlapped>>
verifier == <<verdict, n, at, held, tampered>>
vars == <<trail, appends, verifier, compacted, restarts, refused>>

-----------------------------------------------------------------------------
(* Entries, digests and the chain *)

Genesis == <<>>                        \* previousHash of the first entry, '0'
NoEntry == [index |-> -1]

Digest(k, e) == <<k, e.index, e.payload, e.previousHash>>

\* Hash the previous entry must have for position i (0-based) of es.
ExpectedPrevious(es, i) == IF i = 0 THEN Genesis ELSE es[i].hash

\* Mutant: position and digest are not both compared.
GenuineByPosition(k, e, i) == e.index = i
Linked(es, i) == es[i + 1].previousHash = ExpectedPrevious(es, i)
Genuine(k, e, i) == e.hash = Digest(k, e) /\ e.index = i

\* What verify() reports of a log that does not change while it runs.
Tampered(k, es) ==
    {i \in 0..(Len(es) - 1) :
        \/ i = 0 /\ es[1].index # 0
        \/ ~Linked(es, i)
        \/ ~Genuine(k, es[i + 1], i)}

Chained(k, es) ==
    \A i \in 1..Len(es) :
        /\ es[i].index = i - 1
        /\ es[i].previousHash = (IF i = 1 THEN Genesis ELSE es[i - 1].hash)
        /\ es[i].hash = Digest(k, es[i])

LastOr(es, default) == IF es = <<>> THEN default ELSE es[Len(es)].hash

-----------------------------------------------------------------------------
(* Actions *)

Init ==
    /\ entries = <<>>
    /\ lastHash = Genesis
    /\ key \in {HmacKey, NoKey}
    /\ call = [c \in Calls |-> "idle"]
    /\ draft = [c \in Calls |-> NoEntry]
    /\ verdict = "none"
    /\ n = 0
    /\ at = 0
    /\ held = NoEntry
    /\ tampered = {}
    /\ overlapped = FALSE
    /\ compacted = FALSE
    /\ restarts = 0
    /\ refused = FALSE

\* append(), up to the await of the digest: index and previousHash are read now.
AppendBegin(c) ==
    /\ call[c] = "idle"
    /\ call' = [call EXCEPT ![c] = "hashing"]
    /\ draft' = [draft EXCEPT ![c] = [index        |-> Len(entries),
                                      payload      |-> c,
                                      previousHash |-> lastHash]]
    /\ overlapped' = (overlapped \/ \E d \in Calls : call[d] = "hashing")
    /\ UNCHANGED <<trail, verifier, compacted>>

\* append(), after the await: the entry is pushed wherever the log now ends.
\* Mutant: lastHash is not moved on.
AppendEndKeepsTail(c) ==
    LET d == draft[c]
    IN  /\ call[c] = "hashing"
        /\ call' = [call EXCEPT ![c] = "done"]
        /\ draft' = [draft EXCEPT ![c] = NoEntry]
        /\ entries' = Append(entries, [index |-> d.index, payload |-> d.payload,
                                       previousHash |-> d.previousHash, hash |-> Digest(key, d)])
        /\ UNCHANGED <<lastHash, key, overlapped, verifier, compacted>>

AppendEnd(c) ==
    LET d == draft[c]
    IN  /\ call[c] = "hashing"
        /\ call' = [call EXCEPT ![c] = "done"]
        /\ draft' = [draft EXCEPT ![c] = NoEntry]
        /\ entries' = Append(entries, [index        |-> d.index,
                                       payload      |-> d.payload,
                                       previousHash |-> d.previousHash,
                                       hash         |-> Digest(key, d)])
        /\ lastHash' = Digest(key, d)
        /\ UNCHANGED <<key, overlapped, verifier, compacted>>

\* verify() from position i on, up to its next await: entries whose link is
\* wrong are reported and skipped, the first one that links is read and its
\* digest awaited.  The live log is read; it may have become shorter than len.
Scan(i, len, bad) ==
    LET stops == {j \in i..len : \/ j = len
                                 \/ j >= Len(entries)
                                 \/ Linked(entries, j)}
        stop  == CHOOSE j \in stops : \A k \in stops : j <= k
        found == bad \cup i..(stop - 1)
    IN  /\ tampered' = found
        /\ n' = len
        /\ \/ /\ stop = len
              /\ verdict' = IF found = {} THEN "valid" ELSE "tampered"
              /\ at' = 0
              /\ held' = NoEntry
           \/ /\ stop < len
              /\ stop >= Len(entries)         \* this.entries[i] is undefined
              /\ verdict' = "threw"
              /\ at' = 0
              /\ held' = NoEntry
           \/ /\ stop < len
              /\ stop < Len(entries)
              /\ verdict' = "hashing"
              /\ at' = stop
              /\ held' = entries[stop + 1]

\* Mutants: one entry too many is verified; what earlier positions showed is
\* forgotten.
VerifyBeginTooLong ==
    /\ verdict # "hashing"
    /\ Scan(0, Len(entries) + 1,
            IF entries # <<>> /\ entries[1].index # 0 THEN {0} ELSE {})
    /\ UNCHANGED <<trail, appends, compacted>>
VerifyResumeForgets ==
    /\ verdict = "hashing"
    /\ Scan(at + 1, n, IF Genuine(key, held, at) THEN {} ELSE {at})
    /\ UNCHANGED <<trail, appends, compacted>>
VerifyBegin ==
    /\ verdict # "hashing"
    /\ Scan(0, Len(entries),
            IF entries # <<>> /\ entries[1].index # 0 THEN {0} ELSE {})
    /\ UNCHANGED <<trail, appends, compacted>>

VerifyResume ==
    /\ verdict = "hashing"
    /\ Scan(at + 1, n, tampered \cup (IF Genuine(key, held, at) THEN {} ELSE {at}))
    /\ UNCHANGED <<trail, appends, compacted>>

\* compact(from): drops the first entries, renumbers and relinks the others.
\* Their hashes stay as they were.
Renumber(es) ==
    [i \in 1..Len(es) |->
        [es[i] EXCEPT !.index = i - 1,
                      !.previousHash = ExpectedPrevious(es, i - 1)]]

\* Mutant: lastHash stays when the log becomes empty.
CompactKeepsLastHash(from) ==
    /\ from \in 1..Len(entries)
    /\ entries' = Renumber(SubSeq(entries, from + 1, Len(entries)))
    /\ lastHash' = LastOr(entries', lastHash)
    /\ compacted' = TRUE
    /\ UNCHANGED <<key, appends, verifier>>

Compact(from) ==
    /\ from \in 1..Len(entries)
    /\ entries' = Renumber(SubSeq(entries, from + 1, Len(entries)))
    /\ lastHash' = LastOr(entries', Genesis)
    /\ compacted' = TRUE
    /\ UNCHANGED <<key, appends, verifier>>

\* A snapshot as it comes back from storage: as toJSON wrote it, or with an
\* entry altered, missing, or two entries exchanged.
Snapshots(es) ==
    {es}
    \cup {[es EXCEPT ![i].payload = c] : i \in 1..Len(es), c \in Calls}
    \cup {RemoveAt(es, i) : i \in 1..Len(es)}
    \cup {[es EXCEPT ![i] = es[j], ![j] = es[i]] : i, j \in 1..Len(es)}

\* The process restarts and calls fromJSON, which verifies without a key and
\* returns a trail without a key.  It throws when the verdict is not valid.
Restart(snapshot) ==
    /\ restarts < MaxRestarts
    /\ restarts' = restarts + 1
    /\ call' = [c \in Calls |-> IF call[c] = "hashing" THEN "dead" ELSE call[c]]
    /\ draft' = [c \in Calls |-> NoEntry]
    /\ verdict' = "none" /\ n' = 0 /\ at' = 0 /\ held' = NoEntry /\ tampered' = {}
    /\ IF Tampered(NoKey, snapshot) = {}
       THEN /\ entries' = snapshot
            /\ lastHash' = LastOr(snapshot, Genesis)
            /\ key' = NoKey
            /\ UNCHANGED refused
       ELSE refused' = TRUE /\ UNCHANGED trail
    /\ UNCHANGED <<overlapped, compacted>>

Next ==
    /\ ~refused
    /\ \/ /\ \/ \E c \in Calls : AppendBegin(c) \/ AppendEnd(c)
             \/ VerifyBegin
             \/ VerifyResume
             \/ \E from \in 1..Len(entries) : Compact(from)
          /\ UNCHANGED <<restarts, refused>>
       \/ \E s \in Snapshots(entries) : Restart(s)

Spec == Init /\ [][Next]_vars

-----------------------------------------------------------------------------
(* Properties *)

\* lastHash is the hash of the newest entry, whatever overlapped: the next
\* append links to the entry it will stand behind.
LastHashIsTail == lastHash = LastOr(entries, Genesis)

\* Callers that await each append get a log verify() accepts, as long as it
\* is not compacted: the chain is intact and an append in flight will extend it.
ChainIntact ==
    /\ Chained(key, entries)
    /\ \A c \in Calls : call[c] = "hashing" =>
          /\ draft[c].index = Len(entries)
          /\ draft[c].previousHash = lastHash
SerialLogIsChained == ~overlapped /\ ~compacted => ChainIntact

\* A verification during which entries are appended reports exactly what is
\* wrong in the entries that were there when it began.
VerdictIsOfPrefix ==
    ~compacted /\ verdict \in {"valid", "tampered"}
        => tampered = Tampered(key, SubSeq(entries, 1, n))

\* Verification raises no alarm about a log its callers wrote serially.
NoFalseAlarm ==
    ~overlapped /\ ~compacted => verdict \notin {"tampered", "threw"}

\* The log is append-only: while the process runs, a step keeps every entry in
\* place or removes the oldest ones and keeps the payloads of the others.
Payloads(es) == [i \in 1..Len(es) |-> es[i].payload]
AppendOnly ==
    [][restarts' = restarts =>
          \/ IsPrefix(entries, entries')
          \/ IsStrictSuffix(Payloads(entries'), Payloads(entries))]_entries

\* A damaged snapshot of an intact log is restored only if it is an initial
\* segment of that log: an altered, missing or exchanged entry is noticed.
RestoredIsPrefix ==
    [][restarts' # restarts /\ Chained(key, entries)
          => IsPrefix(entries', entries)]_vars

\* docs/production-deployment.md issues appends without awaiting them and says
\* of the verification that follows: "true = untampered".  A log that nobody
\* compacted and that was only appended to is never reported as tampered.
UntamperedIsValid == ~compacted => verdict # "tampered"
=============================================================================
