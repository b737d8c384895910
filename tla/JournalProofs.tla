---------------------------- MODULE JournalProofs ----------------------------
(***************************************************************************)
(* Proofs about Journal, for any number of processes and any limits that   *)
(* leave no room for MaxEntries + 1 entries.                               *)
(***************************************************************************)
EXTENDS Journal, TLAPS

(* Who holds a lock, and who does after giving it back.                    *)
LEMMA UnlockKeeps ==
    ASSUME TypeOK, LockInv, NEW p \in Process, NEW to \in Ended, Unlock(p), Goto(p, to)
    PROVE  /\ LockInv'
           /\ writer' \in Process \cup {Nobody} /\ readers' \subseteq Process
           /\ pc' \in [Process -> Where]
           /\ \A q \in Process : pc'[q] \in Writing => q # p /\ pc'[q] = pc[q]
<1>1. /\ pc' = [pc EXCEPT ![p] = to] /\ pc \in [Process -> Where]
      /\ to \in Where /\ to \notin Writing \cup {"read"}
  BY DEF Goto, TypeOK, Ended, Where, Writing
<1>2. LockInv'
  BY <1>1, JournalAssumption DEF LockInv, Unlock, TypeOK
<1> QED
  BY <1>1, <1>2 DEF Unlock, TypeOK

LEMMA FollowingIsLine ==
    ASSUME NEW ls \in Seq(Line), NEW body \in Body, NEW size \in Nat
    PROVE  /\ Following(ls, body, size) \in Line
           /\ Following(ls, body, size).sequence = Len(ls) + 1
           /\ Following(ls, body, size).previous = Final(ls)
           /\ Following(ls, body, size).body = body
           /\ Following(ls, body, size).digest = Append(Final(ls), <<Len(ls) + 1, body>>)
           /\ Following(ls, body, size).end = Size(ls) + size
           /\ Following(ls, body, size).whole = TRUE
<1>1. Final(ls) \in Digest /\ Size(ls) \in Nat
  <2>1. CASE ls = <<>>
    BY <2>1 DEF Final, Size, Digest
  <2>2. CASE ls # <<>>
    <3>1. ls[Len(ls)] \in Line
      BY <2>2
    <3> QED
      BY <2>2, <3>1 DEF Final, Size, Line
  <2> QED
    BY <2>1, <2>2
<1>2. Len(ls) + 1 \in Nat
  OBVIOUS
<1>3. Append(Final(ls), <<Len(ls) + 1, body>>) \in Digest
  BY <1>1, <1>2 DEF Digest
<1>4. Following(ls, body, size) =
         [sequence |-> Len(ls) + 1, previous |-> Final(ls), body |-> body,
          digest |-> Append(Final(ls), <<Len(ls) + 1, body>>),
          end |-> Size(ls) + size, whole |-> TRUE]
  BY DEF Following, EntryDigest
<1> QED
  BY <1>1, <1>2, <1>3, <1>4 DEF Line

-----------------------------------------------------------------------------
(* An engagement that is new, or was initialised and not written to.       *)
THEOREM InitInv == Init => IInv
<1> SUFFICES ASSUME Init PROVE IInv
  OBVIOUS
<1>1. <<>> \in Seq(Line) /\ Len(<<>>) = 0 /\ 0 \in 0..0
  OBVIOUS
<1>2. TypeOK
  BY <1>1 DEF Init, TypeOK, Where
<1>3. LockInv
  BY JournalAssumption DEF Init, LockInv, Writing
<1>4. ChainInv /\ EntryInv /\ KeptInv
  BY <1>1, JournalAssumption DEF Init, ChainInv, EntryInv, KeptInv
<1> QED
  BY <1>2, <1>3, <1>4 DEF IInv

(* Steps that leave lines, entries and what is durable alone.              *)
LEMMA QuietKeeps ==
    ASSUME IInv, UNCHANGED <<lines, synced, entry, appended>>,
           NEW p \in Process, NEW to \in Where,
           Goto(p, to), to \notin {"write", "sync"}, LockInv',
           writer' \in Process \cup {Nobody}, readers' \subseteq Process,
           directory' \in BOOLEAN /\ meta' \in {"absent", "torn", "written"} /\ created' \in BOOLEAN
    PROVE  IInv'
<1> USE DEF IInv
<1>1. pc' = [pc EXCEPT ![p] = to] /\ pc \in [Process -> Where]
  BY DEF Goto, TypeOK
<1>2. TypeOK'
  BY <1>1 DEF TypeOK
<1>3. ChainInv'
  BY DEF ChainInv, ValidEntry, EntryDigest
<1>4. EntryInv'
  <2>1. \A q \in Process : pc'[q] \in {"write", "sync"} => pc'[q] = pc[q]
    BY <1>1
  <2> QED
    BY <2>1 DEF EntryInv
<1>5. KeptInv'
  BY DEF KeptInv
<1> QED
  BY <1>2, <1>3, <1>4, <1>5

LEMMA FilesKeep ==
    ASSUME IInv, NEW p \in Process,
           Initialize(p) \/ Open(p, "append") \/ Open(p, "verify")
    PROVE  IInv'
<1> USE DEF IInv
<1>1. /\ UNCHANGED <<lines, synced, entry, appended>> /\ UNCHANGED <<writer, readers>>
      /\ pc[p] \in {"idle", "describe", "seal", "create"}
      /\ directory' \in BOOLEAN /\ meta' \in {"absent", "torn", "written"} /\ created' \in BOOLEAN
  BY DEF Initialize, MakeDirectory, Describe, Seal, CreateJournal, Open, files, locks, TypeOK
<1>2. PICK to \in Where \ (Writing \cup {"read"}) : Goto(p, to)
  BY DEF Initialize, MakeDirectory, Describe, Seal, CreateJournal, Open, Where, Ended, Writing
<1>3. pc' = [pc EXCEPT ![p] = to] /\ pc \in [Process -> Where]
  BY <1>2 DEF Goto, TypeOK
<1>4. LockInv'
  BY <1>1, <1>2, <1>3 DEF LockInv, Writing
<1>5. writer' \in Process \cup {Nobody} /\ readers' \subseteq Process
  BY <1>1 DEF TypeOK
<1> QED
  BY <1>1, <1>2, <1>4, <1>5, QuietKeeps DEF Writing

LEMMA LocksKeep ==
    ASSUME IInv, NEW p \in Process,
           LockExclusive(p) \/ LockToRead(p) \/ Refuse(p) \/ Read(p) \/ Kill(p)
    PROVE  IInv'
<1> USE DEF IInv
<1>0. /\ UNCHANGED <<lines, synced, entry, appended>>
      /\ directory' \in BOOLEAN /\ meta' \in {"absent", "torn", "written"} /\ created' \in BOOLEAN
  BY DEF LockExclusive, LockToRead, Refuse, Read, Kill, files, TypeOK
<1>1. CASE LockExclusive(p)
  <2>1. pc' = [pc EXCEPT ![p] = "check"] /\ pc \in [Process -> Where] /\ "check" \in Where
    BY <1>1 DEF LockExclusive, Goto, TypeOK, Where
  <2>2. LockInv'
    BY <1>1, <2>1, JournalAssumption DEF LockExclusive, LockInv, Writing
  <2> QED
    BY <1>0, <1>1, <2>1, <2>2, QuietKeeps DEF LockExclusive, TypeOK
<1>2. CASE LockToRead(p)
  <2>1. pc' = [pc EXCEPT ![p] = "read"] /\ pc \in [Process -> Where] /\ "read" \in Where
    BY <1>2 DEF LockToRead, Goto, TypeOK, Where
  <2>2. LockInv'
    BY <1>2, <2>1, JournalAssumption DEF LockToRead, LockInv, Writing
  <2> QED
    BY <1>0, <1>2, <2>1, <2>2, QuietKeeps DEF LockToRead, TypeOK
<1>3. CASE Refuse(p) \/ Read(p) \/ Kill(p)
  <2>1. PICK to \in Ended : Unlock(p) /\ Goto(p, to)
    BY <1>3 DEF Refuse, Read, Kill, Ended
  <2>2. to \in Where /\ to \notin {"write", "sync"}
    BY DEF Ended, Where
  <2> QED
    BY <1>0, <2>1, <2>2, UnlockKeeps, QuietKeeps
<1> QED
  BY <1>1, <1>2, <1>3

LEMMA ComposeKeeps ==
    ASSUME IInv, NEW p \in Process, Compose(p) PROVE IInv'
<1> USE DEF IInv
<1>0. PICK body \in Body, size \in Sizes[Len(lines) + 1] :
         /\ Size(lines) + size <= MaxBytes
         /\ entry' = [entry EXCEPT ![p] = Following(lines, body, size)]
  BY DEF Compose
<1>1. /\ pc' = [pc EXCEPT ![p] = "write"] /\ pc \in [Process -> Where] /\ "write" \in Where
      /\ pc[p] = "check"
      /\ entry' = [entry EXCEPT ![p] = Following(lines, body, size)] /\ DOMAIN entry = Process
      /\ UNCHANGED <<lines, synced, appended>> /\ UNCHANGED <<writer, readers>>
      /\ UNCHANGED <<directory, meta, created>>
      /\ Verified(lines) /\ Size(lines) + size <= MaxBytes
  BY <1>0 DEF Compose, Goto, TypeOK, Where, files, locks
<1>2. TypeOK'
  BY <1>1 DEF TypeOK
<1>3. LockInv'
  BY <1>1 DEF LockInv, Writing
<1>4. ChainInv' /\ KeptInv'
  BY <1>1 DEF ChainInv, ValidEntry, EntryDigest, KeptInv
<1>5. EntryInv'
  <2>1. entry'[p] = Following(lines, body, size) /\ \A q \in Process \ {p} : entry'[q] = entry[q]
    BY <1>1
  <2>2. \A q \in Process \ {p} : pc'[q] = pc[q]
    BY <1>1
  <2>3. Verified(lines)' = Verified(lines) /\ lines' = lines
    BY <1>1 DEF Verified, ValidEntry, EntryDigest
  <2>4. pc'[p] = "write"
    BY <1>1
  <2> QED
    BY <1>1, <2>1, <2>2, <2>3, <2>4 DEF EntryInv
<1> QED
  BY <1>2, <1>3, <1>4, <1>5

LEMMA WriteKeeps ==
    ASSUME IInv, NEW p \in Process, Write(p) PROVE IInv'
<1> USE DEF IInv
<1>1. /\ pc[p] = "write" /\ UNCHANGED <<synced, entry, appended>>
      /\ UNCHANGED <<directory, meta, created>>
  BY DEF Write, files
<1>2. CASE Unlock(p) /\ Goto(p, "failed") /\ UNCHANGED lines
  <2>1. "failed" \in Ended /\ "failed" \in Where
    BY DEF Ended, Where
  <2>2. directory' \in BOOLEAN /\ meta' \in {"absent", "torn", "written"} /\ created' \in BOOLEAN
    BY <1>1 DEF TypeOK
  <2> QED
    BY <1>1, <1>2, <2>1, <2>2, UnlockKeeps, QuietKeeps
<1>3. ASSUME NEW whole \in BOOLEAN,
             lines' = Append(lines, [entry[p] EXCEPT !.whole = whole]),
             Goto(p, "sync"), NoLock
      PROVE  IInv'
  <2> DEFINE n == Len(lines) + 1
             new == [entry[p] EXCEPT !.whole = whole]
  <2>1. PICK body \in Body, size \in Sizes[Len(lines) + 1] :
           Size(lines) + size <= MaxBytes /\ entry[p] = Following(lines, body, size)
    BY <1>1 DEF EntryInv
  <2>2. lines \in Seq(Line) /\ Verified(lines) /\ synced \in 0..Len(lines)
    BY <1>1 DEF EntryInv, TypeOK
  <2>3. Len(lines) + 1 \in 1..MaxEntries + 1 /\ size \in Nat
    <3>1. Len(lines) <= MaxEntries /\ Len(lines) \in Nat
      BY <2>2 DEF Verified
    <3>2. Len(lines) + 1 \in 1..MaxEntries + 1
      BY <3>1, JournalAssumption
    <3> QED
      BY <3>2, JournalAssumption
  <2>4. /\ entry[p] \in Line /\ new \in Line
        /\ entry[p].sequence = n /\ entry[p].previous = Final(lines)
        /\ entry[p].digest = EntryDigest(entry[p])
        /\ entry[p].end = Size(lines) + size /\ entry[p].whole = TRUE
    <3>1. /\ entry[p] \in Line
          /\ entry[p].sequence = n /\ entry[p].previous = Final(lines)
          /\ entry[p].body = body
          /\ entry[p].digest = Append(Final(lines), <<n, body>>)
          /\ entry[p].end = Size(lines) + size /\ entry[p].whole = TRUE
      <4>1. LET e == Following(lines, body, size)
            IN /\ e \in Line
               /\ e.sequence = Len(lines) + 1 /\ e.previous = Final(lines) /\ e.body = body
               /\ e.digest = Append(Final(lines), <<Len(lines) + 1, body>>)
               /\ e.end = Size(lines) + size /\ e.whole = TRUE
        BY <2>3, <2>2, FollowingIsLine
      <4> QED
        BY <2>1, <4>1
    <3>2. new \in Line
      BY <1>3, <3>1 DEF Line
    <3> QED
      BY <3>1, <3>2 DEF EntryDigest
  <2>5. /\ new.sequence = n /\ new.previous = Final(lines) /\ new.digest = EntryDigest(new)
        /\ new.end = Size(lines) + size /\ new.whole = whole
        /\ [new EXCEPT !.whole = TRUE] = entry[p]
    BY <2>4 DEF Line, EntryDigest
  <2> HIDE DEF new
  <2>6. /\ lines' = Append(lines, new) /\ lines' \in Seq(Line)
        /\ n \in Nat \ {0} /\ Len(lines) = n - 1 /\ Len(lines') = n
        /\ DOMAIN lines = 1..n - 1 /\ DOMAIN lines' = 1..n
        /\ lines'[n] = new /\ \A i \in 1..n - 1 : lines'[i] = lines[i]
    BY <1>3, <2>2, <2>4 DEF new
  <2>7. pc' = [pc EXCEPT ![p] = "sync"] /\ pc \in [Process -> Where] /\ "sync" \in Where
    BY <1>3 DEF Goto, TypeOK, Where
  <2>8. TypeOK'
    <3>1. synced' \in 0..Len(lines')
      BY <1>1, <2>2, <2>6
    <3> QED
      BY <1>1, <1>3, <2>6, <2>7, <3>1 DEF TypeOK, NoLock, locks
  <2>9. LockInv'
    BY <1>1, <1>3, <2>7 DEF LockInv, Writing, NoLock, locks
  <2> HIDE DEF n
  <2>10. n <= MaxEntries /\ Least[n] <= new.end /\ new.end <= MaxBytes
    <3>1. Size(lines) \in Nat /\ Least[n - 1] <= Size(lines)
      <4>1. CASE n = 1
        <5>1. lines = <<>>
          BY <2>2, <2>6, <4>1
        <5> QED
          BY <4>1, <5>1, JournalAssumption DEF Size
      <4>2. CASE n # 1
        <5>1. n - 1 \in DOMAIN lines /\ lines # <<>> /\ lines[n - 1] \in Line
          BY <2>2, <2>6, <4>2
        <5>2. Least[n - 1] <= lines[n - 1].end
          BY <5>1 DEF ChainInv
        <5> QED
          BY <2>6, <5>1, <5>2 DEF Size, Line
      <4> QED
        BY <4>1, <4>2
    <3>2. n \in 1..MaxEntries + 1 /\ size \in Nat /\ size \in Sizes[n]
      BY <2>3, <2>1 DEF n
    <3>3. Least[n] <= Least[n - 1] + size /\ Least[n] \in Nat /\ Least[n - 1] \in Nat
      <4>1. n \in 0..MaxEntries + 1 /\ n - 1 \in 0..MaxEntries + 1
        BY <3>2, JournalAssumption
      <4> QED
        BY <3>2, <4>1, JournalAssumption
    <3>4. Least[n] <= Size(lines) + size /\ Size(lines) + size <= MaxBytes
      BY <2>1, <3>1, <3>2, <3>3
    <3>5. n # MaxEntries + 1
      BY <3>1, <3>2, <3>3, <3>4, JournalAssumption, SMTT(30)
    <3> QED
      BY <2>5, <3>2, <3>4, <3>5, JournalAssumption
  <2>11. ChainInv'
    <3> SUFFICES ASSUME NEW i \in 1..n
                 PROVE  /\ ValidEntry(lines', i)
                        /\ lines'[i].whole \/ i = n
                        /\ Least[i] <= lines'[i].end /\ lines'[i].end <= MaxBytes
      BY <2>6, <2>10 DEF ChainInv
    <3>1. CASE i # n
      <4>1. i \in 1..n - 1 /\ (i # 1 => i - 1 \in 1..n - 1)
        BY <2>6, <3>1
      <4>2. ValidEntry(lines', i)
        <5>1. ValidEntry(lines, i)
          BY <2>6, <4>1 DEF ChainInv
        <5>2. lines'[i] = lines[i] /\ (i # 1 => lines'[i - 1] = lines[i - 1])
          BY <2>6, <4>1
        <5> QED
          BY <5>1, <5>2 DEF ValidEntry, EntryDigest
      <4>3. lines[i].whole
        BY <2>2, <2>6, <4>1 DEF Verified
      <4> QED
        BY <2>6, <4>1, <4>2, <4>3 DEF ChainInv
    <3>2. CASE i = n
      <4>1. Final(lines) = IF n = 1 THEN <<>> ELSE lines[n - 1].digest
        BY <2>2, <2>6 DEF Final
      <4>2. ValidEntry(lines', n)
        BY <2>5, <2>6, <4>1 DEF ValidEntry
      <4> QED
        BY <2>6, <2>10, <3>2, <4>2
    <3> QED
      BY <3>1, <3>2
  <2>12. EntryInv'
    <3>1. \A q \in Process : pc'[q] \in {"write", "sync"} => q = p
      BY <1>1, <2>7 DEF LockInv, Writing
    <3>2. lines' # <<>> /\ lines'[Len(lines')] = new /\ entry' = entry
      BY <1>1, <2>6
    <3>3. pc'[p] = "sync"
      BY <2>7
    <3> QED
      BY <2>4, <2>5, <3>1, <3>2, <3>3 DEF EntryInv
  <2>13. KeptInv'
    <3>1. \A e \in appended : e.sequence \in 1..n - 1
      BY <2>2, <2>6 DEF KeptInv
    <3> QED
      BY <1>1, <2>6, <3>1 DEF KeptInv
  <2> QED
    BY <2>8, <2>9, <2>11, <2>12, <2>13
<1> QED
  BY <1>2, <1>3 DEF Write

LEMMA SyncKeeps ==
    ASSUME IInv, NEW p \in Process, Sync(p) PROVE IInv'
<1> USE DEF IInv
<1>1. /\ pc[p] = "sync" /\ UNCHANGED <<lines, entry>> /\ Unlock(p)
      /\ UNCHANGED <<directory, meta, created>>
      /\ \/ synced' = Len(lines) /\ appended' = appended \cup {lines[Len(lines)]} /\ Goto(p, "done")
         \/ Goto(p, "failed") /\ UNCHANGED <<synced, appended>>
  BY DEF Sync, files
<1>2. PICK to \in Ended : Goto(p, to)
  BY <1>1 DEF Ended
<1>3. /\ LockInv' /\ writer' \in Process \cup {Nobody} /\ readers' \subseteq Process
      /\ pc' \in [Process -> Where]
      /\ \A q \in Process : pc'[q] \in Writing => q # p /\ pc'[q] = pc[q]
  BY <1>1, <1>2, UnlockKeeps
<1>4. /\ lines \in Seq(Line) /\ lines # <<>> /\ entry[p] \in Line
      /\ [lines[Len(lines)] EXCEPT !.whole = TRUE] = entry[p]
  BY <1>1 DEF EntryInv, TypeOK
<1>5. Len(lines) \in DOMAIN lines /\ Len(lines) \in Nat \ {0} /\ lines[Len(lines)] \in Line
  BY <1>4
<1>6. lines[Len(lines)].sequence = Len(lines)
  BY <1>5 DEF ChainInv, ValidEntry
<1>7. TypeOK'
  <2>1. synced' \in 0..Len(lines)
    BY <1>1, <1>5 DEF TypeOK
  <2> QED
    BY <1>1, <1>3, <1>4, <2>1 DEF TypeOK
<1>8. ChainInv'
  BY <1>1 DEF ChainInv
<1>9. EntryInv'
  BY <1>1, <1>3 DEF EntryInv, Writing
<1>10. KeptInv'
  <2>1. CASE synced' = Len(lines) /\ appended' = appended \cup {lines[Len(lines)]}
    <3>1. ASSUME NEW e \in appended
          PROVE  e.sequence \in 1..Len(lines) /\ lines[e.sequence] = e
      BY <1>5 DEF KeptInv, TypeOK
    <3>2. LET e == lines[Len(lines)] IN e.sequence \in 1..Len(lines) /\ lines[e.sequence] = e
      BY <1>5, <1>6
    <3> QED
      BY <1>1, <2>1, <3>1, <3>2 DEF KeptInv
  <2>2. CASE UNCHANGED <<synced, appended>>
    BY <1>1, <2>2 DEF KeptInv
  <2> QED
    BY <1>1, <2>1, <2>2
<1> QED
  BY <1>3, <1>7, <1>8, <1>9, <1>10

(* What is left after a power failure: the first lines, the last of them    *)
(* perhaps in part, and nothing that was synced is lost.                   *)
LEMMA PowerKeeps ==
    ASSUME IInv, PowerFails PROVE IInv'
<1> USE DEF IInv
<1>1. /\ UNCHANGED <<directory, meta, created, entry, appended>>
      /\ writer' = Nobody /\ readers' = {}
      /\ pc' = [p \in Process |-> IF pc[p] \in Ended \cup {"idle"} THEN pc[p] ELSE "killed"]
  BY DEF PowerFails, files
<1>2. PICK n \in synced..Len(lines) :
         \/ lines' = SubSeq(lines, 1, n) /\ synced' = n
         \/ n > synced /\ lines' = [SubSeq(lines, 1, n) EXCEPT ![n].whole = FALSE] /\ synced' = n
  BY DEF PowerFails
<1>3. /\ lines \in Seq(Line) /\ synced \in 0..Len(lines) /\ n \in Nat /\ synced <= n /\ n <= Len(lines)
      /\ synced' = n /\ \A i \in 1..n : lines[i] \in Line
  BY <1>2 DEF TypeOK
<1> DEFINE kept == SubSeq(lines, 1, n)
<1>4. kept \in Seq(Line) /\ Len(kept) = n /\ DOMAIN kept = 1..n /\ \A i \in 1..n : kept[i] = lines[i]
  BY <1>3
<1>5. /\ lines' \in Seq(Line) /\ Len(lines') = n /\ DOMAIN lines' = 1..n
      /\ \A i \in 1..n : lines'[i] = lines[i] \/ (i = n /\ n > synced /\ lines'[i] = [lines[i] EXCEPT !.whole = FALSE])
  <2> HIDE DEF kept
  <2>1. CASE lines' = kept
    BY <1>4, <2>1
  <2>2. CASE n > synced /\ lines' = [kept EXCEPT ![n].whole = FALSE]
    <3>1. n \in 1..n /\ kept[n] \in Line
      BY <1>3, <1>4, <2>2
    <3>2. [kept[n] EXCEPT !.whole = FALSE] \in Line
      BY <3>1 DEF Line
    <3>3. lines' = [kept EXCEPT ![n] = [kept[n] EXCEPT !.whole = FALSE]]
      BY <2>2
    <3>4. lines' \in Seq(Line) /\ Len(lines') = n /\ DOMAIN lines' = 1..n
      BY <1>4, <3>1, <3>2, <3>3
    <3>5. /\ lines'[n] = [kept[n] EXCEPT !.whole = FALSE]
          /\ \A i \in 1..n : i # n => lines'[i] = kept[i]
      BY <1>4, <3>1, <3>3
    <3> QED
      BY <1>4, <2>2, <3>1, <3>4, <3>5
  <2> QED
    BY <1>2, <2>1, <2>2 DEF kept
<1> HIDE DEF kept
<1>6. \A i \in 1..n :
         /\ lines'[i].sequence = lines[i].sequence /\ lines'[i].previous = lines[i].previous
         /\ lines'[i].body = lines[i].body /\ lines'[i].digest = lines[i].digest
         /\ lines'[i].end = lines[i].end
         /\ i # n => lines'[i].whole = lines[i].whole
  <2> TAKE i \in 1..n
  <2>1. lines[i] \in Line
    BY <1>3
  <2>2. CASE lines'[i] = lines[i]
    BY <2>2
  <2>3. CASE i = n /\ lines'[i] = [lines[i] EXCEPT !.whole = FALSE]
    BY <2>1, <2>3 DEF Line
  <2> QED
    BY <1>5, <2>2, <2>3
<1>7. TypeOK'
  <2>1. pc' \in [Process -> Where]
    BY <1>1 DEF TypeOK, Ended, Where
  <2>2. synced' \in 0..Len(lines')
    BY <1>3, <1>5
  <2> QED
    BY <1>1, <1>5, <2>1, <2>2 DEF TypeOK
<1>8. LockInv'
  BY <1>1, JournalAssumption DEF LockInv, Writing, Ended
<1>9. ChainInv'
  <2> SUFFICES ASSUME NEW i \in 1..n
               PROVE  /\ ValidEntry(lines', i)
                      /\ lines'[i].whole \/ i = n
                      /\ Least[i] <= lines'[i].end /\ lines'[i].end <= MaxBytes
    <3>1. n <= MaxEntries
      BY <1>3, JournalAssumption DEF ChainInv
    <3> QED
      BY <1>5, <3>1 DEF ChainInv
  <2>1. i \in DOMAIN lines /\ (i # 1 => i - 1 \in 1..n) /\ (i # n => i # Len(lines))
    BY <1>3
  <2>2. /\ ValidEntry(lines, i)
        /\ lines[i].whole \/ i = Len(lines)
        /\ Least[i] <= lines[i].end /\ lines[i].end <= MaxBytes
    BY <2>1 DEF ChainInv
  <2>3. ValidEntry(lines', i)
    BY <1>6, <2>1, <2>2 DEF ValidEntry, EntryDigest
  <2> QED
    BY <1>6, <2>1, <2>2, <2>3
<1>10. EntryInv'
  BY <1>1 DEF EntryInv, Ended
<1>11. KeptInv'
  <2> SUFFICES ASSUME NEW e \in appended
               PROVE  e.sequence \in 1..n /\ lines'[e.sequence] = e
    BY <1>1, <1>3 DEF KeptInv
  <2>1. e.sequence \in 1..synced /\ lines[e.sequence] = e
    BY DEF KeptInv
  <2>2. e.sequence \in 1..n /\ ~(e.sequence = n /\ n > synced)
    BY <1>3, <2>1
  <2> QED
    BY <1>5, <2>1, <2>2
<1> QED
  BY <1>7, <1>8, <1>9, <1>10, <1>11

-----------------------------------------------------------------------------
(* Every step of every process keeps the invariant, as does a power         *)
(* failure.                                                                 *)
THEOREM StepInv == IInv /\ [Next]_vars => IInv'
<1> SUFFICES ASSUME IInv, [Next]_vars PROVE IInv'
  OBVIOUS
<1>1. CASE PowerFails
  BY <1>1, PowerKeeps
<1>2. ASSUME NEW p \in Process, Run(p) \/ Kill(p) PROVE IInv'
  <2>1. CASE Initialize(p) \/ Open(p, "append") \/ Open(p, "verify")
    BY <2>1, FilesKeep
  <2>2. CASE LockExclusive(p) \/ LockToRead(p) \/ Refuse(p) \/ Read(p) \/ Kill(p)
    BY <2>2, LocksKeep
  <2>3. CASE Compose(p)
    BY <2>3, ComposeKeeps
  <2>4. CASE Write(p)
    BY <2>4, WriteKeeps
  <2>5. CASE Sync(p)
    BY <2>5, SyncKeeps
  <2> QED
    BY <1>2, <2>1, <2>2, <2>3, <2>4, <2>5 DEF Run
<1>3. CASE UNCHANGED vars
  <2>1. UNCHANGED <<directory, meta, created, lines, synced, writer, readers, pc, entry, appended>>
    BY <1>3 DEF vars, files, locks
  <2>2. TypeOK' /\ LockInv' /\ ChainInv'
    BY <2>1 DEF IInv, TypeOK, LockInv, ChainInv
  <2>3. EntryInv' /\ KeptInv'
    BY <2>1 DEF IInv, EntryInv, KeptInv
  <2> QED
    BY <2>2, <2>3 DEF IInv
<1> QED
  BY <1>1, <1>2, <1>3 DEF Next

(* The journal's invariant: the locks exclude each other, the lines are     *)
(* chained, and whoever writes has checked the lines as they are.           *)
THEOREM Invariant == Spec => []IInv
<1> QED
  BY InitInv, StepInv, PTL DEF Spec

(* "maintain a hash-chained assessment journal": whatever runs at once and  *)
(* whenever it is killed, verification accepts the journal unless its last  *)
(* line was cut short.                                                      *)
THEOREM VerifiableStays == Spec => []StaysVerifiable
<1>1. IInv => StaysVerifiable
  <2> SUFFICES ASSUME IInv, lines = <<>> \/ lines[Len(lines)].whole
               PROVE  Verified(lines)
    BY DEF StaysVerifiable
  <2>1. Len(lines) <= MaxEntries
    BY DEF IInv, ChainInv
  <2>2. ASSUME NEW i \in DOMAIN lines
        PROVE  lines[i].end <= MaxBytes /\ lines[i].whole /\ ValidEntry(lines, i)
    <3>1. /\ ValidEntry(lines, i)
          /\ lines[i].whole \/ i = Len(lines)
          /\ lines[i].end <= MaxBytes
      BY <2>2 DEF IInv, ChainInv
    <3>2. lines # <<>>
      BY <2>2 DEF IInv, TypeOK
    <3> QED
      BY <3>1, <3>2
  <2> QED
    BY <2>1, <2>2 DEF Verified
<1> QED
  BY <1>1, Invariant, PTL

(* The line that append has left when it returns stays as it is, through   *)
(* other processes, kills and power failures.                              *)
THEOREM AppendedStays == Spec => []AppendedIsKept
<1>1. IInv => AppendedIsKept
  BY DEF IInv, TypeOK, KeptInv, AppendedIsKept
<1> QED
  BY <1>1, Invariant, PTL

(* The journal verifies unless its last line was cut short, and keeps what  *)
(* append left in it.                                                       *)
THEOREM WholeStays == Spec => []JournalIsWhole
<1>1. StaysVerifiable /\ AppendedIsKept => JournalIsWhole
  BY DEF JournalIsWhole
<1> QED
  BY <1>1, VerifiableStays, AppendedStays, PTL

-----------------------------------------------------------------------------
(* Lines that are not durable are those of the process about to sync them,  *)
(* or of one that ended before it did.                                      *)
UnsyncedInv == synced # Len(lines) => Orphaned \/ \E p \in Process : pc[p] = "sync"

LEMMA LineIsSomething ==
    ASSUME IInv, NEW p \in Process, pc[p] \in {"write", "sync"} PROVE entry[p] # <<>>
<1>1. \A e \in Line : e # <<>>
  <2>1. \A e \in Line : DOMAIN e # {}
    BY DEF Line
  <2> QED
    BY <2>1
<1>2. entry[p] \in Line
  <2>1. CASE pc[p] = "sync"
    BY <2>1 DEF IInv, EntryInv
  <2>2. CASE pc[p] = "write"
    <3>1. PICK body \in Body, size \in Sizes[Len(lines) + 1] : entry[p] = Following(lines, body, size)
      BY <2>2 DEF IInv, EntryInv
    <3>2. lines \in Seq(Line) /\ Len(lines) + 1 \in 1..MaxEntries + 1
      BY JournalAssumption DEF IInv, TypeOK, ChainInv
    <3>3. Sizes[Len(lines) + 1] \in SUBSET Nat
      BY <3>2, JournalAssumption
    <3>4. size \in Nat
      BY <3>1, <3>3
    <3>5. Following(lines, body, size) \in Line
      BY <3>2, <3>4, FollowingIsLine
    <3> QED
      BY <3>1, <3>5
  <2> QED
    BY <2>1, <2>2
<1> QED
  BY <1>1, <1>2

(* Who has ended with a line to write stays ended.                          *)
LEMMA OrphansStay ==
    ASSUME IInv, Orphaned,
           \A p \in Process : pc[p] \in Ended => pc'[p] = pc[p] /\ entry'[p] = entry[p]
    PROVE  Orphaned'
  BY DEF Orphaned, Ended

LEMMA UnsyncedKeeps ==
    ASSUME IInv, UnsyncedInv, [Next]_vars PROVE UnsyncedInv'
<1> USE DEF IInv
<1>1. ASSUME NEW p \in Process, Run(p) \/ Kill(p)
      PROVE  \A q \in Process : pc[q] \in Ended => pc'[q] = pc[q] /\ entry'[q] = entry[q]
  BY <1>1 DEF Run, Kill, Initialize, MakeDirectory, Describe, Seal, CreateJournal, Open, LockExclusive,
              Compose, Refuse, Write, Sync, LockToRead, Read, Goto, Ended, TypeOK
<1>2. ASSUME NEW p \in Process, Write(p) PROVE UnsyncedInv'
  <2>1. entry[p] # <<>> /\ pc[p] = "write" /\ entry' = entry
    BY <1>2, LineIsSomething DEF Write
  <2>2. pc'[p] = "sync" \/ pc'[p] = "failed"
    BY <1>2 DEF Write, Goto, TypeOK
  <2> QED
    BY <2>1, <2>2 DEF UnsyncedInv, Orphaned
<1>3. ASSUME NEW p \in Process, Sync(p) PROVE UnsyncedInv'
  <2>1. entry[p] # <<>> /\ pc[p] = "sync" /\ entry' = entry /\ lines' = lines
    BY <1>3, LineIsSomething DEF Sync
  <2>2. synced' = Len(lines) \/ pc'[p] = "failed"
    BY <1>3 DEF Sync, Goto, TypeOK
  <2> QED
    BY <2>1, <2>2 DEF UnsyncedInv, Orphaned
<1>4. ASSUME NEW p \in Process, Kill(p) PROVE UnsyncedInv'
  <2>1. /\ UNCHANGED <<lines, synced, entry>> /\ pc'[p] = "killed"
        /\ \A q \in Process \ {p} : pc'[q] = pc[q]
    BY <1>4 DEF Kill, Goto, TypeOK
  <2>2. pc[p] = "sync" => Orphaned'
    BY <2>1, LineIsSomething DEF Orphaned
  <2>3. Orphaned => Orphaned'
    BY <1>1, <1>4, OrphansStay
  <2> QED
    BY <2>1, <2>2, <2>3 DEF UnsyncedInv
<1>5. ASSUME NEW p \in Process, Run(p), ~Write(p), ~Sync(p) PROVE UnsyncedInv'
  <2>1. UNCHANGED <<lines, synced>> /\ \A q \in Process : pc[q] = "sync" => pc'[q] = "sync"
    BY <1>5 DEF Run, Initialize, MakeDirectory, Describe, Seal, CreateJournal, Open, LockExclusive,
                Compose, Refuse, LockToRead, Read, Goto, TypeOK
  <2>2. Orphaned => Orphaned'
    BY <1>1, <1>5, OrphansStay
  <2> QED
    BY <2>1, <2>2 DEF UnsyncedInv
<1>6. CASE PowerFails
  <2>1. PICK n \in synced..Len(lines) :
           /\ synced' = n
           /\ \/ lines' = SubSeq(lines, 1, n)
              \/ lines' = [SubSeq(lines, 1, n) EXCEPT ![n].whole = FALSE]
    BY <1>6 DEF PowerFails
  <2>2. lines \in Seq(Line) /\ n \in 0..Len(lines)
    BY <2>1 DEF TypeOK
  <2>3. DOMAIN SubSeq(lines, 1, n) = 1..n /\ SubSeq(lines, 1, n) \in Seq(Line) /\ Len(SubSeq(lines, 1, n)) = n
    BY <2>2
  <2>4. Len([SubSeq(lines, 1, n) EXCEPT ![n].whole = FALSE]) = n
    BY <2>3
  <2> QED
    BY <2>1, <2>3, <2>4 DEF UnsyncedInv
<1>7. CASE UNCHANGED vars
  BY <1>7 DEF vars, UnsyncedInv, Orphaned
<1> QED
  BY <1>2, <1>3, <1>4, <1>5, <1>6, <1>7 DEF Next

(* A verification sees durable lines only, unless a writer died, or failed, *)
(* between its write and its fsync.                                         *)
THEOREM ReadersAlwaysSeeDurable == Spec => []ReadersSeeDurable
<1>1. Init => UnsyncedInv
  BY DEF Init, UnsyncedInv
<1>2. IInv /\ UnsyncedInv => ReadersSeeDurable
  BY JournalAssumption DEF IInv, TypeOK, LockInv, UnsyncedInv, ReadersSeeDurable, Writing
<1> QED
  BY <1>1, <1>2, Invariant, UnsyncedKeeps, PTL DEF Spec
=============================================================================
