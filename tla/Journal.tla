------------------------------- MODULE Journal -------------------------------
(***************************************************************************)
(* sippycup_workbench/journal.py: an engagement directory with a file of   *)
(* hash-chained entries, used by several command-line processes at once.   *)
(* initialize creates the files one after another; append verifies the     *)
(* whole file under an exclusive flock, writes one line and calls fsync;   *)
(* verify (and render) read it under a shared one.  A process may be       *)
(* killed between any two steps, the power may fail, a write may be cut    *)
(* short by a full disk.                                                   *)
(*                                                                         *)
(* What an entry says is its body.  SHA-256 is taken to be injective: a    *)
(* digest is the list of everything it covers.                             *)
(***************************************************************************)
EXTENDS Integers, Sequences

CONSTANTS Process,     \* processes, each of which runs one command
          Body,
          Sizes,       \* Sizes[i]: encoded sizes of the i-th entry
          Least,       \* Least[i]: how many bytes i entries take at least
          MaxBytes,    \* MAX_JOURNAL_BYTES
          MaxEntries,  \* MAX_ENTRIES
          Nobody

(* No journal of MaxEntries + 1 entries has room in MaxBytes: 100,001 of    *)
(* the shortest entries with a time of _utc_now (the first, with no         *)
(* previous digest, is shorter) take 0.1 % more than 32 MiB.                *)
ASSUME JournalAssumption ==
    /\ Nobody \notin Process
    /\ MaxBytes \in Nat /\ MaxEntries \in Nat
    /\ Sizes \in [1..MaxEntries + 1 -> SUBSET Nat]
    /\ Least \in [0..MaxEntries + 1 -> Nat] /\ Least[0] = 0
    /\ \A i \in 1..MaxEntries + 1 : \A size \in Sizes[i] : Least[i] <= Least[i - 1] + size
    /\ MaxBytes < Least[MaxEntries + 1]

VARIABLES directory, meta, created,  \* what initialize has made
          lines,     \* journal.jsonl
          synced,    \* how many of them the last fsync made durable
          writer,    \* who has the exclusive lock, or Nobody
          readers,   \* who have a shared lock
          pc,
          entry,     \* the line a process is about to write
          appended   \* for each append that returned, its line as it was on disk

files == <<directory, meta, created>>
locks == <<writer, readers>>
vars == <<files, lines, synced, locks, pc, entry, appended>>

Digest == Seq(Nat \X Body)
Line == [sequence : Nat, previous : Digest, body : Body, digest : Digest,
         end : Nat, whole : BOOLEAN]

Ended == {"done", "failed", "killed"}
Where == {"idle", "describe", "seal", "create", "append", "verify", "check", "write",
          "sync", "read"} \cup Ended

(* Nothing is there, or an engagement that was initialised before.         *)
Init ==
    /\ \/ directory = FALSE /\ meta = "absent" /\ created = FALSE
       \/ directory = TRUE /\ meta = "written" /\ created = TRUE
    /\ lines = <<>> /\ synced = 0
    /\ writer = Nobody /\ readers = {}
    /\ pc = [p \in Process |-> "idle"]
    /\ entry = [p \in Process |-> <<>>]
    /\ appended = {}

-----------------------------------------------------------------------------
EntryDigest(e) == Append(e.previous, <<e.sequence, e.body>>)

Final(ls) == IF ls = <<>> THEN <<>> ELSE ls[Len(ls)].digest
Size(ls) == IF ls = <<>> THEN 0 ELSE ls[Len(ls)].end

(* _validate_entry for the i-th line.                                      *)
ValidEntry(ls, i) ==
    /\ ls[i].sequence = i
    /\ ls[i].previous = (IF i = 1 THEN <<>> ELSE ls[i - 1].digest)
    /\ ls[i].digest = EntryDigest(ls[i])

(* _verify_stream raises no error.                                         *)
Verified(ls) ==
    /\ Len(ls) <= MaxEntries
    /\ \A i \in DOMAIN ls :
          ls[i].end <= MaxBytes /\ ls[i].whole /\ ValidEntry(ls, i)

Goto(p, to) == pc' = [pc EXCEPT ![p] = to]
NoLock == UNCHANGED locks
Unlock(p) ==
    /\ writer' = IF writer = p THEN Nobody ELSE writer
    /\ readers' = readers \ {p}

(* initialize: mkdir refuses an existing directory; engagement.json is     *)
(* created empty, then written and synced; then journal.jsonl is created.  *)
MakeDirectory(p) ==
    /\ pc[p] = "idle"
    /\ directory' = TRUE
    /\ Goto(p, IF directory THEN "failed" ELSE "describe")
    /\ UNCHANGED <<meta, created, lines, synced, locks, entry, appended>>

Describe(p) ==
    /\ pc[p] = "describe" /\ meta' = "torn" /\ Goto(p, "seal")
    /\ UNCHANGED <<directory, created, lines, synced, locks, entry, appended>>

Seal(p) ==
    /\ pc[p] = "seal" /\ meta' = "written" /\ Goto(p, "create")
    /\ UNCHANGED <<directory, created, lines, synced, locks, entry, appended>>

CreateJournal(p) ==
    /\ pc[p] = "create" /\ created' = TRUE /\ Goto(p, "done")
    /\ UNCHANGED <<directory, meta, lines, synced, locks, entry, appended>>

Initialize(p) == MakeDirectory(p) \/ Describe(p) \/ Seal(p) \/ CreateJournal(p)

(* append and verify read the metadata and open the journal.               *)
Open(p, command) ==
    /\ pc[p] = "idle"
    /\ Goto(p, IF meta = "written" /\ created THEN command ELSE "failed")
    /\ UNCHANGED <<files, lines, synced, locks, entry, appended>>

(* Mutant: an appender takes the shared lock.                              *)
LockShared(p) ==
    /\ pc[p] = "append"
    /\ writer = Nobody
    /\ readers' = readers \cup {p} /\ Goto(p, "check")
    /\ UNCHANGED <<files, lines, synced, writer, entry, appended>>

LockExclusive(p) ==
    /\ pc[p] = "append"
    /\ writer = Nobody /\ readers = {}
    /\ writer' = p /\ Goto(p, "check")
    /\ UNCHANGED <<files, lines, synced, readers, entry, appended>>

Following(ls, body, size) ==
    LET e == [sequence |-> Len(ls) + 1, previous |-> Final(ls), body |-> body]
    IN [sequence |-> e.sequence, previous |-> e.previous, body |-> body,
        digest |-> EntryDigest(e), end |-> Size(ls) + size, whole |-> TRUE]

Compose(p) ==
    /\ pc[p] = "check"
    /\ Verified(lines)
    /\ \E body \in Body, size \in Sizes[Len(lines) + 1] :
          /\ Size(lines) + size <= MaxBytes
          /\ entry' = [entry EXCEPT ![p] = Following(lines, body, size)]
    /\ Goto(p, "write")
    /\ UNCHANGED <<files, lines, synced, locks, appended>>

(* The journal does not verify, or the entry has no room.                  *)
Refused == Verified(lines) => \E size \in Sizes[Len(lines) + 1] : Size(lines) + size > MaxBytes

(* Mutant: the descriptor stays open, and with it the lock.                *)
RefuseHolding(p) ==
    /\ pc[p] = "check" /\ Refused
    /\ Goto(p, "failed") /\ NoLock
    /\ UNCHANGED <<files, lines, synced, entry, appended>>

Refuse(p) ==
    /\ pc[p] = "check" /\ Refused
    /\ Unlock(p) /\ Goto(p, "failed")
    /\ UNCHANGED <<files, lines, synced, entry, appended>>

(* os.write: all of the line, none of it with an error, or part of it: the *)
(* number of bytes written is not looked at.                               *)
Write(p) ==
    /\ pc[p] = "write"
    /\ \/ /\ \E whole \in BOOLEAN :
                lines' = Append(lines, [entry[p] EXCEPT !.whole = whole])
          /\ Goto(p, "sync") /\ NoLock
       \/ Unlock(p) /\ Goto(p, "failed") /\ UNCHANGED lines
    /\ UNCHANGED <<files, synced, entry, appended>>

(* os.fsync, with or without an error; leaving the block closes the file.  *)
(* append returns the entry it composed, whatever part of it was written.  *)
Sync(p) ==
    /\ pc[p] = "sync"
    /\ \/ /\ synced' = Len(lines) /\ appended' = appended \cup {lines[Len(lines)]}
          /\ Goto(p, "done")
       \/ Goto(p, "failed") /\ UNCHANGED <<synced, appended>>
    /\ Unlock(p)
    /\ UNCHANGED <<files, lines, entry>>

(* Mutant: a reader does not wait for a writer.                            *)
ReadUnlocked(p) ==
    /\ pc[p] = "verify"
    /\ readers' = readers \cup {p} /\ Goto(p, "read")
    /\ UNCHANGED <<files, lines, synced, writer, entry, appended>>

LockToRead(p) ==
    /\ pc[p] = "verify"
    /\ writer = Nobody
    /\ readers' = readers \cup {p} /\ Goto(p, "read")
    /\ UNCHANGED <<files, lines, synced, writer, entry, appended>>

Read(p) ==
    /\ pc[p] = "read"
    /\ Unlock(p) /\ Goto(p, IF Verified(lines) THEN "done" ELSE "failed")
    /\ UNCHANGED <<files, lines, synced, entry, appended>>

(* A killed process loses its locks; what it wrote stays.                  *)
Kill(p) ==
    /\ pc[p] \notin Ended \cup {"idle"}
    /\ Unlock(p) /\ Goto(p, "killed")
    /\ UNCHANGED <<files, lines, synced, entry, appended>>

(* With the power, lines that were not synced are lost, from some line on, *)
(* which may be left in part.                                              *)
PowerFails ==
    /\ \E p \in Process : pc[p] \notin Ended \cup {"idle"}
    /\ pc' = [p \in Process |-> IF pc[p] \in Ended \cup {"idle"} THEN pc[p] ELSE "killed"]
    /\ writer' = Nobody /\ readers' = {}
    /\ \E n \in synced..Len(lines) :
          \/ lines' = SubSeq(lines, 1, n) /\ synced' = n
          \/ /\ n > synced
             /\ lines' = [SubSeq(lines, 1, n) EXCEPT ![n].whole = FALSE] /\ synced' = n
    /\ UNCHANGED <<files, entry, appended>>

Run(p) ==
    \/ Initialize(p) \/ Open(p, "append") \/ Open(p, "verify")
    \/ LockExclusive(p) \/ Compose(p) \/ Refuse(p) \/ Write(p) \/ Sync(p)
    \/ LockToRead(p) \/ Read(p)

Next == PowerFails \/ \E p \in Process : Run(p) \/ Kill(p)

Spec == Init /\ [][Next]_vars

(* A command that can go on does: flock is granted when it is free.        *)
FairSpec == Spec /\ \A p \in Process : WF_vars(Run(p))
-----------------------------------------------------------------------------
(* Properties.                                                             *)

Writing == {"check", "write", "sync"}

TypeOK ==
    /\ directory \in BOOLEAN /\ meta \in {"absent", "torn", "written"} /\ created \in BOOLEAN
    /\ lines \in Seq(Line) /\ synced \in 0..Len(lines)
    /\ writer \in Process \cup {Nobody} /\ readers \subseteq Process
    /\ pc \in [Process -> Where] /\ DOMAIN entry = Process
    /\ appended \subseteq Line

LockInv ==
    /\ \A p \in Process : pc[p] \in Writing <=> writer = p
    /\ \A p \in Process : pc[p] = "read" <=> p \in readers
    /\ writer # Nobody => readers = {}

(* The lines are chained and fit; only the last can be a part of one.      *)
ChainInv ==
    /\ Len(lines) <= MaxEntries
    /\ \A i \in DOMAIN lines :
          /\ ValidEntry(lines, i)
          /\ lines[i].whole \/ i = Len(lines)
          /\ Least[i] <= lines[i].end /\ lines[i].end <= MaxBytes

(* Whoever is about to write has checked the lines as they are, and has     *)
(* room for one more.                                                       *)
EntryInv ==
    \A p \in Process :
       /\ pc[p] = "write" =>
             /\ Verified(lines)
             /\ \E body \in Body, size \in Sizes[Len(lines) + 1] :
                   Size(lines) + size <= MaxBytes /\ entry[p] = Following(lines, body, size)
       /\ pc[p] = "sync" =>
             /\ lines # <<>> /\ entry[p] \in Line
             /\ [lines[Len(lines)] EXCEPT !.whole = TRUE] = entry[p]

(* The line of every append that returned is durable, at its place.        *)
KeptInv == \A e \in appended : e.sequence \in 1..synced /\ lines[e.sequence] = e

IInv == TypeOK /\ LockInv /\ ChainInv /\ EntryInv /\ KeptInv

(* "maintain a hash-chained assessment journal": whatever processes append *)
(* at once, whoever is killed, the journal verifies, within every limit of *)
(* _verify_stream, unless its last line was cut short.                      *)
StaysVerifiable ==
    Verified(lines) \/ (lines # <<>> /\ ~lines[Len(lines)].whole)

(* From the moment append returns, the line it has written stays as it is: *)
(* no other process, kill or power failure loses, cuts or replaces it.     *)
AppendedIsKept == \A e \in appended : e.sequence <= Len(lines) /\ lines[e.sequence] = e

(* The journal verifies unless its last line was cut short, and keeps the  *)
(* lines that append left in it.                                           *)
JournalIsWhole == StaysVerifiable /\ AppendedIsKept

(* docs/ASSESSMENT-WORKFLOW.md:43: "Journal entries are finite, strictly   *)
(* sequenced JSON records."  The line of an append that returned is one.   *)
AppendedIsWhole == \A e \in appended : e.whole

(* A verification reads durable lines only, but for a line whose writer     *)
(* died, or had an error, between the write and the fsync.                  *)
Orphaned == \E p \in Process : pc[p] \in {"killed", "failed"} /\ entry[p] # <<>>
ReadersSeeDurable == readers # {} /\ ~Orphaned => synced = Len(lines)

(* Every command ends: nobody waits for a lock that is not given back.     *)
CommandsEnd == \A p \in Process : pc[p] # "idle" ~> pc[p] \in Ended
=============================================================================
