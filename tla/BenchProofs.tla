------------------------------ MODULE BenchProofs ------------------------------
(***************************************************************************)
(* Proofs about the tools of the workbench: for every run directory, every *)
(* number of writers, creators and inventories of its evidence, for every  *)
(* stream of events and every operator of mission control, for every       *)
(* selection of torture cases, for every failure of every message that the *)
(* minimiser is given, for every overlap of the sets of output files, and  *)
(* for every chaos request, profile, machine and edit of the plans.        *)
(***************************************************************************)
EXTENDS MCBench, FiniteSetTheorems, WellFoundedInduction, TLAPS

-----------------------------------------------------------------------------
(* Evidence packs.  A hash that was recorded for a file is of its present  *)
(* content, of a prefix of it if the file only grows, or it is stale: the  *)
(* file was rewritten since, and what is in it now never has that hash.    *)

Artifact == Packs!Artifact
None == Packs!None
Private(content) == Packs!Private(content)
Chunk == [n : Nat, private : BOOLEAN]
Content == Seq(Chunk)
Contents == [Artifact -> Content]

Stale(r, f, x) == f \notin Appended /\ x[1].n < r[f][1].n
Past(r, f, x) ==
    /\ Len(x) > 0
    /\ f \in Appended => Len(x) <= Len(r[f]) /\ \A i \in 1..Len(x) : x[i] = r[f][i]
    /\ f \notin Appended => Len(x) = 1 /\ (x = r[f] \/ Stale(r, f, x))

(* What was found private is blocked, unless it is not there any more.     *)
Inspected(r, f, x, blocked) == Private(x) /\ ~blocked => Stale(r, f, x)
Before(i) == {Files[j] : j \in 1..i - 1}
Good(r, m) ==
    \A f \in Artifact : Past(r, f, m.hashes[f]) /\ Inspected(r, f, m.hashes[f], m.blocked)

(* A copy with the declared hash is private only if that was declared.     *)
Copied(p, f) ==
    p.members[f] = p.declared.hashes[f] /\ Private(p.members[f]) => p.declared.blocked
Sound(p) == \A f \in Artifact : Copied(p, f)

Manifest == [serial : Nat, hashes : Contents, blocked : BOOLEAN]
Tar == [declared : Manifest, embedded : Manifest \cup {None}, members : Contents,
        encrypted : BOOLEAN]
InventoryPc == {"idle", "hash", "scan", "write"}
CreatorPc == {"start", "failed", "hash", "manifest", "copy", "publish", "done"}
ExporterPc == {"idle", "failed", "privacy", "again", "extract", "replace", "done"}
Reading == {"privacy", "again", "extract", "replace"}

RootType == root \in Contents /\ edits \in Nat
Inventory == [pc : InventoryPc, at : 1..Len(Files), hashes : Contents, blocked : BOOLEAN,
              serial : Nat]
Creator == [pc : CreatorPc, at : 1..Len(Files), read : Manifest \cup {None},
            tar : Tar \cup {None}]
PackingType ==
    /\ manifest \in Manifest \cup {None}
    /\ inventory \in Inventory
    /\ creator \in [Creators -> Creator]
PackType == pack \in Tar \cup {None}

RootInv ==
    /\ RootType
    /\ \A f \in Artifact :
          /\ Len(root[f]) > 0 /\ (f \notin Appended => Len(root[f]) = 1)
          /\ \A i \in 1..Len(root[f]) : root[f][i].n <= edits

InventoryOK(r, v) ==
    /\ v.pc = "hash" => \A f \in Before(v.at) : Past(r, f, v.hashes[f])
    /\ v.pc \in {"scan", "write"} => \A f \in Artifact : Past(r, f, v.hashes[f])
    /\ v.pc = "scan" => \A f \in Before(v.at) : Inspected(r, f, v.hashes[f], v.blocked)
    /\ v.pc = "write" => Good(r, v)
InventoryInv == InventoryOK(root, inventory) /\ (manifest # None => Good(root, manifest))

CreatorOK(r, k) ==
    /\ k.pc \in {"hash", "manifest", "copy", "publish"} => k.read # None /\ Good(r, k.read)
    /\ k.pc \in {"copy", "publish"} => k.tar # None /\ k.tar.declared = k.read
    /\ k.pc = "manifest" => k.at = 1
    /\ k.pc = "copy" => \A f \in Before(k.at) : Copied(k.tar, f)
    /\ k.pc = "publish" => Sound(k.tar)
CreatorInv == \A c \in Creators : CreatorOK(root, creator[c])

PackInv == pack # None => Sound(pack)

(* What an export staged is of the one pack it read, if it read only one.  *)
Exporter(blocked) ==
    [pc : ExporterPc, at : 1..Len(Files), allow : BOOLEAN, blocked : {blocked},
     declared : Contents, seen : SUBSET Tar, staged : Contents]
Whole(e, p) ==
    /\ Sound(p) /\ Packs!ContentValid(p)
    /\ e.pc # "privacy" => e.blocked = p.embedded.blocked /\ (e.blocked => e.allow)
    /\ e.pc \in {"extract", "replace"} => e.declared = p.declared.hashes
    /\ e.pc = "extract" => \A f \in Before(e.at) : e.staged[f] = p.members[f]
    /\ e.pc = "replace" => \A f \in Artifact : e.staged[f] = p.members[f]
ExporterOK(e) ==
    /\ e \in Exporter(e.blocked) /\ IsFiniteSet(e.seen)
    /\ e.pc = "idle" => e.seen = {} /\ e.at = 1
    /\ e.pc \in Reading => e.seen # {}
    /\ e.pc \in {"privacy", "again"} => e.at = 1
    /\ \A p \in e.seen : e.seen = {p} /\ e.pc \in Reading => Whole(e, p)
ExportInv ==
    /\ ExporterOK(exporter)
    /\ exporter.pc \in Reading => pack # None
    /\ Packs!ExportIsCleared

PackingInv == RootInv /\ PackingType /\ PackType /\ InventoryInv /\ CreatorInv /\ PackInv

-----------------------------------------------------------------------------
(* Files.                                                                  *)
LEMMA FilesAre ==
    /\ Len(Files) \in Nat \ {0}
    /\ \A i \in 1..Len(Files) : Files[i] \in Artifact
    /\ \A f \in Artifact : \E i \in 1..Len(Files) : f = Files[i]
    /\ \A i \in 1..Len(Files) : Before(i) \subseteq Artifact
    /\ Before(Len(Files) + 1) = Artifact
    /\ Before(1) = {}
    /\ \A i \in 1..Len(Files) : Before(i + 1) = Before(i) \cup {Files[i]}
<1>1. Files \in Seq(STRING) /\ Files # <<>>
  BY BenchAssumption
<1>2. Len(Files) \in Nat \ {0} /\ DOMAIN Files = 1..Len(Files)
  BY <1>1
<1>3. Artifact = {Files[i] : i \in 1..Len(Files)}
  BY <1>2 DEF Artifact, Packs!Artifact
<1>4. \A i \in 1..Len(Files) : i - 1 \in Nat /\ 1..i - 1 \subseteq 1..Len(Files)
  BY <1>2
<1>5. \A i \in 1..Len(Files) : Before(i) \subseteq Artifact
  BY <1>3, <1>4 DEF Before
<1>6. Before(1) = {} /\ Before(Len(Files) + 1) = Artifact
  BY <1>2, <1>3 DEF Before
<1>7. ASSUME NEW i \in 1..Len(Files) PROVE Before(i + 1) = Before(i) \cup {Files[i]}
  <2>1. 1..(i + 1) - 1 = (1..i - 1) \cup {i}
    BY <1>2
  <2> QED
    BY <2>1 DEF Before
<1> QED
  BY <1>2, <1>3, <1>5, <1>6, <1>7

(* As many bytes as were declared of a file that still has them.           *)
LEMMA PrefixIs ==
    ASSUME NEW x \in Content, NEW y \in Content, Len(x) <= Len(y),
           \A i \in 1..Len(x) : x[i] = y[i]
    PROVE  Packs!Prefix(y, Len(x)) = x
<1>1. Packs!Prefix(y, Len(x)) = SubSeq(y, 1, Len(x))
  BY DEF Packs!Prefix, Content
<1>2. /\ SubSeq(y, 1, Len(x)) \in Content /\ Len(SubSeq(y, 1, Len(x))) = Len(x)
      /\ \A i \in 1..Len(x) : SubSeq(y, 1, Len(x))[i] = y[i]
  BY DEF Content
<1> QED
  BY <1>1, <1>2 DEF Content

LEMMA PrefixType ==
    ASSUME NEW y \in Content, NEW n \in Nat
    PROVE  Packs!Prefix(y, n) \in Content
BY DEF Packs!Prefix, Content

(* Of a recorded hash that is not stale, the file still has the bytes.     *)
LEMMA PastIsThere ==
    ASSUME RootInv, NEW f \in Artifact, NEW x \in Content, Past(root, f, x), ~Stale(root, f, x)
    PROVE  Packs!Prefix(root[f], Len(x)) = x
<1>1. root[f] \in Content /\ Len(x) \in Nat /\ Len(root[f]) \in Nat
  BY DEF RootInv, RootType, Contents, Content
<1>2. CASE f \in Appended
  BY <1>1, <1>2, PrefixIs DEF Past
<1>3. CASE f \notin Appended
  <2>1. x = root[f]
    BY <1>3 DEF Past
  <2> QED
    BY <1>1, <2>1, PrefixIs
<1> QED
  BY <1>2, <1>3

(* A stale hash is of nothing that can be copied.                          *)
LEMMA StaleIsGone ==
    ASSUME RootInv, NEW f \in Artifact, NEW x \in Content, Past(root, f, x), Stale(root, f, x)
    PROVE  Packs!Prefix(root[f], Len(x)) # x
<1>1. root[f] \in Content /\ Len(x) = 1 /\ Len(root[f]) = 1
  BY DEF RootInv, RootType, Contents, Past, Stale
<1>2. Packs!Prefix(root[f], Len(root[f])) = root[f]
  <2>1. Len(root[f]) <= Len(root[f]) /\ \A i \in 1..Len(root[f]) : root[f][i] = root[f][i]
    BY <1>1
  <2> QED
    BY <1>1, <2>1, PrefixIs
<1>3. x[1].n \in Nat /\ root[f][1].n \in Nat
  <2>1. x[1] \in Chunk /\ root[f][1] \in Chunk
    BY <1>1 DEF Content
  <2> QED
    BY <2>1 DEF Chunk
<1>4. x # root[f]
  BY <1>3 DEF Stale
<1> QED
  BY <1>1, <1>2, <1>4

-----------------------------------------------------------------------------
(* What an edit of a file leaves true.                                     *)
LEMMA EditIs ==
    ASSUME RootInv, NEW g \in Artifact, Packs!Edit(g)
    PROVE  \E chunk \in Chunk :
             /\ chunk.n = edits + 1 /\ edits' = edits + 1
             /\ root' = [root EXCEPT ![g] = IF g \in Appended THEN Append(@, chunk) ELSE <<chunk>>]
<1>1. PICK p \in BOOLEAN :
         root' = [root EXCEPT ![g] = IF g \in Appended
                                       THEN Append(@, [n |-> edits + 1, private |-> p])
                                       ELSE <<[n |-> edits + 1, private |-> p]>>]
  BY DEF Packs!Edit
<1>2. [n |-> edits + 1, private |-> p] \in Chunk
  BY DEF RootInv, RootType, Chunk
<1>3. edits' = edits + 1
  BY DEF Packs!Edit
<1> QED
  BY <1>1, <1>2, <1>3

LEMMA EditKeepsPast ==
    ASSUME RootInv, NEW g \in Artifact, Packs!Edit(g),
           NEW f \in Artifact, NEW x \in Content, Past(root, f, x)
    PROVE  Past(root', f, x) /\ (Stale(root, f, x) => Stale(root', f, x))
<1>1. PICK chunk \in Chunk :
         /\ chunk.n = edits + 1
         /\ root' = [root EXCEPT ![g] = IF g \in Appended THEN Append(@, chunk) ELSE <<chunk>>]
  BY EditIs
<1>2. /\ root[f] \in Content /\ Len(root[f]) \in Nat \ {0} /\ edits \in Nat /\ Len(x) \in Nat \ {0}
      /\ \A i \in 1..Len(root[f]) : root[f][i] \in Chunk /\ root[f][i].n <= edits
      /\ \A i \in 1..Len(x) : x[i] \in Chunk
  <2>1. root[f] \in Content /\ edits \in Nat /\ Len(root[f]) > 0 /\ Len(x) > 0
    BY DEF RootInv, RootType, Contents, Past
  <2>2. \A i \in 1..Len(root[f]) : root[f][i].n <= edits
    BY DEF RootInv
  <2> QED
    BY <2>1, <2>2 DEF Content
<1>3. CASE f # g
  <2>1. root'[f] = root[f]
    BY <1>1, <1>3 DEF RootInv, RootType, Contents
  <2> QED
    BY <2>1 DEF Past, Stale
<1>4. CASE f = g /\ f \in Appended
  <2>1. root'[f] = Append(root[f], chunk)
    BY <1>1, <1>4 DEF RootInv, RootType, Contents
  <2>2. /\ Len(root'[f]) = Len(root[f]) + 1
        /\ \A i \in 1..Len(root[f]) : root'[f][i] = root[f][i]
    BY <1>2, <2>1 DEF Content
  <2> QED
    BY <1>2, <1>4, <2>2 DEF Past, Stale
<1>5. CASE f = g /\ f \notin Appended
  <2>1. root'[f] = <<chunk>>
    BY <1>1, <1>5 DEF RootInv, RootType, Contents
  <2>2. Len(x) = 1 /\ (x = root[f] \/ x[1].n < root[f][1].n)
    BY <1>5 DEF Past, Stale
  <2>3. x[1].n \in Nat /\ root[f][1].n \in Nat /\ root[f][1].n <= edits
    BY <1>2, <2>2 DEF Chunk
  <2>4. x[1].n <= edits
    BY <1>2, <2>2, <2>3
  <2>5. root'[f][1].n = edits + 1
    BY <1>1, <2>1
  <2>6. x[1].n < root'[f][1].n
    BY <1>2, <2>3, <2>4, <2>5
  <2>7. Stale(root', f, x)
    BY <1>5, <2>6 DEF Stale
  <2> QED
    BY <1>5, <2>2, <2>7 DEF Past
<1> QED
  BY <1>3, <1>4, <1>5

LEMMA EditKeepsRoot ==
    ASSUME RootInv, NEW g \in Artifact, Packs!Edit(g)
    PROVE  RootInv'
<1>1. PICK chunk \in Chunk :
         /\ chunk.n = edits + 1 /\ edits' = edits + 1
         /\ root' = [root EXCEPT ![g] = IF g \in Appended THEN Append(@, chunk) ELSE <<chunk>>]
  BY EditIs
<1>2. /\ root[g] \in Content /\ Len(root[g]) \in Nat \ {0} /\ edits \in Nat
      /\ \A i \in 1..Len(root[g]) : root[g][i] \in Chunk /\ root[g][i].n <= edits
  BY DEF RootInv, RootType, Contents, Content
<1>3. DEFINE new == IF g \in Appended THEN Append(root[g], chunk) ELSE <<chunk>>
<1>4. new \in Content /\ Len(new) > 0 /\ (g \notin Appended => Len(new) = 1)
  BY <1>2 DEF Content
<1>5. \A i \in 1..Len(new) : new[i].n <= edits + 1
  <2> SUFFICES ASSUME NEW i \in 1..Len(new) PROVE new[i].n <= edits + 1
    OBVIOUS
  <2>1. CASE g \in Appended
    <3>1. Len(new) = Len(root[g]) + 1
      BY <1>2, <2>1 DEF Content
    <3>2. CASE i = Len(root[g]) + 1
      BY <1>1, <1>2, <2>1, <3>2 DEF Content
    <3>3. CASE i # Len(root[g]) + 1
      <4>1. i \in 1..Len(root[g])
        BY <1>2, <3>1, <3>3
      <4>2. new[i] = root[g][i]
        BY <1>2, <2>1, <4>1 DEF Content
      <4>3. root[g][i].n \in Nat /\ root[g][i].n <= edits
        BY <1>2, <4>1 DEF Chunk
      <4> QED
        BY <1>2, <4>2, <4>3
    <3> QED
      BY <3>2, <3>3
  <2>2. CASE g \notin Appended
    BY <1>1, <1>2, <2>2
  <2> QED
    BY <2>1, <2>2
<1>6. root' = [root EXCEPT ![g] = new]
  BY <1>1
<1> HIDE DEF new
<1>7. RootType'
  <2>1. root' \in [Artifact -> Content]
    BY <1>4, <1>6 DEF RootInv, RootType, Contents
  <2>2. edits' \in Nat
    BY <1>1, <1>2
  <2> QED
    BY <2>1, <2>2 DEF RootType, Contents, Artifact, Packs!Artifact, Content, Chunk
<1>8. ASSUME NEW f \in Artifact
      PROVE  /\ Len(root'[f]) > 0 /\ (f \notin Appended => Len(root'[f]) = 1)
             /\ \A i \in 1..Len(root'[f]) : root'[f][i].n <= edits'
  <2>1. CASE f = g
    <3>1. root'[f] = new
      BY <1>6, <2>1 DEF RootInv, RootType, Contents
    <3> QED
      BY <1>1, <1>4, <1>5, <2>1, <3>1
  <2>2. CASE f # g
    <3>1. root'[f] = root[f]
      BY <1>6, <2>2 DEF RootInv, RootType, Contents
    <3>2. \A i \in 1..Len(root[f]) : root[f][i].n <= edits /\ root[f][i].n \in Nat
      <4>1. \A i \in 1..Len(root[f]) : root[f][i] \in Chunk
        BY DEF RootInv, RootType, Contents, Content
      <4> QED
        BY <4>1 DEF RootInv, Chunk
    <3> QED
      BY <1>1, <1>2, <3>1, <3>2 DEF RootInv
  <2> QED
    BY <2>1, <2>2
<1> QED
  BY <1>7, <1>8 DEF RootInv

LEMMA EditKeepsGood ==
    ASSUME RootInv, NEW g \in Artifact, Packs!Edit(g), NEW x \in Contents
    PROVE  \A f \in Artifact : Past(root, f, x[f]) =>
              /\ Past(root', f, x[f])
              /\ \A b \in BOOLEAN : Inspected(root, f, x[f], b) => Inspected(root', f, x[f], b)
BY EditKeepsPast DEF Inspected, Contents

LEMMA EditKeeps ==
    ASSUME PackingInv, NEW g \in Artifact, Packs!Edit(g)
    PROVE  PackingInv'
<1> USE DEF PackingInv
<1>1. RootInv'
  BY EditKeepsRoot
<1>2. UNCHANGED <<manifest, inventory, creator, pack>>
  BY DEF Packs!Edit, Packs!packing
<1>3. PackingType' /\ PackType' /\ PackInv'
  BY <1>2 DEF PackingType, PackType, PackInv
<1>4. ASSUME NEW m, m.hashes \in Contents, m.blocked \in BOOLEAN, Good(root, m)
      PROVE  Good(root', m)
  BY <1>4, EditKeepsGood DEF Good
<1>5. InventoryInv'
  <2>1. /\ inventory.hashes \in Contents /\ inventory.blocked \in BOOLEAN
        /\ Before(inventory.at) \subseteq Artifact
    BY FilesAre DEF PackingType, Inventory
  <2>2. InventoryOK(root', inventory)
    BY <1>4, <2>1, EditKeepsGood DEF InventoryInv, InventoryOK
  <2>3. manifest # None => Good(root', manifest)
    BY <1>4 DEF InventoryInv, PackingType, Manifest
  <2> QED
    BY <1>2, <2>2, <2>3 DEF InventoryInv
<1>6. CreatorInv'
  <2> SUFFICES ASSUME NEW c \in Creators PROVE CreatorOK(root', creator[c])
    BY <1>2 DEF CreatorInv
  <2>1. creator[c].read # None =>
           creator[c].read.hashes \in Contents /\ creator[c].read.blocked \in BOOLEAN
    BY DEF PackingType, Creator, Manifest
  <2> QED
    BY <1>4, <2>1 DEF CreatorInv, CreatorOK
<1> QED
  BY <1>1, <1>3, <1>5, <1>6

-----------------------------------------------------------------------------
(* The inventory: a file is past as soon as it is hashed, and inspected    *)
(* when what it still has of those bytes was read again.                   *)
LEMMA PresentIsPast ==
    ASSUME RootInv, NEW f \in Artifact
    PROVE  root[f] \in Content /\ Past(root, f, root[f])
<1>1. root[f] \in Content /\ Len(root[f]) > 0 /\ (f \notin Appended => Len(root[f]) = 1)
  BY DEF RootInv, RootType, Contents
<1>2. Len(root[f]) <= Len(root[f])
  BY <1>1 DEF Content
<1> QED
  BY <1>1, <1>2 DEF Past

LEMMA HashKeeps ==
    ASSUME PackingInv, Packs!Hash
    PROVE  InventoryOK(root, inventory') /\ inventory' \in Inventory
<1> DEFINE i == inventory.at
           f == Files[i]
<1>1. /\ inventory \in Inventory /\ i \in 1..Len(Files) /\ f \in Artifact
      /\ inventory.pc = "hash" /\ inventory.hashes \in Contents
      /\ Len(Files) \in Nat
  BY FilesAre DEF PackingInv, PackingType, Inventory, Packs!Hash, Packs!Step
<1>2. /\ inventory' \in Inventory
      /\ inventory'.hashes = [inventory.hashes EXCEPT ![f] = root[f]]
      /\ inventory'.at = IF i = Len(Files) THEN 1 ELSE i + 1
      /\ inventory'.pc = IF i = Len(Files) THEN "scan" ELSE "hash"
  <2>1. inventory' = [inventory EXCEPT !.hashes = [inventory.hashes EXCEPT ![f] = root[f]],
                        !.at = IF i = Len(Files) THEN 1 ELSE i + 1,
                        !.pc = IF i = Len(Files) THEN "scan" ELSE "hash"]
    BY <1>1 DEF Packs!Hash, Packs!Current, Packs!Last, Inventory
  <2>2. [inventory.hashes EXCEPT ![f] = root[f]] \in Contents
    BY <1>1, PresentIsPast DEF PackingInv, Contents
  <2> DEFINE hashes == [inventory.hashes EXCEPT ![f] = root[f]]
             next == IF i = Len(Files) THEN 1 ELSE i + 1
             goes == IF i = Len(Files) THEN "scan" ELSE "hash"
  <2>3. next \in 1..Len(Files) /\ goes \in InventoryPc /\ hashes \in Contents
    BY <1>1, <2>2 DEF InventoryPc
  <2>4. inventory' = [inventory EXCEPT !.hashes = hashes, !.at = next, !.pc = goes]
    BY <2>1
  <2> HIDE DEF hashes, next, goes
  <2>5. inventory' \in Inventory
    BY <1>1, <2>3, <2>4 DEF Inventory
  <2>6. inventory'.hashes = hashes /\ inventory'.at = next /\ inventory'.pc = goes
    BY <1>1, <2>4 DEF Inventory
  <2> QED
    BY <2>5, <2>6 DEF hashes, next, goes
<1>3. \A g \in Before(i + 1) : Past(root, g, inventory'.hashes[g])
  <2>1. Before(i + 1) = Before(i) \cup {f} /\ Before(i) \subseteq Artifact
    BY <1>1, FilesAre
  <2>2. inventory'.hashes[f] = root[f]
        /\ \A g \in Artifact : g # f => inventory'.hashes[g] = inventory.hashes[g]
    BY <1>1, <1>2 DEF Contents
  <2>3. \A g \in Before(i) : Past(root, g, inventory.hashes[g])
    BY <1>1 DEF PackingInv, InventoryInv, InventoryOK
  <2>4. Past(root, f, root[f])
    BY <1>1, PresentIsPast DEF PackingInv
  <2> QED
    BY <2>1, <2>2, <2>3, <2>4
<1> HIDE DEF f
<1>4. CASE i = Len(Files)
  <2>1. \A g \in Artifact : Past(root, g, inventory'.hashes[g])
    BY <1>3, <1>4, FilesAre
  <2> QED
    BY <1>2, <1>4, <2>1, FilesAre DEF InventoryOK
<1>5. CASE i # Len(Files)
  BY <1>2, <1>3, <1>5 DEF InventoryOK
<1> QED
  BY <1>4, <1>5

LEMMA ScanKeeps ==
    ASSUME PackingInv, Packs!Scan
    PROVE  InventoryOK(root, inventory') /\ inventory' \in Inventory
<1> DEFINE i == inventory.at
           f == Files[i]
           x == inventory.hashes[f]
           found == inventory.blocked \/ Private(Packs!Prefix(root[f], Len(x)))
<1>1. /\ inventory \in Inventory /\ i \in 1..Len(Files) /\ f \in Artifact
      /\ inventory.pc = "scan" /\ inventory.hashes \in Contents /\ x \in Content
      /\ Len(Files) \in Nat /\ inventory.blocked \in BOOLEAN
  BY FilesAre DEF PackingInv, PackingType, Inventory, Contents, Packs!Scan, Packs!Step
<1>2. /\ inventory' \in Inventory
      /\ inventory'.hashes = inventory.hashes
      /\ inventory'.blocked = found
      /\ inventory'.at = IF i = Len(Files) THEN 1 ELSE i + 1
      /\ inventory'.pc = IF i = Len(Files) THEN "write" ELSE "scan"
  <2>1. inventory' = [inventory EXCEPT !.blocked = found,
                        !.at = IF i = Len(Files) THEN 1 ELSE i + 1,
                        !.pc = IF i = Len(Files) THEN "write" ELSE "scan"]
    BY <1>1 DEF Packs!Scan, Packs!Current, Packs!Last, Inventory, Private
  <2>2. found \in BOOLEAN
    BY <1>1 DEF Private, Packs!Private
  <2> DEFINE next == IF i = Len(Files) THEN 1 ELSE i + 1
             goes == IF i = Len(Files) THEN "write" ELSE "scan"
  <2>3. next \in 1..Len(Files) /\ goes \in InventoryPc
    BY <1>1 DEF InventoryPc
  <2>4. inventory' = [inventory EXCEPT !.blocked = found, !.at = next, !.pc = goes]
    BY <2>1
  <2> HIDE DEF found, next, goes
  <2>5. inventory' \in Inventory
    BY <1>1, <2>2, <2>3, <2>4 DEF Inventory
  <2>6. /\ inventory'.hashes = inventory.hashes /\ inventory'.blocked = found
        /\ inventory'.at = next /\ inventory'.pc = goes
    BY <1>1, <2>4 DEF Inventory
  <2> QED
    BY <2>5, <2>6 DEF next, goes
<1>3. \A g \in Artifact : Past(root, g, inventory.hashes[g])
  BY <1>1 DEF PackingInv, InventoryInv, InventoryOK
<1>4. Inspected(root, f, x, found)
  <2>1. CASE Stale(root, f, x)
    BY <2>1 DEF Inspected
  <2>2. CASE ~Stale(root, f, x)
    <3>1. Packs!Prefix(root[f], Len(x)) = x
      BY <1>1, <1>3, <2>2, PastIsThere DEF PackingInv
    <3> QED
      BY <3>1 DEF Inspected
  <2> QED
    BY <2>1, <2>2
<1>5. \A g \in Before(i + 1) : Inspected(root, g, inventory.hashes[g], found)
  <2>1. Before(i + 1) = Before(i) \cup {f}
    BY <1>1, FilesAre
  <2>2. \A g \in Before(i) : Inspected(root, g, inventory.hashes[g], inventory.blocked)
    BY <1>1 DEF PackingInv, InventoryInv, InventoryOK
  <2>3. inventory.blocked => found
    OBVIOUS
  <2> HIDE DEF found
  <2> QED
    BY <1>4, <2>1, <2>2, <2>3 DEF Inspected
<1> HIDE DEF found, f, x
<1>6. CASE i = Len(Files)
  <2>1. \A g \in Artifact : Inspected(root, g, inventory.hashes[g], found)
    BY <1>5, <1>6, FilesAre
  <2> QED
    BY <1>2, <1>3, <1>6, <2>1 DEF InventoryOK, Good
<1>7. CASE i # Len(Files)
  BY <1>2, <1>3, <1>5, <1>7 DEF InventoryOK
<1> QED
  BY <1>6, <1>7

LEMMA InventoryKeeps ==
    ASSUME PackingInv,
           Packs!BeginInventory \/ Packs!Hash \/ Packs!Scan \/ Packs!WriteManifest
    PROVE  PackingInv'
<1> USE DEF PackingInv
<1>1. UNCHANGED <<root, edits, creator, pack>>
  BY DEF Packs!BeginInventory, Packs!Hash, Packs!Scan, Packs!WriteManifest, Packs!source
<1>2. ASSUME InventoryOK(root, inventory'), inventory' \in Inventory,
             manifest' \in Manifest \cup {None}, manifest' # None => Good(root, manifest')
      PROVE  PackingInv'
  BY <1>1, <1>2 DEF RootInv, RootType, PackingType, PackType, InventoryInv, CreatorInv, PackInv
<1>3. manifest \in Manifest \cup {None} /\ (manifest # None => Good(root, manifest))
  BY DEF PackingType, InventoryInv
<1>4. CASE Packs!Hash
  BY <1>2, <1>3, <1>4, HashKeeps DEF Packs!Hash
<1>5. CASE Packs!Scan
  BY <1>2, <1>3, <1>5, ScanKeeps DEF Packs!Scan
<1>6. Packs!Nothing \in Contents
  BY DEF Packs!Nothing, Contents, Content, Artifact
<1>7. CASE Packs!BeginInventory
  <2>1. /\ inventory' = [pc |-> "hash", at |-> 1, hashes |-> Packs!Nothing, blocked |-> FALSE,
                         serial |-> inventory.serial + 1]
        /\ manifest' = manifest
    BY <1>7 DEF Packs!BeginInventory
  <2>2. inventory' \in Inventory /\ inventory'.pc = "hash" /\ inventory'.at = 1
    BY <1>6, <2>1, FilesAre DEF PackingType, Inventory, InventoryPc
  <2> QED
    BY <1>2, <1>3, <2>1, <2>2, FilesAre DEF InventoryOK
<1>8. CASE Packs!WriteManifest
  <2>1. /\ manifest' = [serial |-> inventory.serial, hashes |-> inventory.hashes,
                        blocked |-> inventory.blocked]
        /\ inventory' = [inventory EXCEPT !.pc = "idle", !.hashes = Packs!Nothing, !.blocked = FALSE]
        /\ inventory.pc = "write"
    BY <1>8 DEF Packs!WriteManifest
  <2>2. inventory' \in Inventory /\ inventory'.pc = "idle"
    BY <1>6, <2>1 DEF PackingType, Inventory, InventoryPc
  <2>3. manifest' \in Manifest
    BY <2>1 DEF PackingType, Inventory, Manifest
  <2>4. Good(root, manifest')
    BY <2>1 DEF InventoryInv, InventoryOK, Good
  <2> QED
    BY <1>2, <2>2, <2>3, <2>4 DEF InventoryOK
<1> QED
  BY <1>4, <1>5, <1>7, <1>8

-----------------------------------------------------------------------------
(* The creators: what is copied is compared with what was declared when the *)
(* pack is verified, so only a copy that is equal to it matters.            *)
LEMMA CreatorGoes ==
    ASSUME PackingInv, NEW c \in Creators, NEW k \in Creator, CreatorOK(root, k), Packs!Goes(c, k),
           UNCHANGED <<root, edits, manifest, inventory>>, PackType', PackInv'
    PROVE  PackingInv'
<1> USE DEF PackingInv
<1>1. creator' = [creator EXCEPT ![c] = k] /\ creator \in [Creators -> Creator]
  BY DEF Packs!Goes, PackingType
<1>2. creator' \in [Creators -> Creator]
  BY <1>1
<1>3. \A d \in Creators : creator'[d] = IF d = c THEN k ELSE creator[d]
  BY <1>1
<1>4. CreatorInv'
  BY <1>3 DEF CreatorInv
<1>5. RootInv' /\ InventoryInv'
  BY DEF RootInv, RootType, InventoryInv
<1>6. PackingType'
  BY <1>2 DEF PackingType
<1> QED
  BY <1>4, <1>5, <1>6

LEMMA CreatorTypes ==
    ASSUME PackingInv, NEW c \in Creators
    PROVE  /\ creator[c] \in Creator /\ CreatorOK(root, creator[c])
           /\ creator[c].at \in 1..Len(Files) /\ Files[creator[c].at] \in Artifact
           /\ Len(Files) \in Nat /\ manifest \in Manifest \cup {None}
BY FilesAre DEF PackingInv, PackingType, CreatorInv, Creator

LEMMA PackStays ==
    ASSUME PackingInv, UNCHANGED pack
    PROVE  PackType' /\ PackInv'
BY DEF PackingInv, PackType, PackInv

LEMMA BeginKeeps ==
    ASSUME PackingInv, NEW c \in Creators, Packs!Begin(c)
    PROVE  PackingInv'
<1> DEFINE goes == IF pack # None \/ manifest = None THEN "failed" ELSE "hash"
           k == [creator[c] EXCEPT !.pc = goes, !.read = manifest]
<1>1. /\ Packs!Goes(c, k)
      /\ UNCHANGED <<root, edits, manifest, inventory>> /\ UNCHANGED pack
  BY DEF Packs!Begin, Packs!source, None
<1>2. goes \in {"failed", "hash"} /\ (goes = "hash" => manifest # None)
  OBVIOUS
<1> HIDE DEF goes
<1>3. k \in Creator /\ k.pc = goes /\ k.read = manifest
  BY <1>2, CreatorTypes DEF Creator, CreatorPc
<1> HIDE DEF k
<1>4. CreatorOK(root, k)
  BY <1>2, <1>3 DEF CreatorOK, PackingInv, InventoryInv
<1> QED
  BY <1>1, <1>3, <1>4, PackStays, CreatorGoes

LEMMA CheckSourceKeeps ==
    ASSUME PackingInv, NEW c \in Creators, Packs!CheckSource(c)
    PROVE  PackingInv'
<1> DEFINE same == root[Files[creator[c].at]] = creator[c].read.hashes[Files[creator[c].at]]
           final == creator[c].at = Len(Files)
           goes == IF ~same THEN "failed" ELSE IF final THEN "manifest" ELSE creator[c].pc
           next == IF final THEN 1 ELSE creator[c].at + 1
           k == [creator[c] EXCEPT !.pc = goes, !.at = next]
<1>1. /\ Packs!Goes(c, k) /\ creator[c].pc = "hash"
      /\ UNCHANGED <<root, edits, manifest, inventory>> /\ UNCHANGED pack
  <2>1. Packs!Goes(c, k)
    BY CreatorTypes DEF Packs!CheckSource, Creator
  <2> QED
    BY <2>1 DEF Packs!CheckSource, Packs!source
<1>2. /\ goes \in {"failed", "hash", "manifest"} /\ next \in 1..Len(Files)
      /\ goes = "manifest" => next = 1
  BY <1>1, CreatorTypes
<1> HIDE DEF goes, next
<1>3. k \in Creator /\ k.pc = goes /\ k.at = next /\ k.read = creator[c].read
  BY <1>2, CreatorTypes DEF Creator, CreatorPc
<1> HIDE DEF k
<1>4. CreatorOK(root, k)
  BY <1>1, <1>2, <1>3, CreatorTypes DEF CreatorOK
<1> QED
  BY <1>1, <1>3, <1>4, PackStays, CreatorGoes

LEMMA CopyManifestKeeps ==
    ASSUME PackingInv, NEW c \in Creators, Packs!CopyManifest(c)
    PROVE  PackingInv'
<1> DEFINE tar == [declared |-> creator[c].read, embedded |-> manifest,
                   members |-> Packs!Nothing, encrypted |-> FALSE]
           copy == [creator[c] EXCEPT !.pc = "copy", !.tar = tar]
           failed == [creator[c] EXCEPT !.pc = "failed"]
<1>1. /\ creator[c].pc = "manifest" /\ UNCHANGED <<root, edits, manifest, inventory>>
      /\ UNCHANGED pack /\ (Packs!Goes(c, copy) \/ Packs!Goes(c, failed))
  BY DEF Packs!CopyManifest, Packs!source
<1>2. CASE Packs!Goes(c, failed)
  <2>1. failed \in Creator /\ failed.pc = "failed"
    BY CreatorTypes DEF Creator, CreatorPc
  <2> HIDE DEF failed
  <2>2. CreatorOK(root, failed)
    BY <2>1 DEF CreatorOK
  <2> QED
    BY <1>1, <1>2, <2>1, <2>2, PackStays, CreatorGoes
<1>3. CASE Packs!Goes(c, copy)
  <2>1. /\ creator[c].read # None /\ Good(root, creator[c].read) /\ creator[c].at = 1
        /\ creator[c].read \in Manifest
    BY <1>1, CreatorTypes DEF CreatorOK, Creator
  <2>2. Packs!Nothing \in Contents
    BY DEF Packs!Nothing, Contents, Content, Artifact
  <2>3. tar \in Tar /\ tar.declared = creator[c].read
    BY <2>1, <2>2, CreatorTypes DEF Tar
  <2>4. tar # None
    BY <2>3 DEF Tar, Manifest, None, Packs!None
  <2> HIDE DEF tar
  <2>5. /\ copy \in Creator /\ copy.pc = "copy" /\ copy.at = creator[c].at /\ copy.tar = tar
        /\ copy.read = creator[c].read
    BY <2>3, CreatorTypes DEF Creator, CreatorPc
  <2> HIDE DEF copy
  <2>6. CreatorOK(root, copy)
    BY <2>1, <2>3, <2>4, <2>5, FilesAre DEF CreatorOK
  <2> QED
    BY <1>1, <1>3, <2>5, <2>6, PackStays, CreatorGoes
<1> QED
  BY <1>1, <1>2, <1>3

LEMMA CopyIsDeclared ==
    ASSUME RootInv, NEW f \in Artifact, NEW x \in Content, NEW b \in BOOLEAN,
           Past(root, f, x), Inspected(root, f, x, b),
           Packs!Prefix(root[f], Len(x)) = x, Private(x)
    PROVE  b
BY StaleIsGone DEF Inspected

LEMMA CopyKeeps ==
    ASSUME PackingInv, NEW c \in Creators, Packs!Copy(c)
    PROVE  PackingInv'
<1> DEFINE i == creator[c].at
           f == Files[i]
           x == creator[c].read.hashes[f]
           members == [creator[c].tar.members EXCEPT ![f] = Packs!Prefix(root[f], Len(x))]
           tar == [creator[c].tar EXCEPT !.members = members]
           goes == IF i = Len(Files) THEN "publish" ELSE "copy"
           next == IF i = Len(Files) THEN 1 ELSE i + 1
           k == [creator[c] EXCEPT !.tar = tar, !.pc = goes, !.at = next]
<1>1. /\ i \in 1..Len(Files) /\ f \in Artifact /\ Len(Files) \in Nat /\ creator[c] \in Creator
      /\ creator[c].pc = "copy" /\ creator[c].read # None /\ Good(root, creator[c].read)
      /\ creator[c].tar # None /\ creator[c].tar.declared = creator[c].read
      /\ \A g \in Before(i) : Copied(creator[c].tar, g)
  BY CreatorTypes DEF CreatorOK, Packs!Copy
<1>2. creator[c].tar \in Tar /\ creator[c].read \in Manifest
  BY <1>1 DEF Creator
<1>3. Packs!Goes(c, k)
  <2>1. creator[c].tar.members \in Contents
    BY <1>2 DEF Tar
  <2> QED
    BY <1>1, <1>2, <2>1 DEF Packs!Copy, Creator, Tar
<1>4. UNCHANGED <<root, edits, manifest, inventory>> /\ UNCHANGED pack
  BY DEF Packs!Copy, Packs!source
<1>5. x \in Content /\ Past(root, f, x) /\ Inspected(root, f, x, creator[c].read.blocked)
  BY <1>1, <1>2 DEF Good, Manifest, Contents
<1>6. Packs!Prefix(root[f], Len(x)) \in Content
  <2>1. root \in Contents
    BY DEF PackingInv, RootInv, RootType
  <2>2. root[f] \in Content
    BY <1>1, <2>1 DEF Contents
  <2>3. Len(x) \in Nat
    BY <1>5 DEF Content
  <2> QED
    BY <2>2, <2>3, PrefixType
<1>7. /\ members \in Contents /\ members[f] = Packs!Prefix(root[f], Len(x))
      /\ \A g \in Artifact : g # f => members[g] = creator[c].tar.members[g]
  BY <1>1, <1>2, <1>6 DEF Tar, Contents
<1>8. goes \in CreatorPc /\ next \in 1..Len(Files) /\ goes \in {"copy", "publish"}
  BY <1>1 DEF CreatorPc
<1>9. next = IF i = Len(Files) THEN 1 ELSE i + 1
  OBVIOUS
<1>10. goes = IF i = Len(Files) THEN "publish" ELSE "copy"
  OBVIOUS
<1>11. Before(i + 1) = Before(i) \cup {f} /\ Before(i) \subseteq Artifact
  BY <1>1, FilesAre
<1>12. creator[c].read.hashes[f] = x
  OBVIOUS
<1> HIDE DEF members, x
<1>13. tar \in Tar /\ tar.members = members /\ tar.declared = creator[c].read
  BY <1>1, <1>2, <1>7 DEF Tar
<1>14. tar # None
  BY <1>13 DEF Tar, Manifest, None, Packs!None
<1> HIDE DEF tar, goes, next, f
<1>15. /\ k \in Creator /\ k.tar = tar /\ k.pc = goes /\ k.at = next /\ k.read = creator[c].read
  BY <1>1, <1>8, <1>13 DEF Creator
<1>16. Copied(tar, f)
  <2> SUFFICES ASSUME members[f] = x, Private(x) PROVE creator[c].read.blocked
    BY <1>12, <1>13 DEF Copied
  <2>1. creator[c].read.blocked \in BOOLEAN
    BY <1>2 DEF Manifest
  <2> QED
    BY <1>1, <1>5, <1>7, <2>1, CopyIsDeclared DEF PackingInv
<1>17. ASSUME NEW g \in Artifact, g # f, Copied(creator[c].tar, g) PROVE Copied(tar, g)
  BY <1>1, <1>7, <1>13, <1>17 DEF Copied
<1>18. \A g \in Before(i + 1) : Copied(tar, g)
  BY <1>1, <1>11, <1>16, <1>17
<1> HIDE DEF k
<1>19. CreatorOK(root, k)
  <2>1. CASE i = Len(Files)
    <3>1. Sound(tar)
      BY <1>18, <2>1, FilesAre DEF Sound
    <3> QED
      BY <1>1, <1>10, <1>13, <1>14, <1>15, <2>1, <3>1 DEF CreatorOK
  <2>2. CASE i # Len(Files)
    BY <1>1, <1>9, <1>10, <1>13, <1>14, <1>15, <1>18, <2>2 DEF CreatorOK
  <2> QED
    BY <2>1, <2>2
<1> QED
  BY <1>3, <1>4, <1>15, <1>19, PackStays, CreatorGoes

LEMMA PublishKeeps ==
    ASSUME PackingInv, NEW c \in Creators, Packs!Publish(c)
    PROVE  PackingInv'
<1>1. PICK end \in {"plain", "encrypted", "failed"} :
         /\ pack' = IF end = "failed" THEN pack
                    ELSE [creator[c].tar EXCEPT !.encrypted = (end = "encrypted")]
         /\ Packs!Goes(c, [creator[c] EXCEPT !.pc = IF end = "failed" THEN end ELSE "done",
                                             !.tar = None])
  BY DEF Packs!Publish, None
<1> DEFINE goes == IF end = "failed" THEN end ELSE "done"
           k == [creator[c] EXCEPT !.pc = goes, !.tar = None]
           encrypted == end = "encrypted"
<1>2. /\ creator[c].pc = "publish" /\ UNCHANGED <<root, edits, manifest, inventory>>
  BY DEF Packs!Publish, Packs!source
<1>3. creator[c].tar \in Tar /\ Sound(creator[c].tar)
  BY <1>2, CreatorTypes DEF CreatorOK, Creator
<1>4. encrypted \in BOOLEAN
  OBVIOUS
<1>5. pack' = pack \/ pack' = [creator[c].tar EXCEPT !.encrypted = encrypted]
  BY <1>1
<1>6. goes \in {"failed", "done"}
  BY <1>1
<1>7. Packs!Goes(c, k)
  BY <1>1
<1> HIDE DEF encrypted, goes
<1>8. k \in Creator /\ k.pc = goes
  BY <1>6, CreatorTypes DEF Creator, CreatorPc
<1> HIDE DEF k
<1>9. CreatorOK(root, k)
  BY <1>6, <1>8 DEF CreatorOK
<1>10. PackType' /\ PackInv'
  <2>1. CASE pack' = pack
    BY <2>1, PackStays
  <2>2. CASE pack' = [creator[c].tar EXCEPT !.encrypted = encrypted]
    <3>1. /\ pack' \in Tar /\ pack'.members = creator[c].tar.members
          /\ pack'.declared = creator[c].tar.declared
      BY <1>3, <1>4, <2>2 DEF Tar
    <3> QED
      BY <1>3, <3>1 DEF PackType, PackInv, Sound, Copied
  <2> QED
    BY <1>5, <2>1, <2>2
<1> QED
  BY <1>2, <1>7, <1>8, <1>9, <1>10, CreatorGoes

-----------------------------------------------------------------------------
(* The export.                                                             *)
LEMMA ExportStays ==
    ASSUME ExportInv, UNCHANGED <<exporter, output>>, pack # None => pack' # None
    PROVE  ExportInv'
BY DEF ExportInv, Packs!ExportIsCleared, None

(* A step that reads the pack: what it finds is of that pack if the export *)
(* has seen no other.                                                      *)
LEMMA ReaderGoes ==
    ASSUME ExportInv, PackType, PackInv, pack # None, UNCHANGED <<pack, output>>,
           NEW r, r \in Exporter(r.blocked), Packs!Exports(r), r.pc \in Reading,
           r.pc \in {"privacy", "again"} => r.at = 1,
           \A seen : (exporter.pc \in Reading => exporter.seen = {pack}) =>
                        Whole([r EXCEPT !.seen = seen], pack)
    PROVE  ExportInv'
<1> DEFINE seen == exporter.seen \cup {pack}
           e == [r EXCEPT !.seen = seen]
<1>1. exporter' = e
  BY DEF Packs!Exports
<1>2. pack \in Tar /\ exporter.seen \in SUBSET Tar /\ IsFiniteSet(exporter.seen)
  BY DEF PackType, ExportInv, ExporterOK, Exporter
<1>3. seen \in SUBSET Tar /\ seen # {} /\ pack \in seen
  BY <1>2
<1>4. IsFiniteSet(seen)
  BY <1>2, FS_AddElement
<1>5. ASSUME NEW p \in seen, seen = {p} PROVE Whole(e, p)
  <2>1. p = pack
    BY <1>3, <1>5
  <2>2. exporter.pc \in Reading => exporter.seen = {pack}
    BY <1>5, <2>1 DEF ExportInv, ExporterOK
  <2> QED
    BY <2>1, <2>2
<1> HIDE DEF seen
<1>6. /\ e \in Exporter(e.blocked) /\ e.seen = seen /\ e.pc = r.pc /\ e.at = r.at
  BY <1>3 DEF Exporter
<1> HIDE DEF e
<1>7. r.pc # "idle"
  BY DEF Reading
<1>8. ExporterOK(e)
  BY <1>3, <1>4, <1>5, <1>6, <1>7 DEF ExporterOK
<1> QED
  BY <1>1, <1>8 DEF ExportInv, Packs!ExportIsCleared, None

LEMMA ExportFails ==
    ASSUME ExportInv, UNCHANGED <<pack, output>>, Packs!Fails
    PROVE  ExportInv'
<1>1. exporter' = [exporter EXCEPT !.pc = "failed", !.staged = Packs!Nothing]
  BY DEF Packs!Fails
<1>2. Packs!Nothing \in Contents
  BY DEF Packs!Nothing, Contents, Content, Artifact
<1>3. /\ exporter' \in Exporter(exporter'.blocked) /\ exporter'.seen = exporter.seen
      /\ exporter'.pc = "failed"
  BY <1>1, <1>2 DEF ExportInv, ExporterOK, Exporter, ExporterPc
<1>4. ExporterOK(exporter')
  BY <1>3 DEF ExporterOK, ExportInv, Reading
<1> QED
  BY <1>3, <1>4 DEF ExportInv, Packs!ExportIsCleared, None, Reading

(* Where the export stands when it has read one pack.                      *)
LEMMA ReaderHas ==
    ASSUME ExportInv
    PROVE  /\ exporter \in Exporter(exporter.blocked) /\ exporter.at \in 1..Len(Files)
           /\ exporter.allow \in BOOLEAN /\ exporter.staged \in Contents
           /\ exporter.pc \in Reading => pack # None
           /\ exporter.pc \in Reading /\ exporter.seen = {pack} => Whole(exporter, pack)
BY DEF ExportInv, ExporterOK, Exporter

LEMMA BeginExportKeeps ==
    ASSUME ExportInv, PackType, PackInv, Packs!BeginExport
    PROVE  ExportInv'
<1>1. exporter.pc = "idle" /\ pack # None /\ UNCHANGED <<pack, output>>
  BY DEF Packs!BeginExport, None
<1>2. CASE Packs!Fails
  BY <1>1, <1>2, ExportFails
<1>3. ASSUME NEW allow \in BOOLEAN, Packs!ContentValid(pack),
             Packs!Exports([exporter EXCEPT !.pc = "privacy", !.allow = allow])
      PROVE  ExportInv'
  <2> DEFINE r == [exporter EXCEPT !.pc = "privacy", !.allow = allow]
  <2>1. r \in Exporter(r.blocked) /\ r.pc = "privacy" /\ r.at = exporter.at
    BY ReaderHas DEF Exporter, ExporterPc
  <2>2. r.at = 1
    BY <1>1, <2>1 DEF ExportInv, ExporterOK
  <2>3. ASSUME NEW seen PROVE [r EXCEPT !.seen = seen].pc = "privacy"
    BY ReaderHas DEF Exporter
  <2>4. Sound(pack)
    BY <1>1 DEF PackInv
  <2>5. ASSUME NEW seen PROVE Whole([r EXCEPT !.seen = seen], pack)
    BY <1>3, <2>3, <2>4 DEF Whole
  <2>7. Packs!Exports(r)
    BY <1>3
  <2> HIDE DEF r
  <2> QED
    BY <1>1, <2>1, <2>2, <2>5, <2>7, ReaderGoes DEF Reading
<1>4. \E allow \in BOOLEAN :
         IF Packs!ContentValid(pack)
           THEN Packs!Exports([exporter EXCEPT !.pc = "privacy", !.allow = allow])
           ELSE Packs!Fails
  BY Zenon DEF Packs!BeginExport
<1> QED
  <2>1. CASE Packs!ContentValid(pack)
    BY <1>3, <1>4, <2>1, Zenon
  <2>2. CASE ~Packs!ContentValid(pack)
    BY <1>2, <1>4, <2>2, Zenon
  <2> QED
    BY <2>1, <2>2

LEMMA AskPrivacyKeeps ==
    ASSUME ExportInv, PackType, PackInv, Packs!AskPrivacy
    PROVE  ExportInv'
<1>1. exporter.pc = "privacy" /\ UNCHANGED <<pack, output>>
  BY DEF Packs!AskPrivacy
<1>2. CASE Packs!Fails
  BY <1>1, <1>2, ExportFails
<1>3. ASSUME pack.embedded.blocked => exporter.allow,
             Packs!Exports([exporter EXCEPT !.pc = "again", !.blocked = pack.embedded.blocked])
      PROVE  ExportInv'
  <2> DEFINE r == [exporter EXCEPT !.pc = "again", !.blocked = pack.embedded.blocked]
  <2>1. r \in Exporter(r.blocked) /\ r.pc = "again" /\ r.at = exporter.at
    BY ReaderHas DEF Exporter, ExporterPc
  <2>2. r.at = 1
    BY <1>1, <2>1 DEF ExportInv, ExporterOK
  <2>3. ASSUME NEW seen
        PROVE  /\ [r EXCEPT !.seen = seen].pc = "again"
               /\ [r EXCEPT !.seen = seen].blocked = pack.embedded.blocked
               /\ [r EXCEPT !.seen = seen].allow = exporter.allow
    BY ReaderHas DEF Exporter
  <2>4. ASSUME NEW seen, exporter.seen = {pack} PROVE Whole([r EXCEPT !.seen = seen], pack)
    <3>1. Sound(pack) /\ Packs!ContentValid(pack)
      BY <1>1, <2>4, ReaderHas DEF Whole, Reading
    <3> QED
      BY <1>3, <2>3, <3>1 DEF Whole
  <2>5. pack # None
    BY <1>1, ReaderHas DEF Reading
  <2>7. Packs!Exports(r)
    BY <1>3
  <2> HIDE DEF r
  <2> QED
    BY <1>1, <2>1, <2>2, <2>4, <2>5, <2>7, ReaderGoes DEF Reading
<1> QED
  BY <1>2, <1>3 DEF Packs!AskPrivacy

LEMMA VerifyAgainKeeps ==
    ASSUME ExportInv, PackType, PackInv, Packs!VerifyAgain
    PROVE  ExportInv'
<1>1. exporter.pc = "again" /\ UNCHANGED <<pack, output>>
  BY DEF Packs!VerifyAgain
<1>2. CASE Packs!Fails
  BY <1>1, <1>2, ExportFails
<1>3. ASSUME Packs!Exports([exporter EXCEPT !.pc = "extract", !.declared = pack.declared.hashes])
      PROVE  ExportInv'
  <2> DEFINE hashes == pack.declared.hashes
             r == [exporter EXCEPT !.pc = "extract", !.declared = hashes]
  <2>1. pack # None
    BY <1>1, ReaderHas DEF Reading
  <2>2. hashes \in Contents
    BY <2>1 DEF PackType, Tar, Manifest
  <2> HIDE DEF hashes
  <2>3. r \in Exporter(r.blocked) /\ r.pc = "extract" /\ r.at = exporter.at
    BY <2>2, ReaderHas DEF Exporter, ExporterPc
  <2>4. exporter.at = 1
    BY <1>1 DEF ExportInv, ExporterOK
  <2>5. ASSUME NEW seen
        PROVE  /\ [r EXCEPT !.seen = seen].pc = "extract"
               /\ [r EXCEPT !.seen = seen].declared = hashes
               /\ [r EXCEPT !.seen = seen].at = 1
               /\ [r EXCEPT !.seen = seen].blocked = exporter.blocked
               /\ [r EXCEPT !.seen = seen].allow = exporter.allow
    BY <2>4, ReaderHas DEF Exporter
  <2>6. ASSUME NEW seen, exporter.seen = {pack} PROVE Whole([r EXCEPT !.seen = seen], pack)
    <3>1. Whole(exporter, pack)
      BY <1>1, <2>6, ReaderHas DEF Reading
    <3> QED
      BY <1>1, <2>5, <3>1, FilesAre DEF Whole, hashes
  <2>7. Packs!Exports(r)
    BY <1>3 DEF hashes
  <2> HIDE DEF r
  <2> QED
    BY <1>1, <2>1, <2>3, <2>6, <2>7, ReaderGoes DEF Reading
<1> QED
  BY <1>2, <1>3 DEF Packs!VerifyAgain

LEMMA ExtractKeeps ==
    ASSUME ExportInv, PackType, PackInv, Packs!Extract
    PROVE  ExportInv'
<1> DEFINE i == exporter.at
           f == Files[i]
           staged == [exporter.staged EXCEPT ![f] = pack.members[f]]
           next == IF i = Len(Files) THEN 1 ELSE i + 1
           goes == IF i = Len(Files) THEN "replace" ELSE "extract"
           r == [exporter EXCEPT !.staged = staged, !.at = next, !.pc = goes]
<1>1. /\ exporter.pc = "extract" /\ UNCHANGED <<pack, output>>
      /\ i \in 1..Len(Files) /\ Len(Files) \in Nat /\ f \in Artifact /\ pack # None
      /\ exporter \in Exporter(exporter.blocked) /\ exporter.staged \in Contents
  BY ReaderHas, FilesAre DEF Packs!Extract, Reading
<1>2. CASE Packs!Fails
  BY <1>1, <1>2, ExportFails
<1>3. CASE Packs!Exports(r)
  <2>1. pack.members \in Contents
    BY <1>1 DEF PackType, Tar
  <2>2. /\ staged \in Contents /\ staged[f] = pack.members[f]
        /\ \A g \in Artifact : g # f => staged[g] = exporter.staged[g]
    BY <1>1, <2>1 DEF Contents
  <2>3. next \in 1..Len(Files) /\ goes \in ExporterPc /\ goes \in {"extract", "replace"}
    BY <1>1 DEF ExporterPc
  <2>4. /\ next = IF i = Len(Files) THEN 1 ELSE i + 1
        /\ goes = IF i = Len(Files) THEN "replace" ELSE "extract"
    OBVIOUS
  <2>5. Before(i + 1) = Before(i) \cup {f} /\ Before(i) \subseteq Artifact
    BY <1>1, FilesAre
  <2> HIDE DEF staged, next, goes, f
  <2>6. r \in Exporter(r.blocked) /\ r.pc = goes
    BY <1>1, <2>2, <2>3 DEF Exporter
  <2>7. ASSUME NEW seen
        PROVE  /\ [r EXCEPT !.seen = seen].pc = goes
               /\ [r EXCEPT !.seen = seen].at = next
               /\ [r EXCEPT !.seen = seen].staged = staged
               /\ [r EXCEPT !.seen = seen].declared = exporter.declared
               /\ [r EXCEPT !.seen = seen].blocked = exporter.blocked
               /\ [r EXCEPT !.seen = seen].allow = exporter.allow
    BY <1>1 DEF Exporter
  <2>8. ASSUME NEW seen, exporter.seen = {pack} PROVE Whole([r EXCEPT !.seen = seen], pack)
    <3>1. Whole(exporter, pack)
      BY <1>1, <2>8, ReaderHas DEF Reading
    <3>2. \A g \in Before(i) : exporter.staged[g] = pack.members[g]
      BY <1>1, <3>1 DEF Whole
    <3>3. \A g \in Before(i + 1) : staged[g] = pack.members[g]
      BY <2>2, <2>5, <3>2
    <3>4. i = Len(Files) => \A g \in Artifact : staged[g] = pack.members[g]
      BY <3>3, FilesAre
    <3>5. goes = "extract" => \A g \in Before(next) : staged[g] = pack.members[g]
      BY <2>4, <3>3
    <3>6. goes = "replace" => \A g \in Artifact : staged[g] = pack.members[g]
      BY <2>4, <3>4
    <3>7. /\ Sound(pack) /\ Packs!ContentValid(pack)
          /\ exporter.blocked = pack.embedded.blocked /\ (exporter.blocked => exporter.allow)
          /\ exporter.declared = pack.declared.hashes
      BY <1>1, <3>1 DEF Whole
    <3> HIDE DEF r
    <3> QED
      BY <2>7, <3>5, <3>6, <3>7 DEF Whole
  <2> HIDE DEF r
  <2> QED
    BY <1>1, <1>3, <2>3, <2>6, <2>8, ReaderGoes DEF Reading
<1>4. Packs!Fails \/ Packs!Exports(r)
  <2>1. [exporter EXCEPT !.staged[f] = pack.members[f],
                         !.at = IF i = Len(Files) THEN 1 ELSE @ + 1,
                         !.pc = IF i = Len(Files) THEN "replace" ELSE @] = r
    BY <1>1 DEF Exporter
  <2>2. \/ Packs!Fails
        \/ Packs!Exports([exporter EXCEPT !.staged[f] = pack.members[f],
                            !.at = IF i = Len(Files) THEN 1 ELSE @ + 1,
                            !.pc = IF i = Len(Files) THEN "replace" ELSE @])
    BY Zenon DEF Packs!Extract
  <2> HIDE DEF r
  <2> QED
    BY <2>1, <2>2
<1> QED
  BY <1>2, <1>3, <1>4

(* The cardinality of the instance is that of the standard module.         *)
LEMMA SameCardinality ==
    ASSUME NEW S
    PROVE  Packs!Cardinality(S) = Cardinality(S)
BY Zenon DEF Cardinality, Packs!Cardinality, IsFiniteSet, Packs!IsFiniteSet

(* What is put in place is what was staged of every file.                  *)
LEMMA ReplaceKeeps ==
    ASSUME ExportInv, PackType, PackInv, Packs!Replace
    PROVE  ExportInv'
<1>1. /\ exporter.pc = "replace" /\ pack' = pack
      /\ output' = [blocked |-> exporter.blocked, allow |-> exporter.allow,
                    declared |-> exporter.declared, files |-> exporter.staged,
                    seen |-> exporter.seen]
      /\ exporter' = [exporter EXCEPT !.pc = "done", !.staged = Packs!Nothing]
  BY DEF Packs!Replace
<1>2. Packs!Nothing \in Contents
  BY DEF Packs!Nothing, Contents, Content, Artifact
<1>3. /\ exporter' \in Exporter(exporter'.blocked) /\ exporter'.seen = exporter.seen
      /\ exporter'.pc = "done"
  BY <1>1, <1>2, ReaderHas DEF Exporter, ExporterPc
<1>4. ExporterOK(exporter')
  BY <1>3 DEF ExporterOK, ExportInv, Reading
<1>5. ASSUME Cardinality(exporter.seen) = 1
      PROVE  /\ exporter.staged = exporter.declared
             /\ (\E f \in Artifact : Private(exporter.staged[f])) =>
                   exporter.blocked /\ exporter.allow
  <2>1. PICK p : exporter.seen = {p}
    BY <1>5, FS_Singleton DEF ExportInv, ExporterOK
  <2>2. Whole(exporter, p) /\ p \in Tar
    BY <1>1, <2>1 DEF ExportInv, ExporterOK, Exporter, Reading
  <2>3. /\ exporter.declared = p.declared.hashes /\ exporter.blocked = p.embedded.blocked
        /\ \A f \in Artifact : exporter.staged[f] = p.members[f]
        /\ exporter.blocked => exporter.allow
        /\ Sound(p) /\ Packs!ContentValid(p)
    BY <1>1, <2>2 DEF Whole
  <2>4. p.declared = p.embedded /\ \A f \in Artifact : p.members[f] = p.declared.hashes[f]
    BY <2>3 DEF Packs!ContentValid, Artifact
  <2>5. exporter.staged \in Contents /\ p.declared.hashes \in Contents
    BY <2>2, ReaderHas DEF Tar, Manifest
  <2>6. exporter.staged = exporter.declared
    BY <2>3, <2>4, <2>5 DEF Contents
  <2>7. ASSUME NEW f \in Artifact, Private(exporter.staged[f]) PROVE exporter.blocked
    BY <2>3, <2>4, <2>7 DEF Sound, Copied
  <2> QED
    BY <2>3, <2>6, <2>7
<1>6. Packs!ExportIsCleared'
  <2>1. /\ output'.seen = exporter.seen /\ output'.files = exporter.staged
        /\ output'.declared = exporter.declared /\ output'.blocked = exporter.blocked
        /\ output'.allow = exporter.allow
    BY <1>1
  <2>2. Cardinality(output'.seen) = 1 =>
           /\ output'.files = output'.declared
           /\ (\E f \in Packs!Artifact : Packs!Private(output'.files[f])) =>
                 output'.blocked /\ output'.allow
    BY <1>5, <2>1 DEF Private, Artifact
  <2> QED
    BY <2>2, SameCardinality DEF Packs!ExportIsCleared
<1> QED
  BY <1>3, <1>4, <1>6 DEF ExportInv, Reading

-----------------------------------------------------------------------------
(* The evidence packs as a whole.                                          *)
LEMMA PackingStays ==
    ASSUME PackingInv, UNCHANGED <<root, edits, manifest, inventory, creator, pack>>
    PROVE  PackingInv'
BY DEF PackingInv, RootInv, RootType, PackingType, PackType, InventoryInv, CreatorInv, PackInv

LEMMA PublishPacks ==
    ASSUME PackingInv, NEW c \in Creators, Packs!Publish(c), pack # None
    PROVE  pack' # None
<1>1. creator[c].tar \in Tar
  BY CreatorTypes DEF CreatorOK, Creator, Packs!Publish
<1>2. PICK end : pack' = IF end = "failed" THEN pack
                         ELSE [creator[c].tar EXCEPT !.encrypted = (end = "encrypted")]
  BY DEF Packs!Publish
<1>3. ASSUME NEW b PROVE [creator[c].tar EXCEPT !.encrypted = b] # None
  BY <1>1 DEF Tar, None, Packs!None
<1> QED
  BY <1>2, <1>3

LEMMA CreateKeeps ==
    ASSUME PackingInv, NEW c \in Creators, Packs!Create(c)
    PROVE  /\ PackingInv' /\ UNCHANGED <<exporter, output>>
           /\ pack # None => pack' # None
<1>1. CASE Packs!Begin(c)
  <2>1. UNCHANGED pack /\ UNCHANGED <<exporter, output>>
    BY <1>1 DEF Packs!Begin, Packs!exporting
  <2> QED
    BY <1>1, <2>1, BeginKeeps
<1>2. CASE Packs!CheckSource(c)
  <2>1. UNCHANGED pack /\ UNCHANGED <<exporter, output>>
    BY <1>2 DEF Packs!CheckSource, Packs!exporting
  <2> QED
    BY <1>2, <2>1, CheckSourceKeeps
<1>3. CASE Packs!CopyManifest(c)
  <2>1. UNCHANGED pack /\ UNCHANGED <<exporter, output>>
    BY <1>3 DEF Packs!CopyManifest, Packs!exporting
  <2> QED
    BY <1>3, <2>1, CopyManifestKeeps
<1>4. CASE Packs!Copy(c)
  <2>1. UNCHANGED pack /\ UNCHANGED <<exporter, output>>
    BY <1>4 DEF Packs!Copy, Packs!exporting
  <2> QED
    BY <1>4, <2>1, CopyKeeps
<1>5. CASE Packs!Publish(c)
  <2>1. UNCHANGED <<exporter, output>>
    BY <1>5 DEF Packs!Publish, Packs!exporting
  <2> QED
    BY <1>5, <2>1, PublishKeeps, PublishPacks
<1> QED
  BY <1>1, <1>2, <1>3, <1>4, <1>5 DEF Packs!Create

LEMMA ExportKeeps ==
    ASSUME PackingInv, ExportInv, Packs!Export
    PROVE  PackingInv' /\ ExportInv'
<1>1. PackType /\ PackInv
  BY DEF PackingInv
<1>2. ExportInv'
  BY <1>1, BeginExportKeeps, AskPrivacyKeeps, VerifyAgainKeeps, ExtractKeeps, ReplaceKeeps
     DEF Packs!Export
<1>3. UNCHANGED <<root, edits, manifest, inventory, creator, pack>>
  <2>1. UNCHANGED <<Packs!source, Packs!packing, pack>>
    BY Zenon DEF Packs!Export, Packs!BeginExport, Packs!AskPrivacy, Packs!VerifyAgain,
                 Packs!Extract, Packs!Replace
  <2> QED
    BY <2>1 DEF Packs!source, Packs!packing
<1> QED
  BY <1>2, <1>3, PackingStays

LEMMA PacksKeep ==
    ASSUME PackingInv, ExportInv, Packs!Next
    PROVE  PackingInv' /\ ExportInv'
<1>1. ASSUME NEW f \in Artifact, Packs!Edit(f) PROVE PackingInv' /\ ExportInv'
  <2>1. UNCHANGED <<exporter, output>> /\ UNCHANGED pack
    BY <1>1 DEF Packs!Edit, Packs!exporting
  <2> QED
    BY <1>1, <2>1, EditKeeps, ExportStays
<1>2. CASE Packs!BeginInventory \/ Packs!Hash \/ Packs!Scan \/ Packs!WriteManifest
  <2>1. UNCHANGED <<exporter, output>> /\ UNCHANGED pack
    BY <1>2 DEF Packs!BeginInventory, Packs!Hash, Packs!Scan, Packs!WriteManifest,
                Packs!exporting
  <2> QED
    BY <1>2, <2>1, InventoryKeeps, ExportStays
<1>3. ASSUME NEW c \in Creators, Packs!Create(c) PROVE PackingInv' /\ ExportInv'
  BY <1>3, CreateKeeps, ExportStays
<1>4. CASE Packs!Sign \/ Packs!CheckSignature \/ Packs!Verify
  <2>1. /\ UNCHANGED <<exporter, output>>
        /\ UNCHANGED <<root, edits, manifest, inventory, creator, pack>>
    BY <1>4 DEF Packs!Sign, Packs!CheckSignature, Packs!Verify, Packs!source, Packs!packing,
                Packs!exporting
  <2> QED
    BY <2>1, PackingStays, ExportStays
<1>5. CASE Packs!Export
  BY <1>5, ExportKeeps
<1> QED
  BY <1>1, <1>2, <1>3, <1>4, <1>5 DEF Packs!Next, Artifact

LEMMA PacksInit ==
    ASSUME Packs!Init
    PROVE  PackingInv /\ ExportInv
<1>1. /\ root \in [Artifact -> {<<[n |-> 0, private |-> p]>> : p \in BOOLEAN}] /\ edits = 0
      /\ manifest = None /\ pack = None /\ output = None
      /\ inventory = [pc |-> "idle", at |-> 1, hashes |-> Packs!Nothing, blocked |-> FALSE,
                      serial |-> 0]
      /\ creator = [c \in Creators |-> [pc |-> "start", at |-> 1, read |-> None, tar |-> None]]
      /\ exporter = [pc |-> "idle", at |-> 1, allow |-> FALSE, blocked |-> FALSE,
                     declared |-> Packs!Nothing, seen |-> {}, staged |-> Packs!Nothing]
  BY DEF Packs!Init, Artifact, None
<1>2. Packs!Nothing \in Contents
  BY DEF Packs!Nothing, Contents, Content, Artifact
<1>3. ASSUME NEW f \in Artifact
      PROVE  /\ root[f] \in Content /\ Len(root[f]) = 1
             /\ \A i \in 1..Len(root[f]) : root[f][i].n <= edits
  <2>1. PICK p \in BOOLEAN : root[f] = <<[n |-> 0, private |-> p]>>
    BY <1>1
  <2>2. [n |-> 0, private |-> p] \in Chunk
    BY DEF Chunk
  <2> QED
    BY <1>1, <2>1, <2>2 DEF Content
<1>4. RootInv
  <2> DEFINE First == {<<[n |-> 0, private |-> p]>> : p \in BOOLEAN}
  <2>1. root \in [Artifact -> First]
    BY <1>1
  <2> HIDE DEF First
  <2>2. root \in [Artifact -> Content]
    BY <1>3, <2>1
  <2>3. edits \in Nat
    BY <1>1
  <2>4. RootType
    BY <2>2, <2>3 DEF RootType, Contents
  <2>5. \A f \in Artifact : Len(root[f]) > 0
    BY <1>3
  <2> QED
    BY <1>3, <2>4, <2>5 DEF RootInv
<1>5. PackingType /\ PackType /\ InventoryInv /\ PackInv
  <2>1. 1 \in 1..Len(Files)
    BY FilesAre
  <2>2. inventory \in Inventory /\ inventory.pc = "idle"
    BY <1>1, <1>2, <2>1 DEF Inventory, InventoryPc
  <2>3. creator \in [Creators -> Creator]
    BY <1>1, <2>1 DEF Creator, CreatorPc
  <2> QED
    BY <1>1, <2>2, <2>3 DEF PackingType, PackType, InventoryInv, InventoryOK, PackInv
<1>6. CreatorInv
  BY <1>1 DEF CreatorInv, CreatorOK
<1>7. ExporterOK(exporter)
  BY <1>1, <1>2, FilesAre, FS_EmptySet DEF ExporterOK, Exporter, ExporterPc, Reading
<1> QED
  BY <1>1, <1>4, <1>5, <1>6, <1>7
     DEF PackingInv, ExportInv, Packs!ExportIsCleared, Reading, None

LEMMA PackIsInventory ==
    ASSUME PackingInv
    PROVE  Packs!VerifiedPackIsInventory
<1> SUFFICES ASSUME pack # None, Packs!ContentValid(pack)
             PROVE  /\ pack.members = pack.embedded.hashes
                    /\ ~pack.embedded.blocked => \A f \in Artifact : ~Private(pack.members[f])
  BY DEF Packs!VerifiedPackIsInventory, None, Artifact, Private
<1>1. pack \in Tar /\ Sound(pack)
  BY DEF PackingInv, PackType, PackInv
<1>2. /\ pack.embedded = pack.declared
      /\ \A f \in Artifact : pack.members[f] = pack.declared.hashes[f]
  BY DEF Packs!ContentValid, Artifact
<1>3. pack.members \in Contents /\ pack.declared.hashes \in Contents
  BY <1>1 DEF Tar, Manifest
<1>4. pack.members = pack.embedded.hashes
  BY <1>2, <1>3 DEF Contents
<1> QED
  BY <1>1, <1>2, <1>4 DEF Sound, Copied

(* For every run directory, every mix of files that only grow and files    *)
(* that are rewritten, and every number of creators and inventories (see   *)
(* EvidenceIsWhole of MCBench): a pack that verifies is what one inventory *)
(* hashed, and what an export made visible was in the pack it read and is  *)
(* private only if that was acknowledged.                                  *)
THEOREM EvidenceStaysWhole == Spec => []EvidenceIsWhole
<1>1. Init => PackingInv /\ ExportInv
  BY PacksInit DEF Init
<1>2. PackingInv /\ ExportInv /\ [Next]_vars => PackingInv' /\ ExportInv'
  <2> SUFFICES ASSUME PackingInv, ExportInv, [Next]_vars PROVE PackingInv' /\ ExportInv'
    OBVIOUS
  <2>1. CASE UNCHANGED packs
    <3>1. /\ UNCHANGED <<exporter, output>>
          /\ UNCHANGED <<root, edits, manifest, inventory, creator, pack>>
      BY <2>1 DEF packs
    <3> QED
      BY <3>1, PackingStays, ExportStays
  <2>2. CASE Packs!Next
    BY <2>2, PacksKeep
  <2>3. UNCHANGED packs \/ Packs!Next
    BY DEF Next, ConsoleRuns, TortureWorks, TortureRuns, MinimiserRuns, PacksRun, OutputsRun, ChaosRuns, vars
  <2> QED
    BY <2>1, <2>2, <2>3
<1>3. PackingInv /\ ExportInv => EvidenceIsWhole
  BY PackIsInventory DEF ExportInv, EvidenceIsWhole
<1> QED
  BY <1>1, <1>2, <1>3, PTL DEF Spec

-----------------------------------------------------------------------------
(* Mission control: the events.  No event is lost between the queue, the   *)
(* count of drops and the view; as long as nothing was dropped, late or    *)
(* malformed, the queue is the end of what was ingested and the phase that *)
(* is shown is the last one of the events before it.                       *)

Kinds == DOMAIN Console!KindToPhase
Text == STRING \cup {"ui-decoder", "ui-buffer", "ui.schema-error", "ui.dropped", "none"}
Happening == [source : Text, sequence : Nat, kind : Text, count : Nat, metric : Text]
Given == {e \in Happening : e.count = 0 /\ e.source # "ui-buffer" /\ e.kind # "ui.dropped"}
View(final) == [phase : Console!Phases, last : {final}, processed : Nat, dropped : Nat,
               late : Nat, errors : Nat]

Marked(final, e) ==
    [s \in DOMAIN final \cup {e.source} |-> IF s = e.source THEN e.sequence ELSE final[s]]
LastPhase(es, n, now) ==
    \/ /\ now = "planning"
       /\ \A j \in 1..n : es[j].kind \notin Kinds
    \/ \E i \in 1..n :
          /\ es[i].kind \in Kinds /\ now = Console!KindToPhase[es[i].kind]
          /\ \A j \in 1..n : es[j].kind \in Kinds => j <= i
Unexplained ==
    view.dropped + view.late + view.errors = 0 /\ pending = 0 /\ producer = "idle"
PhaseInv ==
    Unexplained =>
       /\ Len(queue) <= Len(ingested)
       /\ \A i \in 1..Len(queue) : queue[i] = ingested[Len(ingested) - Len(queue) + i]
       /\ LastPhase(ingested, Len(ingested) - Len(queue), view.phase)

BufferType ==
    /\ queue \in Seq(Given) /\ ingested \in Seq(Given) /\ Len(queue) <= Capacity
    /\ pending \in Nat /\ bufferSeq \in Nat /\ appSeq \in Nat
    /\ producer \in {"idle", "full"} /\ ui \in {"idle", "check", "take"}
    /\ view \in View(view.last)
DiagnosticInv ==
    "ui-buffer" \in DOMAIN view.last =>
       view.last["ui-buffer"] \in Nat /\ view.last["ui-buffer"] <= bufferSeq
BufferInv == BufferType /\ DiagnosticInv /\ Console!EveryEventAccounted /\ PhaseInv

LEMMA KindsAre ==
    /\ "ui.dropped" \notin Kinds /\ "ui.schema-error" \notin Kinds
    /\ \A k \in Kinds : Console!KindToPhase[k] \in Console!Phases
<1>1. Kinds = {"plan.started", "plan.ready", "run.started", "run.warning", "stop.requested",
               "recovery.started", "run.completed", "assertions.passed", "run.failed",
               "assertions.failed"}
  BY DEF Kinds, Console!KindToPhase
<1>2. \A k \in Kinds : Console!KindToPhase[k] \in Console!Phases
  BY DEF Kinds, Console!KindToPhase, Console!Phases
<1> QED
  BY <1>1, <1>2

LEMMA LastPhaseNext ==
    ASSUME NEW es, NEW n \in Nat, NEW now, LastPhase(es, n, now)
    PROVE  LastPhase(es, n + 1, IF es[n + 1].kind \in Kinds
                                  THEN Console!KindToPhase[es[n + 1].kind] ELSE now)
<1>1. 1..n + 1 = 1..n \cup {n + 1}
  OBVIOUS
<1>2. \A j \in 1..n : j <= n + 1
  OBVIOUS
<1>3. CASE es[n + 1].kind \in Kinds
  <2>1. \A j \in 1..n + 1 : j <= n + 1
    OBVIOUS
  <2> QED
    BY <1>1, <1>3, <2>1 DEF LastPhase
<1>4. CASE es[n + 1].kind \notin Kinds
  BY <1>1, <1>4 DEF LastPhase
<1> QED
  BY <1>3, <1>4

LEMMA LastPhaseExtends ==
    ASSUME NEW es \in Seq(Given), NEW e \in Given, NEW n \in Nat, n <= Len(es), NEW now,
           LastPhase(es, n, now)
    PROVE  LastPhase(Append(es, e), n, now)
<1>1. \A j \in 1..n : Append(es, e)[j] = es[j]
  OBVIOUS
<1> QED
  BY <1>1 DEF LastPhase

(* The reducer.                                                            *)
LEMMA ReducerDoes ==
    ASSUME NEW v, v \in View(v.last), NEW e \in Happening
    PROVE  LET w == Console!ReduceEvent(v, e)
           IN /\ w \in View(w.last)
              /\ Console!Late(v, e) =>
                    /\ w.last = v.last /\ w.phase = v.phase /\ w.processed = v.processed
                    /\ w.dropped = v.dropped /\ w.late = v.late + 1 /\ w.errors = v.errors
              /\ ~Console!Late(v, e) =>
                    /\ w.last = Marked(v.last, e)
                    /\ w.processed = v.processed + 1 /\ w.dropped = v.dropped + e.count
                    /\ w.late = v.late
                    /\ w.errors = v.errors + IF e.kind = "ui.schema-error" THEN 1 ELSE 0
                    /\ e.kind \notin {"ui.dropped", "ui.schema-error"} =>
                          w.phase = IF e.kind \in Kinds THEN Console!KindToPhase[e.kind]
                                                        ELSE v.phase
<1> DEFINE w == Console!ReduceEvent(v, e)
<1>1. CASE Console!Late(v, e)
  <2>1. w = [v EXCEPT !.late = v.late + 1]
    BY <1>1 DEF Console!ReduceEvent, View
  <2> HIDE DEF w
  <2> QED
    BY <1>1, <2>1 DEF View, w
<1>2. CASE ~Console!Late(v, e)
  <2> DEFINE now == IF e.kind \in {"ui.dropped", "ui.schema-error"} THEN "warning"
                    ELSE IF e.kind \in Kinds THEN Console!KindToPhase[e.kind] ELSE v.phase
             final == Marked(v.last, e)
             errors == IF e.kind = "ui.schema-error" THEN v.errors + 1 ELSE v.errors
  <2>1. w = [phase |-> now, last |-> final, processed |-> v.processed + 1,
             dropped |-> v.dropped + e.count, late |-> v.late, errors |-> errors]
    BY <1>2 DEF Console!ReduceEvent, Kinds, Marked
  <2>2. now \in Console!Phases
    BY KindsAre DEF View, Console!Phases
  <2>3. errors \in Nat /\ errors = v.errors + IF e.kind = "ui.schema-error" THEN 1 ELSE 0
    BY DEF View
  <2>4. v.processed + 1 \in Nat /\ v.dropped + e.count \in Nat /\ v.late \in Nat
    BY DEF View, Happening
  <2>5. e.kind \notin {"ui.dropped", "ui.schema-error"} =>
           now = IF e.kind \in Kinds THEN Console!KindToPhase[e.kind] ELSE v.phase
    OBVIOUS
  <2> HIDE DEF w, now, final, errors
  <2>6. w \in View(w.last)
    BY <2>1, <2>2, <2>3, <2>4 DEF View
  <2>7. /\ w.last = final /\ w.processed = v.processed + 1 /\ w.dropped = v.dropped + e.count
        /\ w.late = v.late /\ w.errors = errors /\ w.phase = now
    BY <2>1
  <2> QED
    BY <1>2, <2>3, <2>5, <2>6, <2>7 DEF w, final
<1> QED
  BY <1>1, <1>2

LEMMA BufferStays ==
    ASSUME BufferInv, UNCHANGED <<queue, pending, bufferSeq, producer, view, ingested>>,
           appSeq' \in Nat, ui' \in {"idle", "check", "take"}
    PROVE  BufferInv'
BY DEF BufferInv, BufferType, DiagnosticInv, PhaseInv, Unexplained, Console!EveryEventAccounted

LEMMA IngestKeeps ==
    ASSUME BufferInv, NEW r \in Record, Console!Ingest(r)
    PROVE  BufferInv'
<1> DEFINE e == Console!Adapted(r)
<1>1. /\ producer = "idle" /\ UNCHANGED <<pending, bufferSeq, ui, view>>
      /\ appSeq' \in Nat
  BY DEF Console!Ingest, Console!screen, BufferInv, BufferType
<1>2. e = Console!NoEvent \/ e \in Given
  <2>1. r \in [source : STRING, sequence : Nat, kind : STRING, metric : STRING]
        /\ r.source # "ui-buffer" /\ r.kind \notin {"ui.dropped", "ui.schema-error"}
    BY ConsoleAssumption
  <2>2. appSeq + 1 \in Nat
    BY DEF BufferInv, BufferType
  <2>3. CASE r.kind = "step.output"
    BY <2>3 DEF Console!Adapted
  <2>4. CASE r.kind = "malformed"
    <3>1. e = Console!Event("ui-decoder", appSeq + 1, "ui.schema-error", 0, "none")
      BY <2>4 DEF Console!Adapted
    <3>2. Console!Event("ui-decoder", appSeq + 1, "ui.schema-error", 0, "none") \in Given
      BY <2>2 DEF Console!Event, Given, Happening, Text
    <3> HIDE DEF e
    <3> QED
      BY <3>1, <3>2
  <2>5. CASE r.kind \notin {"step.output", "malformed"}
    <3>1. e = Console!Event(r.source, r.sequence, r.kind, 0, r.metric)
      BY <2>5 DEF Console!Adapted
    <3> QED
      BY <2>1, <3>1 DEF Console!Event, Given, Happening, Text
  <2> QED
    BY <2>3, <2>4, <2>5
<1>3. CASE e = Console!NoEvent
  <2>1. UNCHANGED <<queue, producer, ingested>>
    BY <1>3 DEF Console!Ingest
  <2> QED
    BY <1>1, <2>1, BufferStays DEF BufferInv, BufferType
<1>4. CASE e # Console!NoEvent
  <2>1. e \in Given /\ Console!Put(e) /\ ingested' = Append(ingested, e)
    BY <1>2, <1>4 DEF Console!Ingest
  <2> HIDE DEF e
  <2>2. /\ queue \in Seq(Given) /\ ingested \in Seq(Given) /\ Len(queue) \in Nat
        /\ Len(ingested) \in Nat /\ Capacity \in Nat /\ Len(queue) <= Capacity
    BY ConsoleAssumption DEF BufferInv, BufferType
  <2>3. ingested' \in Seq(Given) /\ Len(ingested') = Len(ingested) + 1
    BY <2>1, <2>2
  <2>6. /\ view.late \in Nat /\ view.dropped \in Nat /\ view.processed \in Nat
        /\ bufferSeq \in Nat /\ pending \in Nat
    BY DEF BufferInv, BufferType, View
  <2>7. Len(ingested) = Len(queue) + pending + 0
                        + view.late + view.dropped + (view.processed - bufferSeq)
    BY <1>1 DEF BufferInv, Console!EveryEventAccounted
  <2>4. CASE Len(queue) < Capacity
    <3>1. queue' = Append(queue, e) /\ producer' = producer
      BY <2>1, <2>4 DEF Console!Put
    <3>2. /\ queue' \in Seq(Given) /\ Len(queue') = Len(queue) + 1 /\ Len(queue') <= Capacity
      BY <2>1, <2>2, <2>4, <3>1
    <3>3. BufferType' /\ DiagnosticInv'
      BY <1>1, <2>3, <3>1, <3>2 DEF BufferInv, BufferType, DiagnosticInv
    <3>4. Console!EveryEventAccounted'
      <4>1. Len(ingested') = Len(queue') + pending + 0 + view.late + view.dropped
                              + (view.processed - bufferSeq)
        <5> DEFINE late == view.late
                   dropped == view.dropped
                   processed == view.processed
                   was == Len(ingested)
                   size == Len(queue)
        <5>1. /\ late \in Nat /\ dropped \in Nat /\ processed \in Nat /\ was \in Nat
              /\ size \in Nat /\ bufferSeq \in Nat /\ pending \in Nat
              /\ was = size + pending + 0 + late + dropped + (processed - bufferSeq)
              /\ Len(ingested') = was + 1 /\ Len(queue') = size + 1
          BY <2>2, <2>3, <2>6, <2>7, <3>2
        <5> HIDE DEF late, dropped, processed, was, size
        <5>2. Len(ingested') = Len(queue') + pending + 0 + late + dropped
                                + (processed - bufferSeq)
          BY <5>1
        <5> QED
          BY <5>2 DEF late, dropped, processed
      <4>2. producer' # "full"
        BY <1>1, <3>1
      <4> QED
        BY <1>1, <4>1, <4>2 DEF Console!EveryEventAccounted
    <3>5. PhaseInv'
      <4> SUFFICES ASSUME Unexplained
                   PROVE  /\ Len(queue') <= Len(ingested')
                          /\ \A k \in 1..Len(queue') :
                                queue'[k] = ingested'[Len(ingested') - Len(queue') + k]
                          /\ LastPhase(ingested', Len(ingested') - Len(queue'), view.phase)
        BY <1>1, <3>1 DEF PhaseInv, Unexplained
      <4>1. /\ Len(queue) <= Len(ingested)
            /\ \A k \in 1..Len(queue) : queue[k] = ingested[Len(ingested) - Len(queue) + k]
            /\ LastPhase(ingested, Len(ingested) - Len(queue), view.phase)
        BY DEF BufferInv, PhaseInv
      <4>2. Len(ingested') - Len(queue') = Len(ingested) - Len(queue)
        BY <2>2, <2>3, <3>2
      <4>3. LastPhase(ingested', Len(ingested) - Len(queue), view.phase)
        <5>1. Len(ingested) - Len(queue) \in Nat /\ Len(ingested) - Len(queue) <= Len(ingested)
          BY <2>2, <4>1
        <5> QED
          BY <2>1, <2>2, <4>1, <5>1, LastPhaseExtends
      <4>4. ASSUME NEW k \in 1..Len(queue')
            PROVE  queue'[k] = ingested'[Len(ingested) - Len(queue) + k]
        <5>1. CASE k = Len(queue')
          BY <2>1, <2>2, <3>1, <3>2, <5>1
        <5>2. CASE k # Len(queue')
          <6>1. k \in 1..Len(queue)
            BY <2>2, <3>2, <5>2
          <6>2. Len(ingested) - Len(queue) + k \in 1..Len(ingested)
            BY <2>2, <4>1, <6>1
          <6> QED
            BY <2>1, <2>2, <3>1, <4>1, <6>1, <6>2
        <5> QED
          BY <5>1, <5>2
      <4>5. Len(queue') <= Len(ingested')
        BY <2>2, <2>3, <3>2, <4>1
      <4> QED
        BY <4>2, <4>3, <4>4, <4>5
    <3> QED
      BY <3>3, <3>4, <3>5 DEF BufferInv
  <2>5. CASE ~(Len(queue) < Capacity)
    <3>1. queue' = queue /\ producer' = "full"
      BY <2>1, <2>5 DEF Console!Put
    <3>2. BufferType' /\ DiagnosticInv' /\ PhaseInv'
      BY <1>1, <2>3, <3>1 DEF BufferInv, BufferType, DiagnosticInv, PhaseInv, Unexplained
    <3>3. Console!EveryEventAccounted'
      <4>1. Len(ingested') = Len(queue') + pending + 1 + view.late + view.dropped
                              + (view.processed - bufferSeq)
        <5> DEFINE late == view.late
                   dropped == view.dropped
                   processed == view.processed
                   was == Len(ingested)
                   size == Len(queue)
        <5>1. /\ late \in Nat /\ dropped \in Nat /\ processed \in Nat /\ was \in Nat
              /\ size \in Nat /\ bufferSeq \in Nat /\ pending \in Nat
              /\ was = size + pending + 0 + late + dropped + (processed - bufferSeq)
              /\ Len(ingested') = was + 1 /\ Len(queue') = size
          BY <2>2, <2>3, <2>6, <2>7, <3>1
        <5> HIDE DEF late, dropped, processed, was, size
        <5>2. Len(ingested') = Len(queue') + pending + 1 + late + dropped
                                + (processed - bufferSeq)
          BY <5>1
        <5> QED
          BY <5>2 DEF late, dropped, processed
      <4> QED
        BY <1>1, <3>1, <4>1 DEF Console!EveryEventAccounted
    <3> QED
      BY <3>2, <3>3 DEF BufferInv
  <2> QED
    BY <2>4, <2>5
<1> QED
  BY <1>3, <1>4

LEMMA CountDropKeeps ==
    ASSUME BufferInv, Console!CountDrop
    PROVE  BufferInv'
<1>1. /\ producer = "full" /\ producer' = "idle" /\ pending' = pending + 1
      /\ UNCHANGED <<queue, bufferSeq, appSeq, ui, view, ingested>>
  BY DEF Console!CountDrop, Console!screen
<1>2. /\ view.late \in Nat /\ view.dropped \in Nat /\ view.processed \in Nat
      /\ bufferSeq \in Nat /\ pending \in Nat /\ Len(queue) \in Nat /\ view.errors \in Nat
  BY DEF BufferInv, BufferType, View
<1>3. BufferType' /\ DiagnosticInv'
  BY <1>1, <1>2 DEF BufferInv, BufferType, DiagnosticInv
<1>4. PhaseInv'
  BY <1>1, <1>2 DEF PhaseInv, Unexplained
<1>5. Len(ingested) = Len(queue) + pending + 1 + view.late + view.dropped
                        + (view.processed - bufferSeq)
  BY <1>1 DEF BufferInv, Console!EveryEventAccounted
<1>6. Len(ingested) = Len(queue) + (pending + 1) + 0 + view.late + view.dropped
                        + (view.processed - bufferSeq)
  <2> DEFINE late == view.late
             dropped == view.dropped
             processed == view.processed
             size == Len(queue)
  <2>1. late \in Nat /\ dropped \in Nat /\ processed \in Nat /\ size \in Nat
    BY <1>2
  <2>2. Len(ingested) = size + pending + 1 + late + dropped + (processed - bufferSeq)
    BY <1>5
  <2> HIDE DEF late, dropped, processed, size
  <2>3. Len(ingested) = size + (pending + 1) + 0 + late + dropped + (processed - bufferSeq)
    BY <1>2, <2>1, <2>2
  <2> QED
    BY <2>3 DEF late, dropped, processed, size
<1>7. Console!EveryEventAccounted'
  BY <1>1, <1>6 DEF Console!EveryEventAccounted
<1> QED
  BY <1>3, <1>4, <1>7 DEF BufferInv

LEMMA ReportDropsKeeps ==
    ASSUME BufferInv, Console!ReportDrops
    PROVE  BufferInv'
<1> DEFINE e == Console!Event("ui-buffer", bufferSeq + 1, "ui.dropped", pending, "none")
<1>1. /\ pending > 0 /\ pending' = 0 /\ bufferSeq' = bufferSeq + 1
      /\ UNCHANGED <<queue, appSeq, producer, ingested>>
      /\ view' = Console!ReduceEvent(view, e)
      /\ ui' \in {"idle", "check"}
  BY DEF Console!ReportDrops, Console!Show
<1>2. /\ view.late \in Nat /\ view.dropped \in Nat /\ view.processed \in Nat
      /\ bufferSeq \in Nat /\ pending \in Nat /\ Len(queue) \in Nat /\ view.errors \in Nat
      /\ view \in View(view.last)
  BY DEF BufferInv, BufferType, View
<1>3. /\ e \in Happening /\ e.source = "ui-buffer" /\ e.sequence = bufferSeq + 1
      /\ e.count = pending /\ e.kind = "ui.dropped"
  BY <1>2 DEF Console!Event, Happening, Text
<1> HIDE DEF e
<1>4. ~Console!Late(view, e)
  BY <1>2, <1>3 DEF Console!Late, Console!Known, BufferInv, DiagnosticInv
<1>5. /\ view' \in View(view'.last)
      /\ view'.last = Marked(view.last, e)
      /\ view'.processed = view.processed + 1 /\ view'.dropped = view.dropped + pending
      /\ view'.late = view.late /\ view'.errors \in Nat
  <2>1. view' \in View(view'.last) /\ view'.errors \in Nat
    BY <1>1, <1>2, <1>3, ReducerDoes DEF View
  <2>2. /\ view'.last = Marked(view.last, e)
        /\ view'.processed = view.processed + 1 /\ view'.dropped = view.dropped + e.count
        /\ view'.late = view.late
    BY <1>1, <1>2, <1>3, <1>4, ReducerDoes
  <2> QED
    BY <1>3, <2>1, <2>2
<1>6. BufferType'
  BY <1>1, <1>2, <1>5 DEF BufferInv, BufferType
<1>7. DiagnosticInv'
  <2>1. view'.last["ui-buffer"] = bufferSeq + 1
    BY <1>3, <1>5 DEF Marked
  <2> QED
    BY <1>1, <1>2, <2>1 DEF DiagnosticInv
<1>8. PhaseInv'
  <2>1. view.dropped + pending + view.late + view'.errors # 0
    <3>1. \A d, p, l, s \in Nat : p > 0 => d + p + l + s # 0
      OBVIOUS
    <3>2. view.dropped \in Nat /\ view.late \in Nat /\ view'.errors \in Nat
      BY <1>2, <1>5
    <3> QED
      BY <1>1, <1>2, <3>1, <3>2, Zenon
  <2> QED
    BY <1>5, <2>1 DEF PhaseInv, Unexplained
<1>9. Console!EveryEventAccounted'
  <2> DEFINE late == view.late
             dropped == view.dropped
             processed == view.processed
             size == Len(queue)
             full == IF producer = "full" THEN 1 ELSE 0
  <2>1. late \in Nat /\ dropped \in Nat /\ processed \in Nat /\ size \in Nat /\ full \in Nat
    BY <1>2
  <2>2. Len(ingested) = size + pending + full + late + dropped + (processed - bufferSeq)
    BY DEF BufferInv, Console!EveryEventAccounted
  <2> HIDE DEF late, dropped, processed, size, full
  <2>3. Len(ingested) = size + 0 + full + late + (dropped + pending)
                          + ((processed + 1) - (bufferSeq + 1))
    BY <1>2, <2>1, <2>2
  <2> QED
    BY <1>1, <1>5, <2>3 DEF Console!EveryEventAccounted, late, dropped, processed, size, full
<1> QED
  BY <1>6, <1>7, <1>8, <1>9 DEF BufferInv

LEMMA TakeKeeps ==
    ASSUME BufferInv, Console!Take
    PROVE  BufferInv'
<1>1. UNCHANGED <<pending, bufferSeq, appSeq, producer, ingested>>
  BY DEF Console!Take
<1>2. CASE queue = <<>>
  <2>1. ui' = "idle" /\ UNCHANGED <<queue, view>>
    BY <1>2 DEF Console!Take, Console!screen
  <2> QED
    BY <1>1, <2>1, BufferStays DEF BufferInv, BufferType
<1>3. CASE queue # <<>>
  <2> DEFINE e == Head(queue)
  <2>1. /\ queue \in Seq(Given) /\ queue' = Tail(queue) /\ e \in Given
        /\ view' = Console!ReduceEvent(view, e)
        /\ ui' \in {"idle", "check"}
    BY <1>3 DEF Console!Take, Console!Show, BufferInv, BufferType
  <2>2. /\ view.late \in Nat /\ view.dropped \in Nat /\ view.processed \in Nat
        /\ bufferSeq \in Nat /\ pending \in Nat /\ view.errors \in Nat
        /\ view \in View(view.last)
    BY DEF BufferInv, BufferType, View
  <2>3. e \in Happening /\ e.count = 0 /\ e.source # "ui-buffer" /\ e.kind # "ui.dropped"
    BY <2>1 DEF Given
  <2>4. /\ queue' \in Seq(Given) /\ Len(queue') \in Nat /\ Len(queue) = Len(queue') + 1
        /\ e = queue[1] /\ \A k \in 1..Len(queue') : queue'[k] = queue[k + 1]
    BY <1>3, <2>1
  <2>5. Len(queue') <= Capacity
    BY <2>4, ConsoleAssumption DEF BufferInv, BufferType
  <2> HIDE DEF e
  <2>6. view' \in View(view'.last)
    BY <2>1, <2>2, <2>3, ReducerDoes
  <2>7. BufferType'
    BY <1>1, <2>1, <2>4, <2>5, <2>6 DEF BufferInv, BufferType
  <2>8. CASE Console!Late(view, e)
    <3>1. /\ view'.last = view.last /\ view'.processed = view.processed
          /\ view'.dropped = view.dropped /\ view'.late = view.late + 1
          /\ view'.errors = view.errors
      BY <2>1, <2>2, <2>3, <2>8, ReducerDoes
    <3>2. DiagnosticInv' /\ PhaseInv'
      BY <1>1, <2>2, <3>1 DEF BufferInv, DiagnosticInv, PhaseInv, Unexplained
    <3>3. Console!EveryEventAccounted'
      <4> DEFINE late == view.late
                 dropped == view.dropped
                 processed == view.processed
                 size == Len(queue')
                 full == IF producer = "full" THEN 1 ELSE 0
      <4>1. late \in Nat /\ dropped \in Nat /\ processed \in Nat /\ size \in Nat /\ full \in Nat
        BY <2>2, <2>4
      <4>2. Len(ingested) = (size + 1) + pending + full + late + dropped
                              + (processed - bufferSeq)
        BY <2>4 DEF BufferInv, Console!EveryEventAccounted
      <4> HIDE DEF late, dropped, processed, size, full
      <4>3. Len(ingested) = size + pending + full + (late + 1) + dropped
                              + (processed - bufferSeq)
        BY <2>2, <4>1, <4>2
      <4> QED
        BY <1>1, <3>1, <4>3
           DEF Console!EveryEventAccounted, late, dropped, processed, size, full
    <3> QED
      BY <2>7, <3>2, <3>3 DEF BufferInv
  <2>9. CASE ~Console!Late(view, e)
    <3>1. /\ view'.last = Marked(view.last, e)
          /\ view'.processed = view.processed + 1 /\ view'.dropped = view.dropped
          /\ view'.late = view.late
          /\ view'.errors = view.errors + IF e.kind = "ui.schema-error" THEN 1 ELSE 0
          /\ e.kind # "ui.schema-error" =>
                view'.phase = IF e.kind \in Kinds THEN Console!KindToPhase[e.kind]
                                                  ELSE view.phase
      <4>1. /\ view'.last = Marked(view.last, e)
            /\ view'.processed = view.processed + 1 /\ view'.dropped = view.dropped + e.count
            /\ view'.late = view.late
            /\ view'.errors = view.errors + IF e.kind = "ui.schema-error" THEN 1 ELSE 0
        BY <2>1, <2>2, <2>3, <2>9, ReducerDoes
      <4>2. e.kind # "ui.schema-error" =>
               view'.phase = IF e.kind \in Kinds THEN Console!KindToPhase[e.kind]
                                                 ELSE view.phase
        BY <2>1, <2>2, <2>3, <2>9, ReducerDoes
      <4>3. view.dropped + e.count = view.dropped
        BY <2>2, <2>3
      <4> QED
        BY <4>1, <4>2, <4>3
    <3>2. DiagnosticInv'
      BY <1>1, <2>3, <3>1 DEF BufferInv, DiagnosticInv, Marked
    <3>3. Console!EveryEventAccounted'
      <4> DEFINE late == view.late
                 dropped == view.dropped
                 processed == view.processed
                 size == Len(queue')
                 full == IF producer = "full" THEN 1 ELSE 0
      <4>1. late \in Nat /\ dropped \in Nat /\ processed \in Nat /\ size \in Nat /\ full \in Nat
        BY <2>2, <2>4
      <4>2. Len(ingested) = (size + 1) + pending + full + late + dropped
                              + (processed - bufferSeq)
        BY <2>4 DEF BufferInv, Console!EveryEventAccounted
      <4> HIDE DEF late, dropped, processed, size, full
      <4>3. Len(ingested) = size + pending + full + late + dropped
                              + ((processed + 1) - bufferSeq)
        BY <2>2, <4>1, <4>2
      <4> QED
        BY <1>1, <3>1, <4>3
           DEF Console!EveryEventAccounted, late, dropped, processed, size, full
    <3>4. ASSUME Unexplained'
          PROVE  /\ Len(queue') <= Len(ingested)
                 /\ \A k \in 1..Len(queue') :
                       queue'[k] = ingested[Len(ingested) - Len(queue') + k]
                 /\ LastPhase(ingested, Len(ingested) - Len(queue'), view'.phase)
      <4>1. view.dropped + view.late + view'.errors = 0 /\ pending = 0 /\ producer = "idle"
        BY <1>1, <3>1, <3>4 DEF Unexplained
      <4>2. e.kind # "ui.schema-error" /\ view'.errors = view.errors
        BY <2>2, <3>1, <4>1
      <4>3. Unexplained
        BY <4>1, <4>2 DEF Unexplained
      <4> DEFINE n == Len(ingested) - Len(queue)
      <4>4. /\ Len(queue) <= Len(ingested) /\ Len(ingested) \in Nat /\ Len(queue) \in Nat
            /\ \A k \in 1..Len(queue) : queue[k] = ingested[n + k]
            /\ LastPhase(ingested, n, view.phase)
        BY <2>1, <4>3 DEF BufferInv, BufferType, PhaseInv
      <4>5. n \in Nat /\ Len(ingested) - Len(queue') = n + 1
        BY <2>4, <4>4
      <4>6. e = ingested[n + 1]
        BY <2>4, <4>4
      <4> HIDE DEF n
      <4>7. LastPhase(ingested, n + 1, view'.phase)
        BY <3>1, <4>2, <4>4, <4>5, <4>6, LastPhaseNext
      <4>8. ASSUME NEW k \in 1..Len(queue') PROVE queue'[k] = ingested[n + 1 + k]
        <5>1. k + 1 \in 1..Len(queue) /\ n + (k + 1) = n + 1 + k
          <6>1. k \in Nat /\ k + 1 <= Len(queue)
            BY <2>4
          <6> QED
            BY <4>4, <4>5, <6>1, SMTT(30)
        <5> QED
          BY <2>4, <4>4, <5>1
      <4>9. Len(queue') <= Len(ingested)
        BY <2>4, <4>4
      <4> QED
        BY <4>5, <4>7, <4>8, <4>9
    <3>5. PhaseInv'
      BY <1>1, <3>4 DEF PhaseInv
    <3> QED
      BY <2>7, <3>2, <3>3, <3>5 DEF BufferInv
  <2> QED
    BY <2>8, <2>9
<1> QED
  BY <1>2, <1>3

-----------------------------------------------------------------------------
(* Mission control: the actions.  A confirmation that is outstanding was   *)
(* not used, and no two actions share one; a key that was acknowledged has *)
(* a receipt.                                                              *)
ApiCall == [action : Console!Action, key : Key \cup {"ui-close"}, token : Nat,
            applied : BOOLEAN, acknowledged : BOOLEAN]
ControlType ==
    /\ tokens \in [Console!Dangerous -> Nat] /\ issued \in Nat
    /\ calls \in Seq(ApiCall) /\ stopped \in BOOLEAN
TokenInv ==
    /\ \A a \in Console!Dangerous : tokens[a] <= issued
    /\ \A a, b \in Console!Dangerous : a # b /\ tokens[a] # 0 => tokens[b] # tokens[a]
    /\ \A i \in 1..Len(calls) :
          /\ calls[i].token <= issued
          /\ calls[i].action \in Console!Dangerous => calls[i].token # 0
          /\ \A a \in Console!Dangerous : tokens[a] # 0 => calls[i].token # tokens[a]
UsedOnce ==
    \A i, j \in 1..Len(calls) :
       calls[i].action \in Console!Dangerous /\ i # j => calls[j].token # calls[i].token
ReceiptInv ==
    \A i \in 1..Len(calls) :
       /\ calls[i].acknowledged => calls[i].key \in receipts
       /\ calls[i].key = "ui-close" => stopped
AnsweredOnce ==
    \A i, j \in 1..Len(calls) :
       i < j /\ calls[i].key = calls[j].key => ~calls[i].acknowledged /\ calls[i].key # "ui-close"
ControlInv == ControlType /\ TokenInv /\ UsedOnce /\ ReceiptInv /\ AnsweredOnce

LEMMA CallTypes ==
    ASSUME ControlInv
    PROVE  \A i \in 1..Len(calls) : calls[i].token \in Nat
<1>1. calls \in Seq(ApiCall)
  BY DEF ControlInv, ControlType
<1>2. \A i \in 1..Len(calls) : calls[i] \in ApiCall
  BY <1>1
<1> QED
  BY <1>2 DEF ApiCall

(* A call with a confirmation that is not used or outstanding any more, and *)
(* a key without a receipt.                                                *)
LEMMA CallKeeps ==
    ASSUME ControlInv, NEW a \in Console!Action, NEW key \in Key \cup {"ui-close"},
           NEW token \in Nat, Console!Call(a, key, token),
           tokens' \in [Console!Dangerous -> Nat], issued' = issued, stopped' \in BOOLEAN,
           \A b \in Console!Dangerous : tokens'[b] # 0 => tokens'[b] = tokens[b],
           a \in Console!Dangerous =>
              /\ token # 0 /\ token <= issued
              /\ \A i \in 1..Len(calls) : calls[i].token # token
              /\ \A b \in Console!Dangerous : tokens'[b] # 0 => tokens'[b] # token,
           key \notin receipts \/ key = "ui-close",
           key = "ui-close" => ~stopped /\ stopped', stopped => stopped'
    PROVE  ControlInv'
<1> DEFINE spent == IF a \in Console!Dangerous THEN token ELSE 0
<1>1. PICK took \in BOOLEAN, acknowledged \in BOOLEAN :
         /\ calls' = Append(calls, [action |-> a, key |-> key, token |-> spent,
                                    applied |-> took, acknowledged |-> acknowledged])
         /\ receipts' = IF acknowledged THEN receipts \cup {key} ELSE receipts
  BY DEF Console!Call
<1> DEFINE call == [action |-> a, key |-> key, token |-> spent,
                    applied |-> took, acknowledged |-> acknowledged]
           n == Len(calls)
<1>2. /\ spent \in Nat /\ spent <= issued /\ (a \in Console!Dangerous => spent = token)
      /\ a \notin Console!Dangerous => spent = 0
  BY DEF ControlInv, ControlType
<1>3. receipts \subseteq receipts' /\ (acknowledged => key \in receipts')
  BY <1>1
<1> HIDE DEF spent
<1>4. /\ call \in ApiCall /\ call.action = a /\ call.key = key /\ call.token = spent
      /\ call.acknowledged = acknowledged
  BY <1>2 DEF ApiCall
<1>5. calls' = Append(calls, call) /\ calls \in Seq(ApiCall) /\ n \in Nat
  BY <1>1 DEF ControlInv, ControlType
<1> HIDE DEF call
<1>6. /\ calls' \in Seq(ApiCall) /\ Len(calls') = n + 1 /\ calls'[n + 1] = call
      /\ \A i \in 1..n : calls'[i] = calls[i]
      /\ \A i \in 1..n : calls[i] \in ApiCall
      /\ \A i \in 1..Len(calls') : i = n + 1 \/ i \in 1..n
  BY <1>4, <1>5
<1> HIDE DEF n
<1>7. ControlType'
  BY <1>6 DEF ControlInv, ControlType
<1>8. TokenInv'
  <2>1. \A b \in Console!Dangerous : tokens'[b] <= issued'
    BY DEF ControlInv, ControlType, TokenInv
  <2>2. \A b, d \in Console!Dangerous : b # d /\ tokens'[b] # 0 => tokens'[d] # tokens'[b]
    BY DEF ControlInv, ControlType, TokenInv
  <2>3. ASSUME NEW i \in 1..Len(calls')
        PROVE  /\ calls'[i].token <= issued'
               /\ calls'[i].action \in Console!Dangerous => calls'[i].token # 0
               /\ \A b \in Console!Dangerous : tokens'[b] # 0 => calls'[i].token # tokens'[b]
    <3>1. CASE i = n + 1
      BY <1>2, <1>4, <1>6, <3>1
    <3>2. CASE i \in 1..n
      BY <1>6, <3>2 DEF ControlInv, TokenInv, n
    <3> QED
      BY <1>6, <3>1, <3>2
  <2> QED
    BY <2>1, <2>2, <2>3 DEF TokenInv
<1>9. UsedOnce'
  <2> SUFFICES ASSUME NEW i \in 1..Len(calls'), NEW j \in 1..Len(calls'), i # j,
                      calls'[i].action \in Console!Dangerous
               PROVE  calls'[j].token # calls'[i].token
    BY DEF UsedOnce
  <2>1. CASE i \in 1..n /\ j \in 1..n
    BY <1>6, <2>1 DEF ControlInv, UsedOnce, n
  <2>2. CASE i = n + 1 /\ j \in 1..n
    BY <1>2, <1>4, <1>6, <2>2 DEF n
  <2>3. CASE i \in 1..n /\ j = n + 1
    <3>1. calls'[i] = calls[i] /\ calls'[j].token = spent
      BY <1>4, <1>6, <2>3
    <3>2. calls[i].token # 0
      BY <1>6, <2>3, <3>1 DEF ControlInv, TokenInv, n
    <3>3. CASE a \in Console!Dangerous
      BY <1>2, <2>3, <3>1, <3>3 DEF n
    <3>4. CASE a \notin Console!Dangerous
      BY <1>2, <3>1, <3>2, <3>4
    <3> QED
      BY <3>3, <3>4
  <2> QED
    BY <1>6, <2>1, <2>2, <2>3
<1>10. ReceiptInv'
  <2> SUFFICES ASSUME NEW i \in 1..Len(calls')
               PROVE  /\ calls'[i].acknowledged => calls'[i].key \in receipts'
                      /\ calls'[i].key = "ui-close" => stopped'
    BY DEF ReceiptInv
  <2>1. CASE i = n + 1
    BY <1>3, <1>4, <1>6, <2>1
  <2>2. CASE i \in 1..n
    BY <1>3, <1>6, <2>2 DEF ControlInv, ReceiptInv, n
  <2> QED
    BY <1>6, <2>1, <2>2
<1>11. AnsweredOnce'
  <2> SUFFICES ASSUME NEW i \in 1..Len(calls'), NEW j \in 1..Len(calls'), i < j,
                      calls'[i].key = calls'[j].key
               PROVE  ~calls'[i].acknowledged /\ calls'[i].key # "ui-close"
    BY DEF AnsweredOnce
  <2>1. CASE i \in 1..n /\ j \in 1..n
    BY <1>6, <2>1 DEF ControlInv, AnsweredOnce, n
  <2>2. CASE i \in 1..n /\ j = n + 1
    <3>1. calls'[i] = calls[i] /\ calls[i].key = key
      BY <1>4, <1>6, <2>2
    <3>2. (calls[i].acknowledged => key \in receipts) /\ (key = "ui-close" => stopped)
      BY <2>2, <3>1 DEF ControlInv, ReceiptInv, n
    <3> QED
      BY <3>1, <3>2
  <2>3. ~(i = n + 1 /\ j \in 1..n)
    BY <1>5 DEF n
  <2>4. ~(i = n + 1 /\ j = n + 1)
    BY <1>5
  <2>5. (i = n + 1 \/ i \in 1..n) /\ (j = n + 1 \/ j \in 1..n)
    BY <1>6
  <2> QED
    BY <2>1, <2>2, <2>3, <2>4, <2>5, Zenon
<1> QED
  BY <1>7, <1>8, <1>9, <1>10, <1>11 DEF ControlInv

LEMMA ControlStays ==
    ASSUME ControlInv, UNCHANGED <<tokens, issued, receipts, calls, stopped>>
    PROVE  ControlInv'
BY DEF ControlInv, ControlType, TokenInv, UsedOnce, ReceiptInv, AnsweredOnce

LEMMA ConfirmationKeeps ==
    ASSUME ControlInv, NEW a \in Console!Dangerous, Console!RequestConfirmation(a)
    PROVE  ControlInv'
<1>1. /\ issued' = issued + 1 /\ tokens' = [tokens EXCEPT ![a] = issued + 1]
      /\ UNCHANGED <<receipts, calls, stopped>>
  BY DEF Console!RequestConfirmation
<1>2. /\ issued \in Nat /\ tokens \in [Console!Dangerous -> Nat]
      /\ \A i \in 1..Len(calls) : calls[i].token \in Nat
  BY CallTypes DEF ControlInv, ControlType
<1>3. /\ tokens' \in [Console!Dangerous -> Nat] /\ tokens'[a] = issued + 1
      /\ \A b \in Console!Dangerous : b # a => tokens'[b] = tokens[b]
  BY <1>1, <1>2
<1>4. ControlType' /\ UsedOnce' /\ ReceiptInv' /\ AnsweredOnce'
  BY <1>1, <1>2, <1>3
     DEF ControlInv, ControlType, UsedOnce, ReceiptInv, AnsweredOnce
<1>5. TokenInv'
  <2>1. \A b \in Console!Dangerous : tokens[b] \in Nat /\ tokens[b] <= issued
    BY <1>2 DEF ControlInv, TokenInv
  <2>2. \A b \in Console!Dangerous : tokens'[b] <= issued'
    BY <1>1, <1>2, <1>3, <2>1
  <2>3. \A b, d \in Console!Dangerous : b # d /\ tokens'[b] # 0 => tokens'[d] # tokens'[b]
    BY <1>2, <1>3, <2>1 DEF ControlInv, TokenInv
  <2>4. ASSUME NEW i \in 1..Len(calls)
        PROVE  /\ calls[i].token <= issued'
               /\ calls[i].action \in Console!Dangerous => calls[i].token # 0
               /\ \A b \in Console!Dangerous : tokens'[b] # 0 => calls[i].token # tokens'[b]
    <3>1. calls[i].token <= issued /\ calls[i].token \in Nat
      BY <1>2 DEF ControlInv, TokenInv
    <3>2. calls[i].token # issued + 1 /\ calls[i].token <= issued'
      BY <1>1, <1>2, <3>1
    <3> QED
      BY <1>3, <3>2 DEF ControlInv, TokenInv
  <2> QED
    BY <1>1, <2>2, <2>3, <2>4 DEF TokenInv
<1> QED
  BY <1>4, <1>5 DEF ControlInv

LEMMA InvokeKeeps ==
    ASSUME ControlInv, NEW a \in Console!Action, NEW key \in Key, NEW token \in Nat,
           Console!Invoke(a, key, token)
    PROVE  ControlInv'
<1>1. key \notin receipts /\ UNCHANGED <<issued, stopped>> /\ key # "ui-close"
  BY ConsoleAssumption DEF Console!Invoke
<1>2. /\ issued \in Nat /\ tokens \in [Console!Dangerous -> Nat] /\ stopped \in BOOLEAN
  BY DEF ControlInv, ControlType
<1>3. CASE a \notin Console!Dangerous
  <2>1. Console!Call(a, key, token) /\ tokens' = tokens
    BY <1>3 DEF Console!Invoke
  <2> QED
    BY <1>1, <1>2, <1>3, <2>1, CallKeeps
<1>4. CASE a \in Console!Dangerous
  <2>1. tokens' = [tokens EXCEPT ![a] = 0]
    BY <1>4 DEF Console!Invoke
  <2>2. /\ tokens' \in [Console!Dangerous -> Nat] /\ tokens'[a] = 0
        /\ \A b \in Console!Dangerous : b # a => tokens'[b] = tokens[b]
    BY <1>2, <1>4, <2>1
  <2>3. \A b \in Console!Dangerous : tokens'[b] # 0 => tokens'[b] = tokens[b] /\ b # a
    BY <2>2
  <2>4. CASE tokens[a] # 0 /\ token = tokens[a]
    <3>1. Console!Call(a, key, token)
      BY <1>4, <2>4 DEF Console!Invoke
    <3>2. /\ token # 0 /\ token <= issued
          /\ \A i \in 1..Len(calls) : calls[i].token # token
          /\ \A b \in Console!Dangerous : tokens'[b] # 0 => tokens'[b] # token
      BY <1>4, <2>3, <2>4 DEF ControlInv, TokenInv
    <3> QED
      BY <1>1, <1>2, <2>2, <2>3, <3>1, <3>2, CallKeeps
  <2>5. CASE ~(tokens[a] # 0 /\ token = tokens[a])
    <3>1. UNCHANGED <<receipts, calls>>
      BY <1>4, <2>5 DEF Console!Invoke
    <3>2. ControlType' /\ UsedOnce' /\ ReceiptInv' /\ AnsweredOnce'
      BY <1>1, <2>2, <3>1
         DEF ControlInv, ControlType, UsedOnce, ReceiptInv, AnsweredOnce
    <3>3. TokenInv'
      BY <1>1, <1>2, <2>2, <2>3, <3>1 DEF ControlInv, TokenInv
    <3> QED
      BY <3>2, <3>3 DEF ControlInv
  <2> QED
    BY <2>4, <2>5
<1> QED
  BY <1>3, <1>4

LEMMA CloseKeeps ==
    ASSUME ControlInv, Console!Close
    PROVE  ControlInv'
<1>1. /\ ~stopped /\ stopped' = TRUE /\ Console!Call("graceful-stop", "ui-close", 0)
      /\ UNCHANGED <<tokens, issued>>
  BY DEF Console!Close
<1>2. "graceful-stop" \in Console!Action /\ "graceful-stop" \notin Console!Dangerous
  BY DEF Console!Action, Console!Dangerous
<1>3. tokens \in [Console!Dangerous -> Nat]
  BY DEF ControlInv, ControlType
<1> QED
  BY <1>1, <1>2, <1>3, CallKeeps

LEMMA ConsoleKeeps ==
    ASSUME BufferInv, ControlInv, Console!Next
    PROVE  BufferInv' /\ ControlInv'
<1>1. CASE Console!Produce
  <2>1. ControlInv'
    <3>1. UNCHANGED <<tokens, issued, receipts, calls, stopped>>
      BY <1>1 DEF Console!Produce, Console!CountDrop, Console!Ingest, Console!control
    <3> QED
      BY <3>1, ControlStays
  <2> QED
    BY <1>1, <2>1, CountDropKeeps, IngestKeeps DEF Console!Produce
<1>2. CASE Console!Drain
  <2>1. ControlInv'
    <3>1. UNCHANGED <<tokens, issued, receipts, calls, stopped>>
      BY <1>2 DEF Console!Drain, Console!BeginDrain, Console!ReportDrops, Console!LeaveLock,
                  Console!Take, Console!control
    <3> QED
      BY <3>1, ControlStays
  <2>2. CASE Console!BeginDrain \/ Console!LeaveLock
    <3>1. /\ UNCHANGED <<queue, pending, bufferSeq, producer, view, ingested>>
          /\ UNCHANGED appSeq /\ ui' \in {"check", "take"}
      BY <2>2 DEF Console!BeginDrain, Console!LeaveLock, Console!buffer, Console!screen
    <3> QED
      BY <2>1, <3>1, BufferStays DEF BufferInv, BufferType
  <2> QED
    BY <1>2, <2>1, <2>2, ReportDropsKeeps, TakeKeeps DEF Console!Drain
<1>3. CASE Console!Operate
  <2>1. BufferInv'
    <3>1. UNCHANGED <<queue, pending, bufferSeq, producer, view, ingested, appSeq, ui>>
      BY <1>3 DEF Console!Operate, Console!Close, Console!RequestConfirmation, Console!Invoke,
                  Console!Quiet, Console!buffer, Console!screen
    <3> QED
      BY <3>1, BufferStays DEF BufferInv, BufferType
  <2>2. \A token \in 0..issued : token \in Nat
    BY DEF ControlInv, ControlType
  <2> QED
    BY <1>3, <2>1, <2>2, CloseKeeps, ConfirmationKeeps, InvokeKeeps DEF Console!Operate
<1> QED
  BY <1>1, <1>2, <1>3 DEF Console!Next

LEMMA ConsoleInit ==
    ASSUME Console!Init
    PROVE  BufferInv /\ ControlInv
<1> USE DEF Console!Init
<1>1. BufferType
  BY ConsoleAssumption DEF BufferType, View, Console!Phases
<1>2. DiagnosticInv /\ Console!EveryEventAccounted
  BY DEF DiagnosticInv, Console!EveryEventAccounted
<1>3. PhaseInv
  BY DEF PhaseInv, LastPhase
<1>4. ControlInv
  <2>1. /\ tokens = [a \in Console!Dangerous |-> 0] /\ issued = 0 /\ calls = <<>>
        /\ stopped = FALSE
    OBVIOUS
  <2>2. Len(calls) = 0 /\ calls \in Seq(ApiCall) /\ tokens \in [Console!Dangerous -> Nat]
        /\ \A a \in Console!Dangerous : tokens[a] = 0
    BY <2>1
  <2>3. ControlType
    <3>1. issued \in Nat
      BY <2>1
    <3>2. stopped \in BOOLEAN
      BY <2>1, Zenon
    <3> QED
      BY <2>2, <3>1, <3>2 DEF ControlType
  <2>4. TokenInv
    BY <2>1, <2>2 DEF TokenInv
  <2> QED
    BY <2>2, <2>3, <2>4 DEF ControlInv, UsedOnce, ReceiptInv, AnsweredOnce
<1> QED
  BY <1>1, <1>2, <1>3, <1>4 DEF BufferInv

LEMMA HonestIs ==
    ASSUME BufferInv, ControlInv
    PROVE  ConsoleIsHonest
<1>1. Console!TypeOK /\ Console!EveryEventAccounted
  BY DEF BufferInv, BufferType, View, Console!TypeOK
<1>2. Console!PhaseShownOrExplained
  <2> SUFFICES ASSUME Console!Drained, ~(view.dropped + view.late + view.errors > 0)
               PROVE  view.phase = Console!PhaseOf(ingested)
    BY DEF Console!PhaseShownOrExplained
  <2> DEFINE next == {i \in DOMAIN ingested : ingested[i].kind \in Kinds}
  <2>1. Unexplained
    <3>1. \A d, l, s \in Nat : ~(d + l + s > 0) => d + l + s = 0
      OBVIOUS
    <3>2. view.dropped \in Nat /\ view.late \in Nat /\ view.errors \in Nat
      BY DEF BufferInv, BufferType, View
    <3>3. view.dropped + view.late + view.errors = 0
      BY <3>1, <3>2, Zenon
    <3> QED
      BY <3>3 DEF Unexplained, Console!Drained
  <2>2. /\ DOMAIN ingested = 1..Len(ingested) /\ Len(ingested) \in Nat /\ Len(queue) = 0
        /\ Len(ingested) - Len(queue) = Len(ingested)
    BY DEF BufferInv, BufferType, Console!Drained
  <2>3. LastPhase(ingested, Len(ingested), view.phase)
    BY <2>1, <2>2 DEF BufferInv, PhaseInv
  <2>4. Console!PhaseOf(ingested) =
           IF next = {} THEN "planning"
           ELSE Console!KindToPhase[ingested[CHOOSE i \in next : \A j \in next : j <= i].kind]
    BY DEF Console!PhaseOf, Kinds
  <2>5. CASE next = {}
    BY <2>2, <2>3, <2>4, <2>5 DEF LastPhase
  <2>6. CASE next # {}
    <3>1. PICK i \in next : /\ view.phase = Console!KindToPhase[ingested[i].kind]
                          /\ \A j \in next : j <= i
      BY <2>2, <2>3, <2>6 DEF LastPhase
    <3>2. \A k \in next : (\A j \in next : j <= k) => k = i
      <4>1. next \subseteq Nat
        BY <2>2
      <4> HIDE DEF next
      <4> QED
        BY <3>1, <4>1
    <3> HIDE DEF next
    <3>3. (CHOOSE k \in next : \A j \in next : j <= k) = i
      BY <3>1, <3>2
    <3> QED
      BY <2>4, <2>6, <3>1, <3>3
  <2> QED
    BY <2>5, <2>6
<1>3. /\ DOMAIN calls = 1..Len(calls) /\ issued \in Nat
      /\ \A i \in 1..Len(calls) : calls[i].token \in Nat
  <2>1. DOMAIN calls = 1..Len(calls) /\ issued \in Nat
    BY DEF ControlInv, ControlType
  <2> QED
    BY <2>1, CallTypes
<1>4. Console!FreshConfirmation
  BY <1>3 DEF Console!FreshConfirmation, ControlInv, TokenInv, UsedOnce
<1>5. Console!AppliedOncePerKey
  BY <1>3 DEF Console!AppliedOncePerKey, ControlInv, AnsweredOnce
<1> QED
  BY <1>1, <1>2, <1>4, <1>5 DEF ConsoleIsHonest

(* For every capacity, every stream of events whose producers leave the    *)
(* interface its own names, and every operator (see ConsoleIsHonest of     *)
(* MCBench): events are shown, refused or reported, the phase shown is the *)
(* last one or the loss is shown with it, and a dangerous action takes a   *)
(* confirmation of its own.                                                *)
THEOREM ConsoleStaysHonest == Spec => []ConsoleIsHonest
<1>1. Init => BufferInv /\ ControlInv
  BY ConsoleInit DEF Init
<1>2. BufferInv /\ ControlInv /\ [Next]_vars => BufferInv' /\ ControlInv'
  <2> SUFFICES ASSUME BufferInv, ControlInv, [Next]_vars PROVE BufferInv' /\ ControlInv'
    OBVIOUS
  <2>1. CASE UNCHANGED console
    <3>1. /\ UNCHANGED <<queue, pending, bufferSeq, producer, view, ingested, appSeq, ui>>
          /\ UNCHANGED <<tokens, issued, receipts, calls, stopped>>
      BY <2>1 DEF console
    <3> QED
      BY <3>1, BufferStays, ControlStays DEF BufferInv, BufferType
  <2>2. CASE Console!Next
    BY <2>2, ConsoleKeeps
  <2>3. UNCHANGED console \/ Console!Next
    BY DEF Next, ConsoleRuns, TortureWorks, TortureRuns, MinimiserRuns, PacksRun, OutputsRun, ChaosRuns, vars
  <2> QED
    BY <2>1, <2>2, <2>3
<1>3. BufferInv /\ ControlInv => ConsoleIsHonest
  BY HonestIs
<1> QED
  BY <1>1, <1>2, <1>3, PTL DEF Spec

-----------------------------------------------------------------------------
(* The torture runner.  What was sent is read as a history, whatever thread *)
(* sent it: no packet of a case twice, and nothing of the next case before  *)
(* all of the case and a clean canary.                                      *)

Cases == Len(Torture!Selected)
Wanted(c) == 1..Torture!Selected[c]
Answer == {"none", "ok", "not-ok", "raised", "unexact"}
Stage == {"establish", "inject", "classify", "recovery"}
Thread == [action : {"none"} \cup Stage, case : Nat, left : Nat, cancel : BOOLEAN, reply : Answer]
Packet == {"mutation", "canary"} \X Nat \X Nat \X BOOLEAN

Mutates(net, i) == net[i][1] = "mutation"
SentOf(net, c, p) == \E i \in 1..Len(net) : Mutates(net, i) /\ net[i][2] = c /\ net[i][3] = p
AllSent(net, c) == \A p \in Wanted(c) : SentOf(net, c, p)
Clean(c) == <<"canary", c, 0, TRUE>>
CleanAfter(net, i) == \E k \in 1..Len(net) : k > i /\ net[k] = Clean(net[i][2])
CanaryAfter(net, i) ==
    \E k \in 1..Len(net) : k > i /\ net[k][1] = "canary" /\ net[k][2] = net[i][2]

(* What was sent while the runner was at case n or before it.              *)
IsPlanned(net, n) ==
    \A i \in 1..Len(net) : Mutates(net, i) =>
        /\ net[i][2] \in 1..Cases /\ net[i][2] <= n /\ net[i][3] \in Wanted(net[i][2])
        /\ net[i][2] < n => CleanAfter(net, i) /\ AllSent(net, net[i][2])
IsOrdered(net) ==
    \A i, j \in 1..Len(net) : Mutates(net, i) /\ Mutates(net, j) /\ i < j =>
        /\ <<net[i][2], net[i][3]>> # <<net[j][2], net[j][3]>>
        /\ net[i][2] # net[j][2] => \E k \in 1..Len(net) : i < k /\ k < j /\ net[k] = Clean(net[i][2])
History(net, n) == net \in Seq(Packet) /\ IsPlanned(net, n) /\ IsOrdered(net)

LEMMA SelectedAre ==
    ASSUME chosen \in Seq(Nat)
    PROVE  /\ Torture!Selected \in Seq(Nat) /\ Cases \in Nat
           /\ DOMAIN Torture!Selected = 1..Cases
           /\ \A c \in 1..Cases : Torture!Selected[c] = chosen[c] /\ chosen[c] \in Nat
<1>1. MaxCases \in Nat /\ Len(chosen) \in Nat
  BY TortureAssumption
<1> DEFINE n == IF Len(chosen) < MaxCases THEN Len(chosen) ELSE MaxCases
<1>2. n \in Nat /\ n <= Len(chosen)
  BY <1>1
<1>3. Torture!Selected = SubSeq(chosen, 1, n)
  BY DEF Torture!Selected
<1> HIDE DEF n
<1>4. /\ SubSeq(chosen, 1, n) \in Seq(Nat) /\ Len(SubSeq(chosen, 1, n)) = n
      /\ \A c \in 1..n : SubSeq(chosen, 1, n)[c] = chosen[c] /\ chosen[c] \in Nat
  <2>1. \A c \in 1..n : chosen[c] \in Nat
    BY <1>1, <1>2
  <2>2. SubSeq(chosen, 1, n) \in Seq(Nat)
    BY <1>1, <1>2, <2>1
  <2>3. Len(SubSeq(chosen, 1, n)) = n
    BY <1>1, <1>2
  <2>4. \A c \in 1..n : SubSeq(chosen, 1, n)[c] = chosen[c]
    BY <1>1, <1>2
  <2> QED
    BY <2>1, <2>2, <2>3, <2>4
<1> QED
  BY <1>2, <1>3, <1>4 DEF Cases

(* The cardinality of the instance is that of the standard module.         *)
LEMMA SameCount ==
    ASSUME NEW X
    PROVE  Torture!Cardinality(X) = Cardinality(X)
BY Zenon DEF Cardinality, Torture!Cardinality, IsFiniteSet, Torture!IsFiniteSet

(* The packets of the plan are finitely many.                              *)
LEMMA PlannedAre ==
    ASSUME chosen \in Seq(Nat)
    PROVE  /\ IsFiniteSet(Torture!Planned)
           /\ \A c \in 1..Cases : \A p \in Wanted(c) : <<c, p>> \in Torture!Planned
<1> DEFINE of == [c \in 1..Cases |-> {c} \X Wanted(c)]
           all == {{c} \X Wanted(c) : c \in 1..Cases}
<1>1. Torture!Planned = UNION all
  BY SelectedAre, Zenon DEF Torture!Planned, Wanted
<1>2. of \in Surjection(1..Cases, all)
  BY Zenon DEF Surjection
<1>3. IsFiniteSet(1..Cases) /\ \A c \in 1..Cases : IsFiniteSet(Wanted(c))
  <2>1. Cases \in Int /\ \A c \in 1..Cases : Torture!Selected[c] \in Int
    BY SelectedAre
  <2> QED
    BY <2>1, FS_Interval DEF Wanted
<1>4. IsFiniteSet(all)
  <2> HIDE DEF of, all
  <2> QED
    BY <1>2, <1>3, FS_Surjection
<1>5. \A X \in all : IsFiniteSet(X)
  <2> TAKE X \in all
  <2>1. PICK c \in 1..Cases : X = {c} \X Wanted(c)
    OBVIOUS
  <2>2. IsFiniteSet({c})
    BY FS_Singleton
  <2> QED
    BY <2>1, <2>2, <1>3, FS_Product
<1>6. IsFiniteSet(UNION all)
  <2> HIDE DEF all
  <2> QED
    BY <1>4, <1>5, FS_UNION
<1>7. ASSUME NEW c \in 1..Cases, NEW p \in Wanted(c)
      PROVE  <<c, p>> \in UNION all
  BY <1>7
<1> QED
  BY <1>1, <1>6, <1>7

LEMMA SendIs ==
    ASSUME NEW net \in Seq(Packet), NEW x \in Packet
    PROVE  LET new == net \o <<x>>
           IN  /\ new \in Seq(Packet) /\ Len(net) \in Nat /\ Len(new) = Len(net) + 1
               /\ \A i \in 1..Len(net) : i \in 1..Len(new) /\ new[i] = net[i]
               /\ new[Len(net) + 1] = x
<1>1. <<x>> \in Seq(Packet) /\ Len(<<x>>) = 1 /\ <<x>>[1] = x
  OBVIOUS
<1>2. net \o <<x>> \in Seq(Packet)
  BY <1>1
<1> QED
  BY <1>1, <1>2

(* A packet or a canary more takes nothing from what was sent.              *)
LEMMA SendKeeps ==
    ASSUME NEW net \in Seq(Packet), NEW x \in Packet
    PROVE  LET new == net \o <<x>>
           IN  /\ \A c, p : SentOf(net, c, p) => SentOf(new, c, p)
               /\ \A c : AllSent(net, c) => AllSent(new, c)
               /\ \A i \in 1..Len(net) : CleanAfter(net, i) => CleanAfter(new, i)
               /\ \A i \in 1..Len(net) : CanaryAfter(net, i) => CanaryAfter(new, i)
               /\ \A i \in 1..Len(net) : Mutates(new, i) <=> Mutates(net, i)
<1> DEFINE new == net \o <<x>>
<1>1. \A i \in 1..Len(net) : i \in 1..Len(new) /\ new[i] = net[i]
  BY SendIs
<1> HIDE DEF new
<1>2. \A c, p : SentOf(net, c, p) => SentOf(new, c, p)
  BY <1>1, Zenon DEF SentOf, Mutates
<1>3. \A c : AllSent(net, c) => AllSent(new, c)
  BY <1>2, Zenon DEF AllSent
<1>4. \A i \in 1..Len(net) : CleanAfter(net, i) => CleanAfter(new, i)
  BY <1>1, Zenon DEF CleanAfter
<1>5. \A i \in 1..Len(net) : CanaryAfter(net, i) => CanaryAfter(new, i)
  BY <1>1, Zenon DEF CanaryAfter
<1>6. \A i \in 1..Len(net) : Mutates(new, i) <=> Mutates(net, i)
  BY <1>1, Zenon DEF Mutates
<1> QED
  BY <1>2, <1>3, <1>4, <1>5, <1>6 DEF new

(* What was in order stays in order.                                        *)
LEMMA OrderKeeps ==
    ASSUME NEW net \in Seq(Packet), NEW x \in Packet, IsOrdered(net),
           NEW i \in 1..Len(net), NEW j \in 1..Len(net), Mutates(net, i), Mutates(net, j), i < j
    PROVE  LET new == net \o <<x>>
           IN  /\ <<new[i][2], new[i][3]>> # <<new[j][2], new[j][3]>>
               /\ new[i][2] # new[j][2] =>
                     \E k \in 1..Len(new) : i < k /\ k < j /\ new[k] = Clean(new[i][2])
<1> DEFINE new == net \o <<x>>
<1>1. \A k \in 1..Len(net) : k \in 1..Len(new) /\ new[k] = net[k]
  BY SendIs
<1> HIDE DEF new
<1>2. new[i] = net[i] /\ new[j] = net[j]
  BY <1>1
<1>3. /\ <<net[i][2], net[i][3]>> # <<net[j][2], net[j][3]>>
      /\ net[i][2] # net[j][2] =>
            \E k \in 1..Len(net) : i < k /\ k < j /\ net[k] = Clean(net[i][2])
  BY Zenon DEF IsOrdered
<1>4. net[i][2] # net[j][2] =>
         \E k \in 1..Len(new) : i < k /\ k < j /\ new[k] = Clean(net[i][2])
  BY <1>1, <1>3, Zenon
<1> QED
  BY <1>2, <1>3, <1>4, Zenon DEF new

LEMMA CanaryKeeps ==
    ASSUME NEW net, NEW n \in Nat, History(net, n), NEW x \in Packet, x[1] = "canary"
    PROVE  History(net \o <<x>>, n)
<1> DEFINE new == net \o <<x>>
<1>0. net \in Seq(Packet)
  BY DEF History
<1>1. /\ new \in Seq(Packet) /\ Len(net) \in Nat /\ Len(new) = Len(net) + 1
      /\ \A i \in 1..Len(net) : i \in 1..Len(new) /\ new[i] = net[i]
      /\ new[Len(net) + 1] = x
  BY <1>0, SendIs
<1>2. /\ \A c : AllSent(net, c) => AllSent(new, c)
      /\ \A i \in 1..Len(net) : CleanAfter(net, i) => CleanAfter(new, i)
  BY <1>0, SendKeeps
<1> HIDE DEF new
<1>3. \A i \in 1..Len(new) : Mutates(new, i) => i \in 1..Len(net) /\ Mutates(net, i)
  <2> TAKE i \in 1..Len(new)
  <2>1. i \in 1..Len(net) \/ i = Len(net) + 1
    BY <1>1
  <2> QED
    BY <1>1, <2>1 DEF Mutates
<1>4. IsPlanned(new, n)
  BY <1>1, <1>2, <1>3, Zenon DEF History, IsPlanned
<1>5. IsOrdered(new)
  <2>1. \A i, j \in 1..Len(net) : Mutates(net, i) /\ Mutates(net, j) /\ i < j =>
          /\ <<new[i][2], new[i][3]>> # <<new[j][2], new[j][3]>>
          /\ new[i][2] # new[j][2] =>
                \E k \in 1..Len(new) : i < k /\ k < j /\ new[k] = Clean(new[i][2])
    BY <1>0, OrderKeeps DEF History, new
  <2> QED
    BY <1>3, <2>1, Zenon DEF IsOrdered
<1> QED
  BY <1>1, <1>4, <1>5 DEF History, new

(* The case the runner is at sends a packet it did not send before.         *)
LEMMA MutationKeeps ==
    ASSUME NEW net, NEW n \in 1..Cases, History(net, n), NEW p \in Wanted(n), Cases \in Nat,
           <<"mutation", n, p, TRUE>> \in Packet, ~SentOf(net, n, p)
    PROVE  History(net \o << <<"mutation", n, p, TRUE>> >>, n)
<1> DEFINE x == <<"mutation", n, p, TRUE>>
           new == net \o <<x>>
<1>0. net \in Seq(Packet)
  BY DEF History
<1>1. /\ new \in Seq(Packet) /\ Len(net) \in Nat /\ Len(new) = Len(net) + 1
      /\ \A i \in 1..Len(net) : i \in 1..Len(new) /\ new[i] = net[i]
      /\ new[Len(net) + 1] = x
  BY <1>0, SendIs
<1>2. /\ \A c : AllSent(net, c) => AllSent(new, c)
      /\ \A i \in 1..Len(net) : CleanAfter(net, i) => CleanAfter(new, i)
      /\ \A i \in 1..Len(net) : Mutates(new, i) <=> Mutates(net, i)
  BY <1>0, SendKeeps
<1>3. x[2] = n /\ x[3] = p /\ n \in Nat /\ x \in Packet
  OBVIOUS
<1> HIDE DEF x, new
<1>4. \A i \in 1..Len(new) : i \in 1..Len(net) \/ i = Len(net) + 1
  BY <1>1
<1>5. IsPlanned(new, n)
  <2> SUFFICES ASSUME NEW i \in 1..Len(new), Mutates(new, i)
               PROVE  /\ new[i][2] \in 1..Cases /\ new[i][2] <= n
                      /\ new[i][3] \in Wanted(new[i][2])
                      /\ new[i][2] < n => CleanAfter(new, i) /\ AllSent(new, new[i][2])
    BY DEF IsPlanned
  <2>1. CASE i \in 1..Len(net)
    BY <1>1, <1>2, <2>1, Zenon DEF History, IsPlanned
  <2>2. CASE i = Len(net) + 1
    BY <1>1, <1>3, <2>2
  <2> QED
    BY <1>4, <2>1, <2>2
<1>6. IsOrdered(new)
  <2> SUFFICES ASSUME NEW i \in 1..Len(new), NEW j \in 1..Len(new), Mutates(new, i),
                      Mutates(new, j), i < j
               PROVE  /\ <<new[i][2], new[i][3]>> # <<new[j][2], new[j][3]>>
                      /\ new[i][2] # new[j][2] =>
                            \E k \in 1..Len(new) : i < k /\ k < j /\ new[k] = Clean(new[i][2])
    BY DEF IsOrdered
  <2>1. i \in 1..Len(net)
    BY <1>1
  <2>2. CASE j \in 1..Len(net)
    <3>1. Mutates(net, i) /\ Mutates(net, j)
      BY <1>2, <2>1, <2>2
    <3> QED
      BY <1>0, <1>3, <2>1, <2>2, <3>1, OrderKeeps DEF History, new
  <2>3. CASE j = Len(net) + 1
    <3>1. Mutates(net, i) /\ new[i] = net[i] /\ new[j][2] = n /\ new[j][3] = p
      BY <1>1, <1>2, <1>3, <2>1, <2>3
    <3>2. ~(net[i][2] = n /\ net[i][3] = p)
      BY <2>1, <3>1 DEF SentOf
    <3>3. net[i][2] \in Nat /\ net[i][2] <= n
      <4>1. net[i][2] \in 1..Cases /\ net[i][2] <= n
        BY <2>1, <3>1, Zenon DEF History, IsPlanned
      <4>2. \A c \in 1..Cases : c \in Nat
        OBVIOUS
      <4> QED
        BY <4>1, <4>2, Zenon
    <3>4. ASSUME net[i][2] # n
          PROVE  \E k \in 1..Len(new) : i < k /\ k < j /\ new[k] = Clean(new[i][2])
      <4>1. net[i][2] < n
        BY <1>3, <3>3, <3>4
      <4>2. CleanAfter(net, i)
        BY <2>1, <3>1, <4>1 DEF History, IsPlanned
      <4>3. PICK k \in 1..Len(net) : k > i /\ net[k] = Clean(net[i][2])
        BY <4>2 DEF CleanAfter
      <4>4. k < j /\ k \in 1..Len(new) /\ new[k] = net[k]
        BY <1>1, <2>3, <4>3
      <4> QED
        BY <3>1, <4>3, <4>4
    <3> QED
      BY <3>1, <3>2, <3>4
  <2> QED
    BY <1>4, <2>2, <2>3
<1> QED
  BY <1>1, <1>5, <1>6 DEF History, new, x

(* The runner goes to the next case when this one was answered in full.     *)
LEMMA NextKeeps ==
    ASSUME NEW net, NEW n \in Nat, History(net, n),
           \A i \in 1..Len(net) : Mutates(net, i) /\ net[i][2] = n =>
               CleanAfter(net, i) /\ AllSent(net, n)
    PROVE  History(net, n + 1)
<1>1. ASSUME NEW i \in 1..Len(net), Mutates(net, i)
      PROVE  /\ net[i][2] \in 1..Cases /\ net[i][2] <= n + 1 /\ net[i][3] \in Wanted(net[i][2])
             /\ net[i][2] < n + 1 => CleanAfter(net, i) /\ AllSent(net, net[i][2])
  <2>1. /\ net[i][2] \in 1..Cases /\ net[i][2] <= n /\ net[i][3] \in Wanted(net[i][2])
        /\ net[i][2] < n => CleanAfter(net, i) /\ AllSent(net, net[i][2])
    BY <1>1 DEF History, IsPlanned
  <2>2. net[i][2] = n => CleanAfter(net, i) /\ AllSent(net, net[i][2])
    BY <1>1
  <2>3. \A c \in 1..Cases : c <= n => c <= n + 1 /\ (c < n \/ c = n)
    OBVIOUS
  <2> QED
    BY <2>1, <2>2, <2>3, Zenon
<1> QED
  BY <1>1 DEF History, IsPlanned

(* A thread that injects has sent the packets above the one it is at.       *)
Injects(net, w) ==
    w.action = "inject" =>
        /\ w.left \in 0..Torture!Selected[w.case]
        /\ \A p \in Wanted(w.case) : SentOf(net, w.case, p) <=> p > w.left
        /\ w.reply \in {"ok", "not-ok"} => w.left = 0
Runs(net, w, n) ==
    w \in Thread /\ w.action \in Stage /\ w.case = n /\ n \in 1..Cases /\ Injects(net, w)

TortureType ==
    /\ chosen \in Seq(Nat) /\ index \in Nat \ {0}
    /\ failures \in 0..MaxFailures + 1 /\ cases \in Nat /\ stop \in BOOLEAN
    /\ pc \in {"start", "gate", "over"} \cup Stage
    /\ result \in {"none", "RunnerError", "stopped", "completed"}
    /\ pc # "over" => cases = index - 1
    /\ pc \in {"start", "establish", "inject"} => failures <= MaxFailures
    /\ pc \in {"establish", "inject"} => failures < MaxFailures
    /\ pc = "classify" => failures <= MaxFailures

(* The runner waits for one thread, and leaves one behind at the most.      *)
ThreadInv ==
    /\ pc \in Stage => worker.action = pc /\ Runs(network, worker, index)
    /\ pc \notin Stage => worker = Torture!Idle
    /\ stray # {} => /\ pc = "over" /\ result = "RunnerError"
                     /\ \E w : stray = {w} /\ Runs(network, w, index)
    /\ result = "none" <=> pc # "over"
    /\ network # <<>> \/ pc \in Stage \cup {"gate"} \/ stray # {} =>
          Cardinality(Torture!Planned) <= MaxPackets

Answered(net, i, n) == AllSent(net, net[i][2]) /\ CanaryAfter(net, i) /\ net[i][2] <= n
SentInv ==
    /\ History(network, index)
    /\ pc = "start" => network = <<>>
    /\ pc \in {"gate", "establish"} =>
          \A i \in 1..Len(network) : Mutates(network, i) => network[i][2] # index
    /\ pc \in {"classify", "recovery"} => AllSent(network, index)
    /\ pc = "recovery" =>
          \A i \in 1..Len(network) : Mutates(network, i) /\ network[i][2] = index =>
              /\ worker.reply = "ok" => CleanAfter(network, i)
              /\ worker.reply = "not-ok" => CanaryAfter(network, i)
    /\ result \in {"stopped", "completed"} =>
          \A i \in 1..Len(network) : Mutates(network, i) => Answered(network, i, cases)

TortureInv == TortureType /\ ThreadInv /\ SentInv

LEMMA IdleIs ==
    /\ Torture!Idle \in Thread /\ Torture!Idle.action = "none"
BY DEF Torture!Idle, Thread, Answer

LEMMA BeginIs ==
    ASSUME TortureType, NEW a \in Stage, index \in 1..Cases, Torture!Begin(a)
    PROVE  /\ worker' \in Thread /\ worker'.action = a /\ worker'.case = index
           /\ worker'.reply = "none"
           /\ a = "inject" => worker'.left = Torture!Selected[index]
<1> DEFINE n == IF a = "inject" THEN chosen[index] ELSE 0
<1>1. n \in Nat /\ (a = "inject" => n = Torture!Selected[index]) /\ index \in Nat
  BY SelectedAre DEF TortureType
<1>2. worker' = [Torture!Idle EXCEPT !.action = a, !.case = index, !.left = n]
  BY DEF Torture!Begin
<1> HIDE DEF n
<1>3. worker' = [action |-> a, case |-> index, left |-> n, cancel |-> FALSE, reply |-> "none"]
  BY <1>2 DEF Torture!Idle
<1> QED
  BY <1>1, <1>3 DEF Thread, Answer

(* What a thread may do: send the packet it is at, or end with a reply.     *)
LEMMA WorkerIs ==
    ASSUME NEW w \in Thread, NEW s \in Torture!Worker(w)
    PROVE  /\ w.action \in Stage /\ w.reply = "none"
           /\ \/ /\ w.action = "inject" /\ w.left > 0
                 /\ s[1] = [w EXCEPT !.left = w.left - 1]
                 /\ s[2] = << <<"mutation", w.case, w.left, TRUE>> >>
              \/ \E r \in Answer \ {"none"} :
                    /\ s[1] = [w EXCEPT !.reply = r]
                    /\ w.action = "inject" /\ r \in {"ok", "not-ok"} => w.left = 0
                    /\ s[2] = IF w.action = "recovery"
                              THEN << <<"canary", w.case, 0, r = "ok">> >> ELSE <<>>
<1>1. w.action # "none" /\ w.reply = "none" /\ w.action \in Stage
  BY DEF Torture!Worker, Thread
<1>2. \/ s \in Torture!Packet(w)
      \/ s \in Torture!Success(w)
      \/ \E r \in Torture!Failures(w) : s = <<[w EXCEPT !.reply = r], Torture!Canary(w, FALSE)>>
  BY <1>1 DEF Torture!Worker
<1>3. CASE s \in Torture!Packet(w)
  <2>1. /\ w.action = "inject" /\ w.left > 0
        /\ s = <<[w EXCEPT !.left = w.left - 1], << <<"mutation", w.case, w.left, TRUE>> >> >>
    BY <1>3, Zenon DEF Torture!Packet
  <2>2. /\ s[1] = [w EXCEPT !.left = w.left - 1]
        /\ s[2] = << <<"mutation", w.case, w.left, TRUE>> >>
    BY <2>1, Zenon
  <2> QED
    BY <1>1, <2>1, <2>2, Zenon
<1>4. CASE s \in Torture!Success(w)
  <2>1. /\ w.action = "inject" => w.left = 0
        /\ s = <<[w EXCEPT !.reply = "ok"], Torture!Canary(w, TRUE)>>
    BY <1>4, Zenon DEF Torture!Success
  <2>2. /\ s[1] = [w EXCEPT !.reply = "ok"] /\ s[2] = Torture!Canary(w, TRUE)
    BY <2>1, Zenon
  <2> QED
    BY <1>1, <2>1, <2>2 DEF Torture!Canary, Answer
<1>5. ASSUME NEW r \in Torture!Failures(w),
             s = <<[w EXCEPT !.reply = r], Torture!Canary(w, FALSE)>>
      PROVE  /\ r \in Answer \ {"none"} /\ r # "ok"
             /\ w.action = "inject" /\ r \in {"ok", "not-ok"} => w.left = 0
             /\ s[1] = [w EXCEPT !.reply = r] /\ s[2] = Torture!Canary(w, FALSE)
  BY <1>5, Zenon DEF Torture!Failures, Answer
<1> QED
  BY <1>1, <1>2, <1>3, <1>4, <1>5 DEF Torture!Canary

(* One step of a thread that the runner started at case n.                  *)
LEMMA ThreadKeeps ==
    ASSUME chosen \in Seq(Nat), NEW net, NEW n \in 1..Cases, History(net, n),
           NEW w, Runs(net, w, n), NEW s \in Torture!Worker(w)
    PROVE  LET new == net \o s[2]
           IN  /\ History(new, n) /\ Runs(new, s[1], n) /\ s[1].action = w.action
               /\ \A c : AllSent(net, c) => AllSent(new, c)
               /\ w.action # "inject" => \A i \in 1..Len(new) : Mutates(new, i) =>
                     i \in 1..Len(net) /\ Mutates(net, i) /\ new[i] = net[i]
               /\ w.action = "recovery" =>
                     \A i \in 1..Len(new) : Mutates(new, i) /\ new[i][2] = n =>
                        /\ s[1].reply = "ok" => CleanAfter(new, i)
                        /\ s[1].reply = "not-ok" => CanaryAfter(new, i)
<1> DEFINE new == net \o s[2]
<1>1. /\ Cases \in Nat /\ n \in Nat /\ net \in Seq(Packet)
      /\ \A c \in 1..Cases : Torture!Selected[c] \in Nat
  BY SelectedAre DEF History
<1>2. /\ w \in Thread /\ w.action \in Stage /\ w.case = n /\ Injects(net, w)
      /\ w.left \in Nat /\ w.reply = "none"
  BY WorkerIs DEF Runs, Thread
<1>3. CASE w.action = "inject" /\ w.left > 0 /\ s[1] = [w EXCEPT !.left = w.left - 1]
           /\ s[2] = << <<"mutation", w.case, w.left, TRUE>> >>
  <2> DEFINE p == w.left
             x == <<"mutation", n, p, TRUE>>
  <2>1. /\ p \in Wanted(n) /\ ~SentOf(net, n, p) /\ x \in Packet
        /\ \A q \in Wanted(n) : SentOf(net, n, q) <=> q > p
    <3>1. /\ p \in 0..Torture!Selected[n]
          /\ \A q \in Wanted(n) : SentOf(net, n, q) <=> q > p
      BY <1>2, <1>3, Zenon DEF Injects
    <3>2. p \in Wanted(n)
      BY <1>1, <1>2, <1>3, <3>1 DEF Wanted
    <3>3. ~SentOf(net, n, p)
      <4>1. ~(p > p)
        BY <1>2
      <4> QED
        BY <3>1, <3>2, <4>1, Zenon
    <3>4. x \in Packet
      BY <1>1, <1>2 DEF Packet
    <3> QED
      BY <3>1, <3>2, <3>3, <3>4, Zenon
  <2>2. new = net \o <<x>>
    BY <1>2, <1>3
  <2>3. History(new, n)
    BY <1>1, <2>1, <2>2, MutationKeeps
  <2>4. x[1] = "mutation" /\ x[2] = n /\ x[3] = p
    OBVIOUS
  <2> HIDE DEF x
  <2>5. /\ \A c : AllSent(net, c) => AllSent(new, c)
        /\ \A c, q : SentOf(net, c, q) => SentOf(new, c, q)
    BY <1>1, <2>1, <2>2, SendKeeps
  <2>6. /\ Len(net) \in Nat /\ Len(new) = Len(net) + 1 /\ new[Len(net) + 1] = x
        /\ \A i \in 1..Len(net) : i \in 1..Len(new) /\ new[i] = net[i]
    BY <1>1, <2>1, <2>2, SendIs
  <2> HIDE DEF new
  <2>7. \A q \in Wanted(n) : SentOf(new, n, q) <=> q > p - 1
    <3> TAKE q \in Wanted(n)
    <3>1. q \in Nat
      BY <1>1 DEF Wanted
    <3>2. SentOf(new, n, p)
      <4>1. Len(net) + 1 \in 1..Len(new)
        BY <2>6
      <4> QED
        BY <2>6, <2>4, <4>1 DEF SentOf, Mutates
    <3>3. SentOf(new, n, q) => SentOf(net, n, q) \/ q = p
      <4> SUFFICES ASSUME NEW i \in 1..Len(new), Mutates(new, i), new[i][2] = n, new[i][3] = q
                   PROVE  SentOf(net, n, q) \/ q = p
        BY DEF SentOf
      <4>1. i \in 1..Len(net) \/ i = Len(net) + 1
        BY <2>6
      <4>2. CASE i \in 1..Len(net)
        BY <2>6, <4>2 DEF SentOf, Mutates
      <4>3. CASE i = Len(net) + 1
        BY <2>6, <2>4, <4>3
      <4> QED
        BY <4>1, <4>2, <4>3
    <3> HIDE DEF p
    <3>4. q > p - 1 <=> q > p \/ q = p
      BY <1>2, <3>1 DEF p
    <3> QED
      BY <2>1, <2>5, <3>2, <3>3, <3>4
  <2>8. s[1] \in Thread /\ s[1].left = p - 1 /\ s[1].action = "inject" /\ s[1].case = n
        /\ s[1].reply = "none"
    BY <1>2, <1>3, SMTT(30) DEF Thread
  <2>9. p - 1 \in 0..Torture!Selected[n]
    BY <1>1, <1>3, <2>1 DEF Wanted
  <2>10. Runs(new, s[1], n)
    BY <2>7, <2>8, <2>9 DEF Runs, Injects, Stage
  <2> QED
    BY <1>3, <2>3, <2>5, <2>8, <2>10 DEF new
<1>4. ASSUME NEW r \in Answer \ {"none"},
             s[1] = [w EXCEPT !.reply = r],
             w.action = "inject" /\ r \in {"ok", "not-ok"} => w.left = 0,
             s[2] = IF w.action = "recovery"
                    THEN << <<"canary", w.case, 0, r = "ok">> >> ELSE <<>>
      PROVE  /\ History(new, n) /\ Runs(new, s[1], n) /\ s[1].action = w.action
             /\ \A c : AllSent(net, c) => AllSent(new, c)
             /\ w.action # "inject" => \A i \in 1..Len(new) : Mutates(new, i) =>
                   i \in 1..Len(net) /\ Mutates(net, i) /\ new[i] = net[i]
             /\ w.action = "recovery" =>
                   \A i \in 1..Len(new) : Mutates(new, i) /\ new[i][2] = n =>
                      /\ s[1].reply = "ok" => CleanAfter(new, i)
                      /\ s[1].reply = "not-ok" => CanaryAfter(new, i)
  <2>1. /\ s[1] \in Thread /\ s[1].left = w.left /\ s[1].action = w.action /\ s[1].case = n
        /\ s[1].reply = r
    BY <1>2, <1>4 DEF Thread
  <2>2. CASE w.action # "recovery"
    <3>1. new = net
      BY <1>1, <1>4, <2>2
    <3> HIDE DEF new
    <3>2. Runs(net, s[1], n)
      BY <1>2, <1>4, <2>1 DEF Runs, Injects
    <3> QED
      BY <2>1, <2>2, <3>1, <3>2
  <2>3. CASE w.action = "recovery"
    <3> DEFINE ok == r = "ok"
               x == <<"canary", n, 0, ok>>
    <3>1. new = net \o <<x>>
      BY <1>2, <1>4, <2>3
    <3>2. x \in Packet /\ x[1] = "canary" /\ x[2] = n
      <4>1. ok \in BOOLEAN /\ 0 \in Nat
        OBVIOUS
      <4> HIDE DEF ok
      <4> QED
        BY <1>1, <4>1 DEF Packet
    <3>3. r = "ok" => x = Clean(n)
      BY DEF Clean
    <3> HIDE DEF x
    <3>4. History(new, n)
      BY <1>1, <3>1, <3>2, CanaryKeeps
    <3>5. \A c : AllSent(net, c) => AllSent(new, c)
      BY <1>1, <3>1, <3>2, SendKeeps
    <3>6. /\ Len(net) \in Nat /\ Len(new) = Len(net) + 1 /\ new[Len(net) + 1] = x
          /\ \A i \in 1..Len(net) : i \in 1..Len(new) /\ new[i] = net[i]
      BY <1>1, <3>1, <3>2, SendIs
    <3> HIDE DEF new
    <3>7. \A i \in 1..Len(new) : Mutates(new, i) =>
                   i \in 1..Len(net) /\ Mutates(net, i) /\ new[i] = net[i]
      <4> SUFFICES ASSUME NEW i \in 1..Len(new), Mutates(new, i)
                   PROVE  i \in 1..Len(net) /\ Mutates(net, i) /\ new[i] = net[i]
        OBVIOUS
      <4>1. i \in 1..Len(net) \/ i = Len(net) + 1
        BY <3>6
      <4> QED
        BY <3>2, <3>6, <4>1 DEF Mutates
    <3>8. ASSUME NEW i \in 1..Len(new), Mutates(new, i), new[i][2] = n
          PROVE  /\ s[1].reply = "ok" => CleanAfter(new, i)
                 /\ s[1].reply = "not-ok" => CanaryAfter(new, i)
      <4>1. Len(net) + 1 \in 1..Len(new) /\ Len(net) + 1 > i
        BY <3>6, <3>7, <3>8
      <4>2. CanaryAfter(new, i)
        BY <3>2, <3>6, <3>8, <4>1 DEF CanaryAfter
      <4>3. r = "ok" => CleanAfter(new, i)
        BY <3>3, <3>6, <3>8, <4>1 DEF CleanAfter
      <4> QED
        BY <2>1, <4>2, <4>3
    <3>9. Runs(new, s[1], n)
      BY <1>2, <2>1, <2>3 DEF Runs, Injects
    <3> QED
      BY <2>1, <3>4, <3>5, <3>7, <3>8, <3>9
  <2> QED
    BY <2>2, <2>3
<1> QED
  <2>1. \/ /\ w.action = "inject" /\ w.left > 0
           /\ s[1] = [w EXCEPT !.left = w.left - 1]
           /\ s[2] = << <<"mutation", w.case, w.left, TRUE>> >>
        \/ \E r \in Answer \ {"none"} :
              /\ s[1] = [w EXCEPT !.reply = r]
              /\ w.action = "inject" /\ r \in {"ok", "not-ok"} => w.left = 0
              /\ s[2] = IF w.action = "recovery"
                        THEN << <<"canary", w.case, 0, r = "ok">> >> ELSE <<>>
    BY <1>2, WorkerIs
  <2> HIDE DEF new
  <2>2. CASE /\ w.action = "inject" /\ w.left > 0
             /\ s[1] = [w EXCEPT !.left = w.left - 1]
             /\ s[2] = << <<"mutation", w.case, w.left, TRUE>> >>
    BY <1>3, <2>2, Zenon DEF new
  <2> QED
    BY <1>4, <2>1, <2>2, Zenon DEF new

LEMMA ActionRunsKeeps ==
    ASSUME TortureInv, Torture!ActionRuns
    PROVE  TortureInv'
<1>1. PICK s \in Torture!Worker(worker) : worker' = s[1] /\ network' = network \o s[2]
  BY DEF Torture!ActionRuns
<1>2. UNCHANGED <<chosen, pc, index, failures, cases, result, stray, stop>>
  BY DEF Torture!ActionRuns, Torture!run
<1>3. pc \in Stage /\ worker.action = pc /\ Runs(network, worker, index)
  <2>1. worker # Torture!Idle
    BY <1>1, IdleIs DEF Torture!Worker
  <2> QED
    BY <2>1 DEF TortureInv, ThreadInv, TortureType
<1>4. chosen \in Seq(Nat) /\ index \in 1..Cases /\ History(network, index)
  BY <1>3 DEF TortureInv, TortureType, SentInv, Runs
<1>5. TortureType'
  BY <1>2 DEF TortureInv, TortureType
<1> DEFINE new == network \o s[2]
<1>6. /\ History(new, index) /\ Runs(new, s[1], index) /\ s[1].action = worker.action
      /\ \A c : AllSent(network, c) => AllSent(new, c)
      /\ worker.action # "inject" => \A i \in 1..Len(new) : Mutates(new, i) =>
            i \in 1..Len(network) /\ Mutates(network, i) /\ new[i] = network[i]
      /\ worker.action = "recovery" =>
            \A i \in 1..Len(new) : Mutates(new, i) /\ new[i][2] = index =>
               /\ s[1].reply = "ok" => CleanAfter(new, i)
               /\ s[1].reply = "not-ok" => CanaryAfter(new, i)
  BY <1>1, <1>3, <1>4, ThreadKeeps
<1>7. network' = new
  BY <1>1
<1> HIDE DEF new
<1>8. pc # "over" /\ result = "none" /\ stray = {}
  BY <1>3 DEF TortureInv, ThreadInv, Stage
<1>9. ThreadInv'
  <2>1. (Torture!Planned)' = Torture!Planned
    BY <1>2 DEF Torture!Planned, Torture!Selected
  <2>2. Cardinality(Torture!Planned) <= MaxPackets
    BY <1>3 DEF TortureInv, ThreadInv
  <2>3. Runs(network, worker, index)' = Runs(new, s[1], index)
    BY <1>1, <1>2, <1>7 DEF Runs, Injects, Wanted, SentOf, Mutates, Cases, Torture!Selected
  <2> QED
    BY <1>1, <1>2, <1>3, <1>6, <1>8, <2>1, <2>2, <2>3 DEF ThreadInv
<1>10. SentInv'
  <2>1. History(network, index)' = History(new, index)
    BY <1>2, <1>7 DEF History, IsPlanned, IsOrdered, Cases, Wanted, Torture!Selected, AllSent,
                      SentOf, CleanAfter, Mutates
  <2>2. AllSent(network, index)' = AllSent(new, index)
    BY <1>2, <1>7 DEF AllSent, SentOf, Wanted, Torture!Selected, Mutates
  <2>3. pc = "establish" =>
           \A i \in 1..Len(new) : Mutates(new, i) => new[i][2] # index
    BY <1>3, <1>6 DEF TortureInv, SentInv
  <2>4. pc \in {"classify", "recovery"} => AllSent(new, index)
    BY <1>6 DEF TortureInv, SentInv
  <2>5. pc # "start" /\ pc # "gate"
    BY <1>3 DEF Stage
  <2>6. pc = "recovery" =>
           \A i \in 1..Len(new) : Mutates(new, i) /\ new[i][2] = index =>
               /\ s[1].reply = "ok" => CleanAfter(new, i)
               /\ s[1].reply = "not-ok" => CanaryAfter(new, i)
    BY <1>3, <1>6
  <2>7. ~(result \in {"stopped", "completed"})
    BY <1>8
  <2> QED
    BY <1>1, <1>2, <1>6, <1>7, <2>1, <2>2, <2>3, <2>4, <2>5, <2>6, <2>7 DEF SentInv
<1> QED
  BY <1>5, <1>9, <1>10 DEF TortureInv

LEMMA StrayRunsKeeps ==
    ASSUME TortureInv, Torture!StrayRuns
    PROVE  TortureInv'
<1>1. PICK w \in stray : \E s \in Torture!Worker(w) :
          stray' = (stray \ {w}) \cup {s[1]} /\ network' = network \o s[2]
  BY DEF Torture!StrayRuns
<1>2. PICK s \in Torture!Worker(w) :
          stray' = (stray \ {w}) \cup {s[1]} /\ network' = network \o s[2]
  BY <1>1
<1>3. UNCHANGED <<chosen, pc, index, failures, cases, result, worker, stop>>
  BY DEF Torture!StrayRuns, Torture!run
<1>4. /\ pc = "over" /\ result = "RunnerError" /\ stray = {w} /\ Runs(network, w, index)
      /\ pc \notin Stage /\ Cardinality(Torture!Planned) <= MaxPackets
  BY <1>1 DEF TortureInv, ThreadInv, Stage
<1>5. chosen \in Seq(Nat) /\ index \in 1..Cases /\ History(network, index)
  BY <1>4 DEF TortureInv, TortureType, SentInv, Runs
<1>6. TortureType'
  BY <1>3 DEF TortureInv, TortureType
<1> DEFINE new == network \o s[2]
<1>7. History(new, index) /\ Runs(new, s[1], index)
  BY <1>2, <1>4, <1>5, ThreadKeeps
<1>8. network' = new /\ stray' = {s[1]}
  BY <1>2, <1>4
<1> HIDE DEF new
<1>9. ThreadInv'
  <2>1. (Torture!Planned)' = Torture!Planned
    BY <1>3 DEF Torture!Planned, Torture!Selected
  <2>2. \E x : stray' = {x} /\ Runs(network, x, index)'
    <3>1. \A x : Runs(network, x, index)' = Runs(new, x, index)
      BY <1>3, <1>8 DEF Runs, Injects, Wanted, SentOf, Mutates, Cases, Torture!Selected
    <3> QED
      BY <1>7, <1>8, <3>1, Zenon
  <2>3. worker = Torture!Idle /\ (Torture!Idle)' = Torture!Idle
    BY <1>4 DEF TortureInv, ThreadInv, Torture!Idle
  <2> QED
    BY <1>3, <1>4, <2>1, <2>2, <2>3 DEF ThreadInv
<1>10. SentInv'
  <2>1. History(network, index)' = History(new, index)
    BY <1>3, <1>8 DEF History, IsPlanned, IsOrdered, Cases, Wanted, Torture!Selected, AllSent,
                      SentOf, CleanAfter, Mutates
  <2> QED
    BY <1>3, <1>4, <1>7, <2>1 DEF SentInv, Stage
<1> QED
  BY <1>6, <1>9, <1>10 DEF TortureInv

(* What a step of the runner does not change: it sends nothing itself.      *)
LEMMA RunnerSends ==
    ASSUME UNCHANGED <<chosen, network>>
    PROVE  /\ Cases' = Cases /\ (Torture!Planned)' = Torture!Planned
           /\ (Torture!Selected)' = Torture!Selected /\ (Torture!Idle)' = Torture!Idle
           /\ History(network, index)' = History(network, index')
           /\ AllSent(network, index)' = AllSent(network, index')
           /\ \A x : Runs(network, x, index)' = Runs(network, x, index')
           /\ \A i : Answered(network, i, cases)' = Answered(network, i, cases')
<1>1. (Torture!Selected)' = Torture!Selected /\ Cases' = Cases
      /\ (Torture!Idle)' = Torture!Idle
  BY DEF Torture!Selected, Cases, Torture!Idle
<1>2. (Torture!Planned)' = Torture!Planned
  BY <1>1 DEF Torture!Planned
<1>3. History(network, index)' = History(network, index')
  BY <1>1 DEF History, IsPlanned, IsOrdered, Wanted, AllSent, SentOf, CleanAfter, Mutates
<1>4. AllSent(network, index)' = AllSent(network, index')
  BY <1>1 DEF AllSent, Wanted, SentOf, Mutates
<1>5. \A x : Runs(network, x, index)' = Runs(network, x, index')
  BY <1>1 DEF Runs, Injects, Wanted, SentOf, Mutates
<1>6. \A i : Answered(network, i, cases)' = Answered(network, i, cases')
  BY <1>1 DEF Answered, AllSent, Wanted, SentOf, Mutates, CanaryAfter
<1> QED
  BY <1>1, <1>2, <1>3, <1>4, <1>5, <1>6

LEMMA StartKeeps ==
    ASSUME TortureInv, Torture!Start
    PROVE  TortureInv'
<1>1. /\ pc = "start" /\ network = <<>> /\ worker = Torture!Idle /\ stray = {}
      /\ UNCHANGED <<chosen, index, failures, cases, worker, stray, stop, network>>
  BY DEF Torture!Start, TortureInv, ThreadInv, SentInv, Stage
<1>2. \/ pc' = "over" /\ result' = "RunnerError"
      \/ /\ ~(Cardinality(Torture!Planned) > MaxPackets)
         /\ pc' = "gate" /\ result' = result
  BY SameCount, Zenon DEF Torture!Start, Torture!Ends
<1>3. Cardinality(Torture!Planned) \in Nat /\ MaxPackets \in Nat
  BY PlannedAre, FS_CardinalityType, TortureAssumption DEF TortureInv, TortureType
<1>4. TortureType'
  BY <1>1, <1>2 DEF TortureInv, TortureType, ThreadInv
<1>5. ThreadInv'
  BY <1>1, <1>2, <1>3, RunnerSends DEF TortureInv, ThreadInv, Stage
<1>6. SentInv'
  BY <1>1, <1>2, RunnerSends DEF TortureInv, SentInv, ThreadInv, Stage
<1> QED
  BY <1>4, <1>5, <1>6 DEF TortureInv

(* The cases before the one the runner is at were answered.                 *)
LEMMA BeforeAnswered ==
    ASSUME TortureInv, pc \in {"gate", "establish"}
    PROVE  \A i \in 1..Len(network) : Mutates(network, i) => Answered(network, i, cases)
<1> SUFFICES ASSUME NEW i \in 1..Len(network), Mutates(network, i)
             PROVE  Answered(network, i, cases)
  OBVIOUS
<1>1. index \in Nat \ {0} /\ cases = index - 1 /\ network[i][2] # index
  BY DEF TortureInv, TortureType, SentInv
<1>2. /\ network[i][2] \in 1..Cases /\ network[i][2] <= index
      /\ network[i][2] < index => CleanAfter(network, i) /\ AllSent(network, network[i][2])
  BY Zenon DEF TortureInv, SentInv, History, IsPlanned
<1>3. \A c \in 1..Cases, n \in Nat : c # n /\ c <= n => c < n /\ c <= n - 1
  BY SelectedAre DEF TortureInv, TortureType
<1>4. CleanAfter(network, i) => CanaryAfter(network, i)
  <2>1. \A c : Clean(c)[1] = "canary" /\ Clean(c)[2] = c
    BY DEF Clean
  <2> QED
    BY <2>1 DEF CleanAfter, CanaryAfter
<1> QED
  BY <1>1, <1>2, <1>3, <1>4, Zenon DEF Answered

LEMMA AdmitKeeps ==
    ASSUME TortureInv, Torture!Admit
    PROVE  TortureInv'
<1>1. /\ pc = "gate" /\ index \in 1..Cases /\ worker = Torture!Idle /\ stray = {}
      /\ result = "none" /\ Cardinality(Torture!Planned) <= MaxPackets
      /\ UNCHANGED <<chosen, index, failures, cases, stray, stop, network>>
  BY SelectedAre DEF Torture!Admit, TortureInv, TortureType, ThreadInv, Stage, Cases
<1>2. CASE pc' = "over" /\ result' = "stopped" /\ worker' = worker
  <2>1. TortureType'
    BY <1>1, <1>2 DEF TortureInv, TortureType
  <2>2. ThreadInv'
    BY <1>1, <1>2, RunnerSends DEF TortureInv, ThreadInv, Stage
  <2>3. SentInv'
    BY <1>1, <1>2, RunnerSends, BeforeAnswered DEF TortureInv, SentInv
  <2> QED
    BY <2>1, <2>2, <2>3 DEF TortureInv
<1>3. CASE /\ failures < MaxFailures /\ pc' = "establish" /\ result' = result
           /\ worker' = [Torture!Idle EXCEPT !.action = "establish", !.case = index]
  <2>1. TortureType'
    BY <1>1, <1>3, TortureAssumption DEF TortureInv, TortureType, Stage
  <2>2. Runs(network, worker', index)
    <3>1. worker' = [action |-> "establish", case |-> index, left |-> 0, cancel |-> FALSE,
                     reply |-> "none"]
      BY <1>3 DEF Torture!Idle
    <3> QED
      BY <1>1, <3>1 DEF Runs, Injects, Thread, Answer, Stage, TortureInv, TortureType
  <2>3. worker'.action = "establish"
    BY <1>3 DEF Torture!Idle
  <2>4. ThreadInv'
    BY <1>1, <1>3, <2>2, <2>3, RunnerSends DEF TortureInv, ThreadInv, Stage
  <2>5. SentInv'
    BY <1>1, <1>3, RunnerSends DEF TortureInv, SentInv
  <2> QED
    BY <2>1, <2>4, <2>5 DEF TortureInv
<1> QED
  BY <1>2, <1>3 DEF Torture!Admit, Torture!Halt, Torture!Ends

LEMMA CompleteKeeps ==
    ASSUME TortureInv, Torture!Complete
    PROVE  TortureInv'
<1>1. /\ pc = "gate" /\ pc' = "over" /\ result' = "completed" /\ worker = Torture!Idle
      /\ stray = {} /\ Cardinality(Torture!Planned) <= MaxPackets
      /\ UNCHANGED <<chosen, index, failures, cases, worker, stray, stop, network>>
  BY DEF Torture!Complete, Torture!Ends, TortureInv, ThreadInv, Stage
<1>2. TortureType'
  BY <1>1 DEF TortureInv, TortureType
<1>3. ThreadInv'
  BY <1>1, RunnerSends DEF TortureInv, ThreadInv, Stage
<1>4. SentInv'
  BY <1>1, RunnerSends, BeforeAnswered DEF TortureInv, SentInv
<1> QED
  BY <1>2, <1>3, <1>4 DEF TortureInv

LEMMA RaiseKeeps ==
    ASSUME TortureInv, Torture!Raise
    PROVE  TortureInv'
<1>1. /\ pc = worker.action /\ pc' = "over" /\ result' = "RunnerError"
      /\ worker' = Torture!Idle /\ worker # Torture!Idle
      /\ UNCHANGED <<chosen, index, failures, cases, stray, stop, network>>
  BY DEF Torture!Raise, Torture!Ends, Torture!Idle
<1>2. pc \in Stage /\ stray = {} /\ Cardinality(Torture!Planned) <= MaxPackets
  BY <1>1 DEF TortureInv, ThreadInv, Stage
<1>3. TortureType'
  BY <1>1 DEF TortureInv, TortureType
<1>4. ThreadInv'
  BY <1>1, <1>2, RunnerSends DEF TortureInv, ThreadInv, Stage
<1>5. SentInv'
  BY <1>1, RunnerSends DEF TortureInv, SentInv
<1> QED
  BY <1>3, <1>4, <1>5 DEF TortureInv

LEMMA TimeOutKeeps ==
    ASSUME TortureInv, Torture!TimeOut
    PROVE  TortureInv'
<1> DEFINE w == [worker EXCEPT !.cancel = TRUE]
<1>1. /\ worker.action # "none" /\ pc' = "over" /\ result' = "RunnerError"
      /\ worker' = Torture!Idle /\ worker # Torture!Idle /\ stray' = stray \cup {w}
      /\ UNCHANGED <<chosen, index, failures, cases, stop, network>>
  BY DEF Torture!TimeOut, Torture!Ends, Torture!Idle
<1>2. /\ pc \in Stage /\ stray = {} /\ Cardinality(Torture!Planned) <= MaxPackets
      /\ Runs(network, worker, index)
  BY <1>1 DEF TortureInv, ThreadInv, TortureType, Stage
<1>3. Runs(network, w, index)
  <2>1. /\ w \in Thread /\ w.action = worker.action /\ w.case = worker.case
        /\ w.left = worker.left /\ w.reply = worker.reply
    BY <1>2 DEF Runs, Thread
  <2> HIDE DEF w
  <2> QED
    BY <1>2, <2>1 DEF Runs, Injects
<1> HIDE DEF w
<1>4. TortureType'
  BY <1>1 DEF TortureInv, TortureType
<1>5. ThreadInv'
  <2>1. \E x : stray' = {x} /\ Runs(network, x, index)'
    BY <1>1, <1>2, <1>3, RunnerSends
  <2> QED
    BY <1>1, <1>2, <2>1, RunnerSends DEF TortureInv, ThreadInv, Stage
<1>6. SentInv'
  BY <1>1, RunnerSends DEF TortureInv, SentInv
<1> QED
  BY <1>4, <1>5, <1>6 DEF TortureInv

LEMMA OperatorStopsKeeps ==
    ASSUME TortureInv, Torture!OperatorStops
    PROVE  TortureInv'
<1>1. /\ stop' = TRUE
      /\ UNCHANGED <<chosen, pc, index, failures, cases, result, worker, stray, network>>
  BY DEF Torture!OperatorStops, Torture!run
<1>2. TortureType'
  BY <1>1 DEF TortureInv, TortureType
<1>3. ThreadInv'
  BY <1>1, RunnerSends DEF TortureInv, ThreadInv, Stage
<1>4. SentInv'
  BY <1>1, RunnerSends DEF TortureInv, SentInv
<1> QED
  BY <1>2, <1>3, <1>4 DEF TortureInv

LEMMA AfterIs ==
    /\ Torture!After("establish") = "inject" /\ Torture!After("inject") = "classify"
    /\ Torture!After("classify") = "recovery"
<1>1. /\ Torture!Actions[1] = "establish" /\ Torture!Actions[2] = "inject"
      /\ Torture!Actions[3] = "classify" /\ Torture!Actions[4] = "recovery"
  BY DEF Torture!Actions
<1>2. \A i \in 1..3 : i = 1 \/ i = 2 \/ i = 3
  OBVIOUS
<1>3. (CHOOSE i \in 1..3 : Torture!Actions[i] = "establish") = 1
  <2>1. 1 \in 1..3 /\ \A i \in 1..3 : Torture!Actions[i] = "establish" => i = 1
    BY <1>1, <1>2
  <2> QED
    BY <1>1, <2>1
<1>4. (CHOOSE i \in 1..3 : Torture!Actions[i] = "inject") = 2
  <2>1. 2 \in 1..3 /\ \A i \in 1..3 : Torture!Actions[i] = "inject" => i = 2
    BY <1>1, <1>2
  <2> QED
    BY <1>1, <2>1
<1>5. (CHOOSE i \in 1..3 : Torture!Actions[i] = "classify") = 3
  <2>1. 3 \in 1..3 /\ \A i \in 1..3 : Torture!Actions[i] = "classify" => i = 3
    BY <1>1, <1>2
  <2> QED
    BY <1>1, <2>1
<1> QED
  BY <1>1, <1>3, <1>4, <1>5 DEF Torture!After

LEMMA ReplyKeeps ==
    ASSUME TortureInv, Torture!Reply
    PROVE  TortureInv'
<1>1. /\ pc = worker.action /\ pc \in {"establish", "inject", "classify"}
      /\ worker.reply \in {"ok", "not-ok"}
      /\ UNCHANGED <<chosen, index, cases, stray, stop, network>>
  BY DEF Torture!Reply
<1>2. /\ pc \in Stage /\ stray = {} /\ result = "none" /\ index \in 1..Cases
      /\ Runs(network, worker, index) /\ Cardinality(Torture!Planned) <= MaxPackets
  BY <1>1 DEF TortureInv, ThreadInv, Stage, Runs
<1>3. CASE pc = "establish" /\ worker.reply # "ok"
  <2>1. /\ pc' = "over" /\ result' = "stopped" /\ worker' = Torture!Idle
        /\ UNCHANGED failures
    BY <1>3, Zenon DEF Torture!Reply, Torture!Ends
  <2>2. TortureType'
    BY <1>1, <2>1 DEF TortureInv, TortureType
  <2>3. ThreadInv'
    BY <1>1, <1>2, <2>1, RunnerSends DEF TortureInv, ThreadInv, Stage
  <2>4. SentInv'
    BY <1>1, <1>3, <2>1, RunnerSends, BeforeAnswered DEF TortureInv, SentInv
  <2> QED
    BY <2>2, <2>3, <2>4 DEF TortureInv
<1>4. CASE ~(pc = "establish" /\ worker.reply # "ok")
  <2> DEFINE next == Torture!After(pc)
  <2>1. /\ pc' = next /\ Torture!Begin(next) /\ UNCHANGED result
        /\ failures' = IF worker.reply = "ok" THEN failures ELSE failures + 1
    BY <1>4, Zenon DEF Torture!Reply
  <2>2. /\ pc = "establish" => next = "inject"
        /\ pc = "inject" => next = "classify"
        /\ pc = "classify" => next = "recovery"
    BY AfterIs
  <2>3. next \in Stage /\ next # "establish"
    BY <1>1, <2>2 DEF Stage
  <2> HIDE DEF next
  <2>4. /\ worker' \in Thread /\ worker'.action = next /\ worker'.case = index
        /\ worker'.reply = "none"
        /\ next = "inject" => worker'.left = Torture!Selected[index]
    BY <1>2, <2>1, <2>3, BeginIs DEF TortureInv
  <2>5. TortureType'
    <3>1. failures \in 0..MaxFailures + 1 /\ failures' \in {failures, failures + 1}
      BY <2>1 DEF TortureInv, TortureType
    <3>2. /\ pc \in {"establish", "inject"} => failures < MaxFailures
          /\ pc = "classify" => failures <= MaxFailures
          /\ pc = "establish" => failures' = failures
      BY <1>1, <1>4, <2>1 DEF TortureInv, TortureType
    <3>3. /\ failures' \in 0..MaxFailures + 1
          /\ next = "inject" => failures' < MaxFailures /\ failures' <= MaxFailures
          /\ next = "classify" => failures' <= MaxFailures
      BY <1>1, <2>2, <3>1, <3>2, TortureAssumption
    <3> QED
      BY <1>1, <2>1, <2>3, <3>3 DEF TortureInv, TortureType, Stage
  <2>6. Runs(network, worker', index)
    <3>1. ASSUME next = "inject"
          PROVE  /\ worker'.left \in 0..Torture!Selected[index]
                 /\ \A p \in Wanted(index) : SentOf(network, index, p) <=> p > worker'.left
      <4>1. pc = "establish"
        BY <1>1, <2>2, <3>1
      <4>2. \A p : ~SentOf(network, index, p)
        BY <4>1 DEF TortureInv, SentInv, SentOf
      <4>3. Torture!Selected[index] \in Nat
        BY <1>2, SelectedAre DEF TortureInv, TortureType
      <4>4. \A p \in Wanted(index) : ~(p > Torture!Selected[index])
        BY <4>3 DEF Wanted
      <4> QED
        BY <2>4, <3>1, <4>2, <4>3, <4>4
    <3> QED
      BY <1>2, <2>3, <2>4, <3>1 DEF Runs, Injects
  <2>7. ThreadInv'
    BY <1>1, <1>2, <2>1, <2>3, <2>4, <2>6, RunnerSends DEF TortureInv, ThreadInv, Stage
  <2>8. next \in {"classify", "recovery"} => AllSent(network, index)
    <3>1. CASE pc = "inject"
      <4>1. /\ worker.left = 0
            /\ \A p \in Wanted(index) : SentOf(network, index, p) <=> p > 0
        BY <1>1, <1>2, <3>1 DEF Runs, Injects
      <4>2. Torture!Selected[index] \in Nat
        BY <1>2, SelectedAre DEF TortureInv, TortureType
      <4> QED
        BY <4>1, <4>2 DEF AllSent, Wanted
    <3>2. CASE pc = "classify"
      BY <3>2 DEF TortureInv, SentInv
    <3> QED
      BY <1>1, <2>2, <3>1, <3>2
  <2>9. SentInv'
    BY <1>1, <1>2, <2>1, <2>3, <2>4, <2>8, RunnerSends DEF TortureInv, SentInv, Stage
  <2> QED
    BY <2>5, <2>7, <2>9 DEF TortureInv
<1> QED
  BY <1>3, <1>4

LEMMA RecoveredKeeps ==
    ASSUME TortureInv, Torture!Recovered
    PROVE  TortureInv'
<1>1. /\ pc = "recovery" /\ worker.action = pc /\ worker.reply \in {"ok", "not-ok"}
      /\ worker' = Torture!Idle /\ cases' = cases + 1 /\ cases = index - 1
      /\ index \in Nat \ {0} /\ cases' = index
      /\ UNCHANGED <<chosen, failures, stray, stop, network>>
  <2>1. cases = index - 1 /\ index \in Nat \ {0} /\ pc = "recovery"
    BY DEF Torture!Recovered, TortureInv, TortureType
  <2> QED
    BY <2>1 DEF Torture!Recovered
<1>2. /\ stray = {} /\ result = "none" /\ Cardinality(Torture!Planned) <= MaxPackets
      /\ AllSent(network, index) /\ History(network, index)
  BY <1>1 DEF TortureInv, ThreadInv, SentInv, Stage
<1>3. ASSUME NEW i \in 1..Len(network), Mutates(network, i)
      PROVE  /\ network[i][2] # index => CleanAfter(network, i) /\ AllSent(network, network[i][2])
             /\ network[i][2] \in 1..Cases /\ network[i][2] <= index
             /\ network[i][2] = index /\ worker.reply = "ok" => CleanAfter(network, i)
             /\ CanaryAfter(network, i)
  <2>1. /\ network[i][2] \in 1..Cases /\ network[i][2] <= index
        /\ network[i][2] < index => CleanAfter(network, i) /\ AllSent(network, network[i][2])
    BY <1>2, <1>3, Zenon DEF History, IsPlanned
  <2>2. \A c \in 1..Cases, n \in Nat : c # n /\ c <= n => c < n
    BY SelectedAre DEF TortureInv, TortureType
  <2>3. network[i][2] # index => CleanAfter(network, i) /\ AllSent(network, network[i][2])
    BY <1>1, <2>1, <2>2
  <2>4. CleanAfter(network, i) => CanaryAfter(network, i)
    <3>1. \A c : Clean(c)[1] = "canary" /\ Clean(c)[2] = c
      BY DEF Clean
    <3> QED
      BY <3>1 DEF CleanAfter, CanaryAfter
  <2>5. network[i][2] = index =>
           /\ worker.reply = "ok" => CleanAfter(network, i)
           /\ worker.reply = "not-ok" => CanaryAfter(network, i)
    BY <1>1, <1>3 DEF TortureInv, SentInv
  <2> QED
    BY <1>1, <2>1, <2>3, <2>4, <2>5
<1>4. CASE worker.reply # "ok" \/ failures >= MaxFailures
  <2>1. pc' = "over" /\ result' = "stopped" /\ index' = index
    BY <1>4, Zenon DEF Torture!Recovered, Torture!Ends
  <2>2. TortureType'
    BY <1>1, <2>1 DEF TortureInv, TortureType
  <2>3. ThreadInv'
    BY <1>1, <1>2, <2>1, RunnerSends DEF TortureInv, ThreadInv, Stage
  <2>4. \A i \in 1..Len(network) : Mutates(network, i) => Answered(network, i, index)
    BY <1>2, <1>3 DEF Answered
  <2>5. SentInv'
    BY <1>1, <2>1, <2>4, RunnerSends DEF TortureInv, SentInv
  <2> QED
    BY <2>2, <2>3, <2>5 DEF TortureInv
<1>5. CASE ~(worker.reply # "ok" \/ failures >= MaxFailures)
  <2>1. pc' = "gate" /\ result' = result /\ index' = index + 1
    BY <1>5, Zenon DEF Torture!Recovered
  <2>2. TortureType'
    BY <1>1, <2>1 DEF TortureInv, TortureType, Stage
  <2>3. ThreadInv'
    BY <1>1, <1>2, <2>1, RunnerSends DEF TortureInv, ThreadInv, Stage
  <2>4. History(network, index + 1)
    BY <1>1, <1>2, <1>3, <1>5, NextKeeps
  <2>5. \A i \in 1..Len(network) : Mutates(network, i) => network[i][2] # index + 1
    <3>1. \A c \in 1..Cases, n \in Nat : c <= n => c # n + 1
      BY SelectedAre DEF TortureInv, TortureType
    <3> QED
      BY <1>1, <1>3, <3>1
  <2>6. SentInv'
    BY <1>1, <1>2, <2>1, <2>4, <2>5, RunnerSends DEF SentInv
  <2> QED
    BY <2>2, <2>3, <2>6 DEF TortureInv
<1> QED
  BY <1>4, <1>5

LEMMA TortureInit ==
    ASSUME Torture!Init
    PROVE  TortureInv
<1>1. /\ chosen \in Selections /\ pc = "start" /\ index = 1 /\ worker = Torture!Idle
      /\ stray = {} /\ failures = 0 /\ cases = 0 /\ stop = FALSE /\ network = <<>>
      /\ result = "none"
  BY DEF Torture!Init
<1>2. TortureType
  <2>1. chosen \in Seq(Nat) /\ 0 \in 0..MaxFailures + 1 /\ 0 <= MaxFailures
    BY <1>1, TortureAssumption
  <2>2. stop \in BOOLEAN
    BY <1>1, Zenon
  <2>3. index \in Nat \ {0} /\ cases \in Nat /\ cases = index - 1
    BY <1>1
  <2> QED
    BY <1>1, <2>1, <2>2, <2>3 DEF TortureType
<1>3. ThreadInv
  BY <1>1 DEF ThreadInv, Stage
<1>4. network \in Seq(Packet) /\ Len(network) = 0
  BY <1>1
<1>5. SentInv
  BY <1>1, <1>4 DEF SentInv, History, IsPlanned, IsOrdered
<1> QED
  BY <1>2, <1>3, <1>5 DEF TortureInv

LEMMA TortureKeeps ==
    ASSUME TortureInv, [Next]_vars
    PROVE  TortureInv'
<1>1. CASE UNCHANGED torture
  <2>1. UNCHANGED <<chosen, pc, index, failures, cases, result, worker, stray, stop, network>>
    BY <1>1 DEF torture
  <2>2. TortureType'
    BY <2>1 DEF TortureInv, TortureType
  <2>3. ThreadInv'
    BY <2>1, RunnerSends DEF TortureInv, ThreadInv, Stage
  <2>4. SentInv'
    BY <2>1, RunnerSends DEF TortureInv, SentInv
  <2> QED
    BY <2>2, <2>3, <2>4 DEF TortureInv
<1>2. CASE Torture!ActionRuns \/ Torture!StrayRuns \/ Torture!OperatorStops
  BY <1>2, ActionRunsKeeps, StrayRunsKeeps, OperatorStopsKeeps
<1>3. CASE Torture!Runner
  BY <1>3, StartKeeps, AdmitKeeps, CompleteKeeps, RaiseKeeps, ReplyKeeps, RecoveredKeeps,
     TimeOutKeeps DEF Torture!Runner
<1>4. \/ UNCHANGED torture \/ Torture!Runner
      \/ Torture!ActionRuns \/ Torture!StrayRuns \/ Torture!OperatorStops
  BY DEF Next, ConsoleRuns, TortureWorks, TortureRuns, MinimiserRuns, PacksRun, OutputsRun, ChaosRuns, vars
<1> QED
  BY <1>1, <1>2, <1>3, <1>4

LEMMA MutationsAre ==
    ASSUME TortureInv
    PROVE  MutationsAnswered
<1>1. /\ network \in Seq(Packet) /\ DOMAIN network = 1..Len(network) /\ Len(network) \in Nat
      /\ chosen \in Seq(Nat) /\ IsPlanned(network, index) /\ IsOrdered(network)
  BY DEF TortureInv, TortureType, SentInv, History
<1>2. /\ Torture!Mutations = {i \in 1..Len(network) : Mutates(network, i)}
      /\ Torture!Mutations \subseteq Nat
  BY <1>1 DEF Torture!Mutations, Mutates
<1>3. Torture!TypeOK
  <2>1. pc \in {"start", "gate", "over"} \cup {Torture!Actions[i] : i \in 1..4}
    <3>1. /\ Torture!Actions[1] = "establish" /\ Torture!Actions[2] = "inject"
          /\ Torture!Actions[3] = "classify" /\ Torture!Actions[4] = "recovery"
          /\ 1 \in 1..4 /\ 2 \in 1..4 /\ 3 \in 1..4 /\ 4 \in 1..4
      BY DEF Torture!Actions
    <3> QED
      BY <3>1 DEF TortureInv, TortureType, Stage
  <2>2. worker.action # "none" => worker.action = pc /\ worker.case = index
    BY IdleIs DEF TortureInv, ThreadInv, Runs
  <2>3. Cardinality(stray) <= 1
    <3>1. stray = {} \/ \E w : stray = {w}
      BY DEF TortureInv, ThreadInv
    <3>2. Cardinality({}) = 0 /\ \A w : Cardinality({w}) = 1
      BY FS_EmptySet, FS_Singleton
    <3>3. Cardinality(stray) \in {0, 1}
      BY <3>1, <3>2, Zenon
    <3> QED
      BY <3>3
  <2> QED
    BY <2>1, <2>2, <2>3, SameCount DEF Torture!TypeOK, TortureInv, TortureType
<1>4. ASSUME NEW i \in Torture!Mutations, NEW j \in Torture!Mutations, i < j
      PROVE  /\ <<network[i][2], network[i][3]>> # <<network[j][2], network[j][3]>>
             /\ network[i][2] # network[j][2] =>
                   \E k \in i..j : network[k] = <<"canary", network[i][2], 0, TRUE>>
  <2>1. /\ <<network[i][2], network[i][3]>> # <<network[j][2], network[j][3]>>
        /\ network[i][2] # network[j][2] =>
              \E k \in 1..Len(network) : i < k /\ k < j /\ network[k] = Clean(network[i][2])
    BY <1>1, <1>2, <1>4, Zenon DEF IsOrdered
  <2>2. \A k \in 1..Len(network) : i < k /\ k < j => k \in i..j
    BY <1>2
  <2> QED
    BY <2>1, <2>2, Zenon DEF Clean
<1>5. \A i \in Torture!Mutations :
         network[i][2] \in 1..Cases /\ network[i][3] \in Wanted(network[i][2])
  BY <1>1, <1>2, Zenon DEF IsPlanned
<1>6. Cardinality(Torture!Mutations) <= MaxPackets
  <2>1. CASE network = <<>>
    <3>1. Torture!Mutations = {}
      BY <1>2, <2>1
    <3> QED
      BY <3>1, FS_EmptySet, TortureAssumption
  <2>2. CASE network # <<>>
    <3> DEFINE f == [i \in Torture!Mutations |-> <<network[i][2], network[i][3]>>]
               M == Torture!Mutations
               P == Torture!Planned
    <3>1. IsFiniteSet(P) /\ \A i \in M : f[i] \in P
      BY <1>1, <1>5, PlannedAre
    <3>2. \A i, j \in M : f[i] = f[j] => i = j
      <4>1. \A i, j \in M : i < j => f[i] # f[j]
        BY <1>4
      <4> HIDE DEF f
      <4>2. \A i, j \in M : i < j \/ j < i \/ i = j
        BY <1>2
      <4> QED
        BY <4>1, <4>2, Zenon
    <3>3. f \in Injection(M, P)
      <4>1. f \in [M -> P]
        BY <3>1
      <4> HIDE DEF f, M, P
      <4> QED
        BY <3>2, <4>1 DEF Injection, IsInjective
    <3>4. Cardinality(M) <= Cardinality(P) /\ IsFiniteSet(M)
      <4> HIDE DEF f, M, P
      <4> QED
        BY <3>1, <3>3, FS_Injection
    <3>5. Cardinality(P) <= MaxPackets
      BY <2>2 DEF TortureInv, ThreadInv
    <3>6. Cardinality(P) \in Nat /\ Cardinality(M) \in Nat
      BY <3>1, <3>4, FS_CardinalityType
    <3> QED
      BY <3>4, <3>5, <3>6, TortureAssumption
  <2> QED
    BY <2>1, <2>2
<1>7. Torture!CanaryBetweenMutations
  BY <1>4, <1>6, SameCount DEF Torture!CanaryBetweenMutations
<1>8. ASSUME result \in {"stopped", "completed"}, NEW i \in Torture!Mutations
      PROVE  LET c == network[i][2]
             IN  /\ Cardinality({j \in Torture!Mutations : network[j][2] = c})
                       = Torture!Selected[c]
                 /\ \E k \in DOMAIN network :
                       k > i /\ network[k][1] = "canary" /\ network[k][2] = c
                 /\ c <= cases
  <2> DEFINE c == network[i][2]
             J == {j \in Torture!Mutations : network[j][2] = c}
             g == [j \in J |-> network[j][3]]
             n == Torture!Selected[c]
  <2>1. Answered(network, i, cases)
    BY <1>2, <1>8 DEF TortureInv, SentInv
  <2>2. n \in Nat /\ Wanted(c) = 1..n
    BY <1>1, <1>5, SelectedAre DEF Wanted
  <2>3. \A j \in J : g[j] \in 1..n
    BY <1>5, <2>2
  <2>4. \A p \in 1..n : \E j \in J : g[j] = p
    <3> TAKE p \in 1..n
    <3>1. SentOf(network, c, p)
      BY <2>1, <2>2 DEF Answered, AllSent
    <3> QED
      BY <1>2, <3>1 DEF SentOf
  <2>5. \A j, k \in J : g[j] = g[k] => j = k
    <3>1. ASSUME NEW j \in J, NEW k \in J, j < k PROVE g[j] # g[k]
      <4>1. <<network[j][2], network[j][3]>> # <<network[k][2], network[k][3]>>
        BY <1>4, <3>1
      <4>2. network[j][2] = network[k][2] /\ g[j] = network[j][3] /\ g[k] = network[k][3]
        OBVIOUS
      <4> QED
        BY <4>1, <4>2, Zenon
    <3>2. \A j, k \in J : j < k \/ k < j \/ j = k
      BY <1>2
    <3> HIDE DEF g, J
    <3> QED
      BY <3>1, <3>2, Zenon
  <2>6. g \in [J -> 1..n]
    BY <2>3
  <2> HIDE DEF g, J, n, c
  <2>7. g \in Injection(J, 1..n) /\ g \in Surjection(J, 1..n)
    BY <2>4, <2>5, <2>6 DEF Injection, IsInjective, Surjection
  <2>8. IsFiniteSet(1..n) /\ Cardinality(1..n) = n
    <3>1. n \in Int /\ 1 \in Int
      BY <2>2
    <3>2. IsFiniteSet(1..n) /\ Cardinality(1..n) = IF 1 > n THEN 0 ELSE n - 1 + 1
      BY <3>1, FS_Interval
    <3> QED
      BY <2>2, <3>2
  <2>9. Cardinality(J) = n
    BY <2>7, <2>8, FS_Injection
  <2> QED
    BY <1>1, <2>1, <2>9 DEF Answered, CanaryAfter, J, n, c
<1>9. Torture!NothingUnanswered
  BY <1>8, SameCount DEF Torture!NothingUnanswered
<1> QED
  BY <1>3, <1>7, <1>9 DEF MutationsAnswered

(* Whatever is selected and whatever the limits (see MutationsAnswered of  *)
(* MCBench): two mutations of different cases have a clean canary between   *)
(* them, no more packets than the limit are sent, and a run that ends with  *)
(* a verdict left no case half sent or without its canary.                  *)
THEOREM MutationsStayAnswered == Spec => []MutationsAnswered
<1>1. Init => TortureInv
  BY TortureInit DEF Init
<1>2. TortureInv /\ [Next]_vars => TortureInv'
  BY TortureKeeps
<1>3. TortureInv => MutationsAnswered
  BY MutationsAre
<1> QED
  BY <1>1, <1>2, <1>3, PTL DEF Spec

-----------------------------------------------------------------------------
(* The minimiser.  Positions of the source, its lines and its body.         *)

Position == Minimise!Positions
Level == Minimise!Levels
Lines(s) == Minimise!Lines(s)
Body(w) == Minimise!Body(w)
Header(w) == w \ Body(w)
Spans(w, level) == Minimise!Spans(w, level)

(* The source is a message of lines in order, a blank one alone.            *)
LEMMA SourceIs ==
    /\ Len(Source) \in Nat \ {0} /\ Position = 1..Len(Source) /\ 1 \in Position
    /\ IsFiniteSet(Position)
    /\ \A i \in Position : i \in Nat \ {0} /\ Source[i].line \in Nat
    /\ \A i, j \in Position : i < j => Source[i].line <= Source[j].line
    /\ \A i, j \in Position :
          Source[i].part = "blank" /\ Source[i].line = Source[j].line => i = j
    /\ Source[1].part # "value"
<1>1. Len(Source) \in Nat \ {0} /\ DOMAIN Source = 1..Len(Source)
  BY MinimiserAssumption
<1>2. \A i \in DOMAIN Source : Source[i].line \in Nat
  <2>1. ASSUME NEW i \in 1..Len(Source)
        PROVE  Source[i] \in [line : Nat, part : {"key", "value", "blank"}]
    <3>1. Source \in Seq([line : Nat, part : {"key", "value", "blank"}])
      BY MinimiserAssumption
    <3>2. ASSUME NEW S, Source \in Seq(S) PROVE Source[i] \in S
      BY <3>2
    <3> QED
      BY <3>1, <3>2, Zenon
  <2> QED
    BY <1>1, <2>1
<1>3. IsFiniteSet(1..Len(Source))
  BY <1>1, FS_Interval
<1> QED
  BY <1>1, <1>2, <1>3, MinimiserAssumption DEF Position, Minimise!Positions

(* Of positions that are there, one comes first.                            *)
LEMMA FirstPosition ==
    ASSUME NEW w \in SUBSET Position, w # {}
    PROVE  \E i \in w : \A j \in w : i <= j
<1>1. w \subseteq Nat
  BY SourceIs
<1>2. PICK i \in w : \A j \in w : ~(<<j, i>> \in OpToRel(<, Nat))
  BY <1>1, WFMin, NatLessThanWellFounded, Zenon
<1>3. ASSUME NEW j \in w PROVE i <= j
  <2>1. OpToRel(<, Nat) = {p \in Nat \X Nat : p[1] < p[2]}
    BY DEF OpToRel
  <2>2. <<j, i>> \in Nat \X Nat /\ <<j, i>>[1] = j /\ <<j, i>>[2] = i
    BY <1>1
  <2>3. ~(j < i)
    BY <1>2, <2>1, <2>2, Zenon
  <2> QED
    BY <1>1, <2>3
<1> QED
  BY <1>3

(* A line is in the body or not as a whole.                                 *)
LEMMA BodyIs ==
    ASSUME NEW w \in SUBSET Position
    PROVE  /\ Body(w) \subseteq w /\ 1 \notin Body(w)
           /\ \A i \in Body(w), j \in w : Source[j].line = Source[i].line => j \in Body(w)
<1>1. Body(w) \subseteq w /\ 1 \notin Body(w)
  BY SourceIs DEF Body, Minimise!Body
<1>2. ASSUME NEW i \in Body(w), NEW j \in w, Source[j].line = Source[i].line
      PROVE  j \in Body(w)
  <2>1. PICK b \in w : 1 < b /\ b < i /\ Source[b].part = "blank"
    BY DEF Body, Minimise!Body
  <2>2. i \in w /\ i \in Position /\ j \in Position /\ b \in Position
    BY <1>1
  <2>3. b < j
    BY <1>2, <2>1, <2>2, SourceIs
  <2> QED
    BY <2>1, <2>3 DEF Body, Minimise!Body
<1> QED
  BY <1>1, <1>2

(* What is deleted of the body leaves the rest of it the body.              *)
LEMMA BodyLess ==
    ASSUME NEW w \in SUBSET Position, NEW r \in SUBSET Body(w)
    PROVE  Body(w \ r) = Body(w) \ r
<1>1. ASSUME NEW i \in Body(w), i \notin r PROVE i \in Body(w \ r)
  <2> DEFINE blanks == {b \in w : 1 < b /\ Source[b].part = "blank"}
  <2>1. PICK c \in w : 1 < c /\ c < i /\ Source[c].part = "blank"
    BY DEF Body, Minimise!Body
  <2>2. PICK b \in blanks : \A d \in blanks : b <= d
    <3>1. blanks \in SUBSET Position /\ blanks # {}
      BY <2>1
    <3> QED
      BY <3>1, FirstPosition
  <2>3. b \notin Body(w)
    BY <2>2, SourceIs DEF Body, Minimise!Body
  <2>4. b <= c
    BY <2>1, <2>2
  <2>5. b \in Nat /\ c \in Nat /\ i \in Nat
    <3>1. Body(w) \subseteq w
      BY DEF Body, Minimise!Body
    <3>2. {b, c, i} \subseteq Position
      BY <2>1, <2>2, <3>1
    <3> QED
      BY <3>2, SourceIs
  <2>6. b < i
    BY <2>1, <2>4, <2>5
  <2> QED
    BY <1>1, <2>2, <2>3, <2>6, BodyIs DEF Body, Minimise!Body
<1>2. ASSUME NEW i \in Body(w \ r) PROVE i \in Body(w) \ r
  BY DEF Body, Minimise!Body
<1> QED
  BY <1>1, <1>2

(* And so does what is deleted that is no blank line.                       *)
LEMMA BodyStays ==
    ASSUME NEW w \in SUBSET Position, NEW r \in SUBSET w,
           \A i \in r : Source[i].part # "blank"
    PROVE  Body(w \ r) = Body(w) \ r
BY DEF Body, Minimise!Body

(* The spans of a level come one after the other.                           *)
Ordered(spans) ==
    /\ IsFiniteSet(spans)
    /\ \A s \in spans : s \in SUBSET Position /\ s # {}
    /\ \A s, t \in spans : s # t => Minimise!Before(s, t) \/ Minimise!Before(t, s)

LEMMA LinesAre ==
    ASSUME NEW w \in SUBSET Position
    PROVE  /\ Ordered(Lines(w))
           /\ \A s \in Lines(w) : s \subseteq w
           /\ \A i \in w : \E s \in Lines(w) :
                 i \in s /\ s = {j \in w : Source[j].line = Source[i].line}
<1>1. \A s \in Lines(w) : \E i \in w : i \in s /\ s = {j \in w : Source[j].line = Source[i].line}
  BY DEF Lines, Minimise!Lines
<1>2. \A i \in w : \E s \in Lines(w) : i \in s /\ s = {j \in w : Source[j].line = Source[i].line}
  BY DEF Lines, Minimise!Lines
<1>3. IsFiniteSet(Lines(w))
  <2>1. IsFiniteSet(w)
    BY SourceIs, FS_Subset
  <2>2. IsFiniteSet(SUBSET w) /\ Lines(w) \in SUBSET (SUBSET w)
    BY <1>1, <2>1, FS_SUBSET
  <2> QED
    BY <2>2, FS_Subset
<1>4. ASSUME NEW s \in Lines(w), NEW t \in Lines(w), s # t
      PROVE  Minimise!Before(s, t) \/ Minimise!Before(t, s)
  <2>1. PICK i \in w : i \in s /\ s = {j \in w : Source[j].line = Source[i].line}
    BY <1>1
  <2>2. PICK k \in w : k \in t /\ t = {j \in w : Source[j].line = Source[k].line}
    BY <1>1
  <2>3. Source[i].line # Source[k].line
    BY <1>4, <2>1, <2>2
  <2>4. Source[i].line \in Nat /\ Source[k].line \in Nat
    BY SourceIs
  <2>5. CASE Source[i].line < Source[k].line
    <3>1. \A j \in t : i < j
      BY <2>2, <2>4, <2>5, SourceIs
    <3> QED
      BY <2>1, <3>1 DEF Minimise!Before
  <2>6. CASE Source[k].line < Source[i].line
    <3>1. \A j \in s : k < j
      BY <2>1, <2>4, <2>6, SourceIs
    <3> QED
      BY <2>2, <3>1 DEF Minimise!Before
  <2> QED
    BY <2>3, <2>4, <2>5, <2>6
<1> QED
  BY <1>1, <1>2, <1>3, <1>4 DEF Ordered

LEMMA BeforeIs ==
    ASSUME NEW s \in SUBSET Position, NEW t \in SUBSET Position, NEW u \in SUBSET Position
    PROVE  /\ ~Minimise!Before(s, s)
           /\ Minimise!Before(s, t) /\ Minimise!Before(t, u) => Minimise!Before(s, u)
<1>1. \A i \in Position : i \in Nat
  BY SourceIs
<1>2. ~Minimise!Before(s, s)
  BY <1>1 DEF Minimise!Before
<1>3. ASSUME Minimise!Before(s, t), Minimise!Before(t, u) PROVE Minimise!Before(s, u)
  <2>1. PICK i \in s : \A j \in t : i < j
    BY <1>3 DEF Minimise!Before
  <2>2. PICK k \in t : \A j \in u : k < j
    BY <1>3 DEF Minimise!Before
  <2>3. \A j \in u : i < j
    BY <1>1, <2>1, <2>2
  <2> QED
    BY <2>3 DEF Minimise!Before
<1> QED
  BY <1>2, <1>3

(* The cardinality of the instance is that of the standard module.         *)
LEMMA SpansCount ==
    ASSUME NEW X
    PROVE  Minimise!Cardinality(X) = Cardinality(X)
BY Zenon DEF Cardinality, Minimise!Cardinality, IsFiniteSet, Minimise!IsFiniteSet

(* spans[start : start + width] is of consecutive places, each of one span. *)
LEMMA PlaceIs ==
    ASSUME NEW spans, Ordered(spans)
    PROVE  /\ Cardinality(spans) \in Nat
           /\ \A s \in spans : /\ Minimise!Place(spans, s) \in Nat
                               /\ Minimise!Place(spans, s) < Cardinality(spans)
           /\ \A s, t \in spans :
                 Minimise!Place(spans, s) = Minimise!Place(spans, t) => s = t
<1> DEFINE Lower(s) == {t \in spans : Minimise!Before(t, s)}
<1>1. \A s \in spans : Minimise!Place(spans, s) = Cardinality(Lower(s))
  BY SpansCount, Zenon DEF Minimise!Place
<1>2. IsFiniteSet(spans) /\ Cardinality(spans) \in Nat
  BY FS_CardinalityType DEF Ordered
<1>3. \A s \in spans : IsFiniteSet(Lower(s)) /\ Cardinality(Lower(s)) \in Nat
  <2>1. ASSUME NEW s \in spans PROVE IsFiniteSet(Lower(s))
    BY <1>2, FS_Subset
  <2> QED
    BY <2>1, FS_CardinalityType
<1>4. ASSUME NEW s \in spans PROVE Cardinality(Lower(s)) < Cardinality(spans)
  <2>1. Lower(s) \in SUBSET (spans \ {s})
    BY BeforeIs DEF Ordered
  <2>2. IsFiniteSet(spans \ {s}) /\ Cardinality(spans \ {s}) = Cardinality(spans) - 1
    BY <1>2, FS_RemoveElement
  <2>3. Cardinality(Lower(s)) <= Cardinality(spans \ {s})
    BY <2>1, <2>2, FS_Subset
  <2> HIDE DEF Lower
  <2> QED
    BY <1>2, <1>3, <2>2, <2>3
<1>5. ASSUME NEW s \in spans, NEW t \in spans, Minimise!Before(s, t)
      PROVE  Cardinality(Lower(s)) < Cardinality(Lower(t))
  <2>1. Lower(s) \cup {s} \in SUBSET Lower(t)
    BY <1>5, BeforeIs DEF Ordered
  <2>2. s \notin Lower(s)
    BY BeforeIs DEF Ordered
  <2>3. Cardinality(Lower(s) \cup {s}) = Cardinality(Lower(s)) + 1
    BY <1>3, <2>2, FS_AddElement
  <2>4. Cardinality(Lower(s) \cup {s}) <= Cardinality(Lower(t))
    BY <1>3, <2>1, FS_Subset
  <2> QED
    BY <1>3, <2>3, <2>4
<1> HIDE DEF Lower
<1>6. ASSUME NEW s \in spans, NEW t \in spans, s # t
      PROVE  Cardinality(Lower(s)) # Cardinality(Lower(t))
  <2>1. Minimise!Before(s, t) \/ Minimise!Before(t, s)
    BY <1>6 DEF Ordered
  <2>2. /\ Minimise!Before(s, t) => Cardinality(Lower(s)) < Cardinality(Lower(t))
        /\ Minimise!Before(t, s) => Cardinality(Lower(t)) < Cardinality(Lower(s))
    BY <1>5
  <2> QED
    BY <1>3, <2>1, <2>2
<1> QED
  BY <1>1, <1>2, <1>3, <1>4, <1>6

(* What may be deleted is not empty, and never the first atom.              *)
LEMMA SpansAre ==
    ASSUME NEW w \in SUBSET Position, NEW level \in Level
    PROVE  /\ Ordered(Spans(w, level))
           /\ \A s \in Spans(w, level) : s \subseteq w /\ 1 \notin s
<1>1. Body(w) \in SUBSET Position /\ Header(w) \in SUBSET Position /\ 1 \notin Body(w)
  BY BodyIs DEF Header
<1>2. CASE level = "sections"
  <2>1. Spans(w, level) = {Body(w)} \ {{}}
    BY <1>2 DEF Spans, Minimise!Spans, Body
  <2>2. IsFiniteSet(Spans(w, level))
    <3>1. IsFiniteSet({Body(w)}) /\ Spans(w, level) \in SUBSET {Body(w)}
      BY <2>1, FS_Singleton
    <3> QED
      BY <3>1, FS_Subset
  <2> QED
    BY <1>1, <2>1, <2>2, BodyIs DEF Ordered
<1>3. CASE level = "headers"
  <2>1. Spans(w, level) = {s \in Lines(Header(w)) : Minimise!Before(Header(w), s)}
    BY <1>3 DEF Spans, Minimise!Spans, Body, Header, Lines
  <2>2. Ordered(Lines(Header(w))) /\ \A s \in Lines(Header(w)) : s \subseteq Header(w)
    BY <1>1, LinesAre
  <2>3. IsFiniteSet(Spans(w, level))
    BY <2>1, <2>2, FS_Subset DEF Ordered
  <2>4. \A s \in Spans(w, level) : 1 \notin s
    BY <1>1, <2>1, SourceIs DEF Minimise!Before
  <2> QED
    BY <2>1, <2>2, <2>3, <2>4 DEF Ordered, Header
<1>4. CASE level = "body-lines"
  <2>1. Spans(w, level) = Lines(Body(w))
    BY <1>4 DEF Spans, Minimise!Spans, Body, Lines
  <2>2. Ordered(Lines(Body(w))) /\ \A s \in Lines(Body(w)) : s \subseteq Body(w)
    BY <1>1, LinesAre
  <2> QED
    BY <1>1, <2>1, <2>2, BodyIs
<1>5. CASE level = "values"
  <2>1. \A s \in Spans(w, level) : \E i \in Header(w) : s = {i} /\ Source[i].part = "value"
    BY <1>5 DEF Spans, Minimise!Spans, Body, Header
  <2>2. IsFiniteSet(Spans(w, level))
    <3>1. IsFiniteSet(SUBSET w)
      BY SourceIs, FS_Subset, FS_SUBSET
    <3>2. Spans(w, level) \in SUBSET (SUBSET w)
      BY <2>1 DEF Header
    <3> QED
      BY <3>1, <3>2, FS_Subset
  <2>3. ASSUME NEW s \in Spans(w, level), NEW t \in Spans(w, level), s # t
        PROVE  Minimise!Before(s, t) \/ Minimise!Before(t, s)
    <3>1. PICK i \in Header(w), k \in Header(w) : s = {i} /\ t = {k}
      BY <2>1
    <3>2. i < k \/ k < i
      BY <1>1, <2>3, <3>1, SourceIs
    <3> QED
      BY <3>1, <3>2 DEF Minimise!Before
  <2>4. \A s \in Spans(w, level) : s \in SUBSET Position /\ s # {} /\ s \subseteq w /\ 1 \notin s
    <3>1. \A i \in Header(w) : i \in w /\ i \in Position /\ (Source[i].part = "value" => i # 1)
      BY SourceIs, Zenon DEF Header
    <3> QED
      BY <2>1, <3>1
  <2> QED
    BY <2>2, <2>3, <2>4 DEF Ordered
<1> QED
  BY <1>2, <1>3, <1>4, <1>5 DEF Level, Minimise!Levels

(* Whole lines go, or value tokens of the header section.                   *)
Closed(w, r) == \A i \in r, j \in w : Source[j].line = Source[i].line => j \in r
Removes(w, level, r) ==
    /\ r \in SUBSET w /\ 1 \notin r
    /\ level \in {"sections", "body-lines"} => r \subseteq Body(w)
    /\ level # "values" => Closed(w, r)
    /\ level = "values" => r \subseteq Header(w) /\ \A i \in r : Source[i].part = "value"
LEMMA RemovalIs ==
    ASSUME NEW w \in SUBSET Position, NEW level \in Level, NEW some \in SUBSET Spans(w, level)
    PROVE  Removes(w, level, UNION some)
<1> DEFINE r == UNION some
<1>1. r \in SUBSET w /\ 1 \notin r
  BY SpansAre
<1>2. Body(w) \in SUBSET Position /\ Header(w) \in SUBSET Position
  BY BodyIs DEF Header
<1>3. ASSUME level = "sections" PROVE r \subseteq Body(w) /\ Closed(w, r)
  <2>1. \A s \in Spans(w, level) : s = Body(w)
    BY <1>3 DEF Spans, Minimise!Spans, Body
  <2>2. r \subseteq Body(w) /\ (r # {} => r = Body(w))
    BY <2>1
  <2> QED
    BY <2>2, BodyIs DEF Closed
<1>4. ASSUME level = "headers" PROVE Closed(w, r)
  <2>1. \A s \in Spans(w, level) : s \in Lines(Header(w))
    BY <1>4 DEF Spans, Minimise!Spans, Body, Header, Lines
  <2>2. ASSUME NEW i \in r, NEW j \in w, Source[j].line = Source[i].line PROVE j \in r
    <3>1. PICK s \in some : i \in s
      OBVIOUS
    <3>2. PICK k \in Header(w) : s = {l \in Header(w) : Source[l].line = Source[k].line}
      BY <2>1, <3>1 DEF Lines, Minimise!Lines
    <3>3. j \in Header(w)
      BY <2>2, <3>1, <3>2, BodyIs DEF Header
    <3> QED
      BY <2>2, <3>1, <3>2, <3>3
  <2> QED
    BY <2>2 DEF Closed
<1>5. ASSUME level = "body-lines" PROVE r \subseteq Body(w) /\ Closed(w, r)
  <2>1. \A s \in Spans(w, level) : s \in Lines(Body(w))
    BY <1>5 DEF Spans, Minimise!Spans, Body, Lines
  <2>2. r \subseteq Body(w)
    BY <1>2, <2>1, LinesAre
  <2>3. ASSUME NEW i \in r, NEW j \in w, Source[j].line = Source[i].line PROVE j \in r
    <3>1. PICK s \in some : i \in s
      OBVIOUS
    <3>2. PICK k \in Body(w) : s = {l \in Body(w) : Source[l].line = Source[k].line}
      BY <2>1, <3>1 DEF Lines, Minimise!Lines
    <3>3. j \in Body(w)
      BY <2>3, <2>2, BodyIs
    <3> QED
      BY <2>3, <3>1, <3>2, <3>3
  <2> QED
    BY <2>2, <2>3 DEF Closed
<1>6. ASSUME level = "values"
      PROVE  r \subseteq Header(w) /\ \A i \in r : Source[i].part = "value"
  <2>1. \A s \in Spans(w, level) : \E i \in Header(w) : s = {i} /\ Source[i].part = "value"
    BY <1>6 DEF Spans, Minimise!Spans, Body, Header
  <2> QED
    BY <2>1
<1> QED
  BY <1>1, <1>3, <1>4, <1>5, <1>6 DEF Removes, Level, Minimise!Levels

-----------------------------------------------------------------------------
(* What a deletion does to what the other levels see.                       *)

Tight(w, c, level) == \A s \in Spans(w, level) : s \cap c # {}
KeepsLines(w) ==
    \A i \in w, j \in Position :
       Source[j].line = Source[i].line /\ Source[j].part # "value" => j \in w

LEMMA LinesKept ==
    ASSUME NEW w \in SUBSET Position, KeepsLines(w), NEW level \in Level,
           NEW r, Removes(w, level, r)
    PROVE  KeepsLines(w \ r)
<1>1. /\ r \in SUBSET w
      /\ level # "values" => Closed(w, r)
      /\ level = "values" => \A i \in r : Source[i].part = "value"
  BY DEF Removes
<1>2. SUFFICES ASSUME NEW i \in w \ r, NEW j \in Position,
                      Source[j].line = Source[i].line, Source[j].part # "value"
               PROVE  j \in w \ r
  BY DEF KeepsLines
<1>3. j \in w
  <2>1. i \in w
    BY <1>2
  <2> QED
    BY <1>2, <2>1, Zenon DEF KeepsLines
<1>4. j \notin r
  BY <1>1, <1>2 DEF Closed
<1> QED
  BY <1>3, <1>4

(* A line of the body that goes leaves the headers what they were.          *)
LEMMA BodyLineGone ==
    ASSUME NEW w \in SUBSET Position, NEW r \in SUBSET Body(w)
    PROVE  Spans(w \ r, "headers") = Spans(w, "headers")
<1>1. Header(w \ r) = Header(w)
  BY BodyIs, BodyLess DEF Header
<1> QED
  BY <1>1, Zenon DEF Spans, Minimise!Spans, Header, Body

(* A value that goes leaves the body what it was, and of a header line what *)
(* the failure needs of it.                                                 *)
LEMMA ValueGone ==
    ASSUME NEW w \in SUBSET Position, NEW c, NEW r \in SUBSET Header(w),
           \A i \in r : Source[i].part = "value", c \subseteq w \ r, Tight(w, c, "headers")
    PROVE  /\ Spans(w \ r, "body-lines") = Spans(w, "body-lines")
           /\ Tight(w \ r, c, "headers")
<1>1. r \subseteq w /\ r \cap Body(w) = {}
  BY DEF Header
<1>2. Body(w \ r) = Body(w)
  <2>1. Body(w \ r) = Body(w) \ r
    BY <1>1, BodyStays
  <2> QED
    BY <1>1, <2>1
<1>3. Header(w \ r) = Header(w) \ r
  BY <1>2 DEF Header
<1>4. Spans(w \ r, "body-lines") = Spans(w, "body-lines")
  BY <1>2, Zenon DEF Spans, Minimise!Spans, Body
<1>5. ASSUME NEW s \in Spans(w \ r, "headers") PROVE s \cap c # {}
  <2>1. s \in Lines(Header(w) \ r) /\ Minimise!Before(Header(w) \ r, s)
    BY <1>3 DEF Spans, Minimise!Spans, Header, Body, Lines
  <2>2. PICK k \in Header(w) \ r :
                s = {j \in Header(w) \ r : Source[j].line = Source[k].line}
    BY <2>1 DEF Lines, Minimise!Lines
  <2>3. PICK i \in Header(w) \ r : \A j \in s : i < j
    BY <2>1 DEF Minimise!Before
  <2> DEFINE t == {j \in Header(w) : Source[j].line = Source[k].line}
  <2>4. Header(w) \in SUBSET Position
    BY DEF Header
  <2>5. k \in s /\ i \notin s /\ i < k
    BY <2>2, <2>3, <2>4, SourceIs
  <2>6. Source[i].line < Source[k].line
    <3>1. Source[i].line <= Source[k].line /\ Source[i].line # Source[k].line
      BY <2>2, <2>4, <2>5, SourceIs
    <3> QED
      BY <2>4, <3>1, SourceIs
  <2>7. ASSUME NEW j \in t PROVE i < j
    BY <2>4, <2>6, SourceIs
  <2>8. t \in Spans(w, "headers")
    <3>1. t \in Lines(Header(w)) /\ Minimise!Before(Header(w), t)
      BY <2>7 DEF Lines, Minimise!Lines, Minimise!Before
    <3> HIDE DEF t
    <3> QED
      BY <3>1 DEF Spans, Minimise!Spans, Header, Body, Lines
  <2>9. t \cap c # {}
    BY <2>8 DEF Tight
  <2> QED
    BY <2>2, <2>9
<1> QED
  BY <1>4, <1>5 DEF Tight

(* When no line of the body may go, neither may the body.                   *)
LEMMA BodyIsTight ==
    ASSUME NEW w \in SUBSET Position, NEW c, Tight(w, c, "body-lines")
    PROVE  Tight(w, c, "sections")
<1>1. ASSUME NEW i \in Body(w) PROVE Body(w) \cap c # {}
  <2>1. Body(w) \in SUBSET Position
    BY BodyIs
  <2>2. PICK s \in Lines(Body(w)) : i \in s
    BY <2>1, LinesAre
  <2>3. s \subseteq Body(w) /\ s \in Spans(w, "body-lines")
    BY <2>1, LinesAre DEF Spans, Minimise!Spans, Body, Lines
  <2> QED
    BY <2>3 DEF Tight
<1> QED
  BY <1>1 DEF Tight, Spans, Minimise!Spans, Body

-----------------------------------------------------------------------------
(* A round: the partitions of single spans, one after the other.            *)

LEMMA WholeWidth ==
    ASSUME NEW n \in Nat, NEW p \in Nat \ {0}
    PROVE  Minimise!Ceiling(n, p) \in Int /\ (p = n => Minimise!Ceiling(n, p) = 1)
<1>1. p = n => (n + p - 1) \div p = 1
  OBVIOUS
<1>2. (n + p - 1) \div p \in Int
  OBVIOUS
<1> QED
  BY <1>1, <1>2 DEF Minimise!Ceiling

Seen(w, c, level, start) ==
    \A s \in Spans(w, level) :
       Minimise!Place(Spans(w, level), s) < start => s \cap c # {}

LEMMA SeenNext ==
    ASSUME NEW w \in SUBSET Position, NEW c, NEW level \in Level, NEW start \in Int,
           Seen(w, c, level, start), c \subseteq w,
           ~(c \subseteq w \ Minimise!Removal(Spans(w, level), start, 1))
    PROVE  Seen(w, c, level, start + 1)
<1> DEFINE spans == Spans(w, level)
           here == {s \in spans : /\ start <= Minimise!Place(spans, s)
                                  /\ Minimise!Place(spans, s) < start + 1}
<1>1. /\ \A s \in spans : Minimise!Place(spans, s) \in Nat
      /\ \A s, t \in spans : Minimise!Place(spans, s) = Minimise!Place(spans, t) => s = t
  BY SpansAre, PlaceIs
<1>2. PICK i \in c : i \in UNION here
  BY DEF Minimise!Removal
<1> HIDE DEF spans
<1>3. PICK t \in here : i \in t
  BY <1>2
<1>4. ASSUME NEW s \in spans, Minimise!Place(spans, s) < start + 1 PROVE s \cap c # {}
  <2>1. CASE Minimise!Place(spans, s) < start
    BY <2>1 DEF Seen, spans
  <2>2. CASE ~(Minimise!Place(spans, s) < start)
    <3>1. t \in spans /\ Minimise!Place(spans, s) = Minimise!Place(spans, t)
      BY <1>1, <1>4, <2>2
    <3>2. s = t
      BY <1>1, <3>1
    <3> QED
      BY <1>2, <1>3, <3>2
  <2> QED
    BY <2>1, <2>2
<1> QED
  BY <1>4 DEF Seen, spans

LEMMA SeenAll ==
    ASSUME NEW w \in SUBSET Position, NEW c, NEW level \in Level, NEW start \in Int,
           Seen(w, c, level, start), start >= Cardinality(Spans(w, level))
    PROVE  Tight(w, c, level)
<1>1. /\ Cardinality(Spans(w, level)) \in Nat
      /\ \A s \in Spans(w, level) :
            /\ Minimise!Place(Spans(w, level), s) \in Nat
            /\ Minimise!Place(Spans(w, level), s) < Cardinality(Spans(w, level))
  BY SpansAre, PlaceIs
<1> QED
  BY <1>1 DEF Seen, Tight

-----------------------------------------------------------------------------
(* The trials.                                                              *)

Budgets ==
    /\ used.candidates \in Nat /\ used.candidates <= MaxCandidates
    /\ used.packets \in Nat /\ used.packets <= MaxTotalPackets
    /\ used.bytes \in Nat /\ used.bytes <= MaxTotalBytes
Bytes(w) == Cardinality(w) * Trials
Lasting == ~flaky /\ Minimise!Within(Position)
Needed(w, ds) == core \subseteq w /\ coreDims \subseteq Minimise!Atoms(ds)

LEMMA Monotone ==
    ASSUME NEW a \in Nat, NEW b \in Nat, NEW c \in Nat, a <= b
    PROVE  a * c \in Nat /\ b * c \in Nat /\ a * c <= b * c
OBVIOUS

LEMMA BytesAre ==
    ASSUME NEW w \in SUBSET Position
    PROVE  Bytes(w) \in Nat /\ Bytes(Position) \in Nat /\ Bytes(w) <= Bytes(Position)
<1>1. /\ Cardinality(w) \in Nat /\ Cardinality(Position) \in Nat
      /\ Cardinality(w) <= Cardinality(Position)
  BY SourceIs, FS_Subset, FS_CardinalityType
<1>2. Trials \in Nat
  BY MinimiserAssumption
<1> QED
  BY <1>1, <1>2, Monotone DEF Bytes

LEMMA WithinIs ==
    ASSUME NEW w
    PROVE  Minimise!Within(w) <=>
              /\ used.candidates < MaxCandidates
              /\ used.packets + PacketsPerTrial * Trials <= MaxTotalPackets
              /\ used.bytes + Bytes(w) <= MaxTotalBytes
BY SpansCount, Zenon DEF Minimise!Within, Bytes

LEMMA TestIs ==
    ASSUME Budgets, NEW w \in SUBSET Position, NEW ds, NEW f \in Minimise!Outcomes,
           Minimise!Test(w, ds, f), UNCHANGED flaky
    PROVE  /\ Budgets'
           /\ f # -1 => last'.wire = w /\ last'.dims = ds /\ last'.failures = f
           /\ ~flaky /\ f = Trials => Needed(w, ds)
           /\ Lasting' => Lasting
           /\ Lasting /\ f # Trials => ~Needed(w, ds)
<1>1. /\ MaxCandidates \in Nat /\ MaxTotalPackets \in Nat /\ MaxTotalBytes \in Nat
      /\ Trials \in Nat \ {0} /\ PacketsPerTrial * Trials \in Nat
  <2>1. Trials \in Nat \ {0} /\ PacketsPerTrial \in Nat
    BY MinimiserAssumption
  <2>2. PacketsPerTrial * Trials \in Nat
    BY <2>1, Monotone
  <2> QED
    BY <2>1, <2>2, MinimiserAssumption
<1>2. Bytes(w) \in Nat /\ Bytes(Position) \in Nat /\ Bytes(w) <= Bytes(Position)
  BY BytesAre
<1>3. \/ /\ Minimise!Within(w) /\ f \in Minimise!Failures(w, ds)
         /\ used'.candidates = used.candidates + 1
         /\ used'.packets = used.packets + PacketsPerTrial * Trials
         /\ used'.bytes = used.bytes + Bytes(w)
         /\ last' = [wire |-> w, dims |-> ds, failures |-> f]
      \/ ~Minimise!Within(w) /\ f = -1 /\ used' = used
  <2>1. CASE Minimise!Within(w)
    <3>1. /\ f \in Minimise!Failures(w, ds)
          /\ used' = [candidates |-> used.candidates + 1,
                      packets |-> used.packets + PacketsPerTrial * Trials,
                      bytes |-> used.bytes + Bytes(w)]
          /\ last' = [wire |-> w, dims |-> ds, failures |-> f]
      BY <2>1, SpansCount, Zenon DEF Minimise!Test, Bytes
    <3>2. /\ used'.candidates = used.candidates + 1
          /\ used'.packets = used.packets + PacketsPerTrial * Trials
          /\ used'.bytes = used.bytes + Bytes(w)
      BY <3>1, Zenon
    <3> QED
      BY <2>1, <3>1, <3>2, Zenon
  <2>2. CASE ~Minimise!Within(w)
    BY <2>2, Zenon DEF Minimise!Test
  <2> QED
    BY <2>1, <2>2, Zenon
<1>4. ASSUME f \in Minimise!Failures(w, ds), ~flaky
      PROVE  (f = Trials <=> Needed(w, ds)) /\ f # -1
  <2>1. f = IF Needed(w, ds) THEN Trials ELSE 0
    <3>1. CASE Needed(w, ds)
      BY <1>4, <3>1, Zenon DEF Minimise!Failures, Needed
    <3>2. CASE ~Needed(w, ds)
      BY <1>4, <3>2, Zenon DEF Minimise!Failures, Needed
    <3> QED
      BY <3>1, <3>2, Zenon
  <2> QED
    BY <1>1, <2>1
<1>5. Budgets'
  BY <1>1, <1>2, <1>3, WithinIs DEF Budgets
<1>6. f # -1 => last'.wire = w /\ last'.dims = ds /\ last'.failures = f
  <2>1. ASSUME NEW r, r = [wire |-> w, dims |-> ds, failures |-> f]
        PROVE  r.wire = w /\ r.dims = ds /\ r.failures = f
    BY <2>1
  <2> QED
    BY <1>3, <2>1, Zenon
<1>7. ~flaky /\ f = Trials => Needed(w, ds)
  <2>1. Trials # -1
    BY <1>1
  <2> QED
    BY <1>3, <1>4, <2>1, Zenon
<1>8. Lasting' => Lasting
  <2>1. Lasting' <=>
           /\ ~flaky' /\ used'.candidates < MaxCandidates
           /\ used'.packets + PacketsPerTrial * Trials <= MaxTotalPackets
           /\ used'.bytes + Bytes(Position) <= MaxTotalBytes
    BY SpansCount, Zenon DEF Lasting, Minimise!Within, Bytes
  <2>2. Lasting <=>
           /\ ~flaky /\ used.candidates < MaxCandidates
           /\ used.packets + PacketsPerTrial * Trials <= MaxTotalPackets
           /\ used.bytes + Bytes(Position) <= MaxTotalBytes
    BY WithinIs, Zenon DEF Lasting
  <2> QED
    BY <1>1, <1>2, <1>3, <2>1, <2>2 DEF Budgets
<1>9. Lasting /\ f # Trials => ~Needed(w, ds)
  <2>1. Lasting => Minimise!Within(w)
    BY <1>1, <1>2, WithinIs DEF Lasting, Budgets
  <2> QED
    BY <1>3, <1>4, <2>1, Zenon DEF Lasting
<1> QED
  BY <1>5, <1>6, <1>7, <1>8, <1>9

-----------------------------------------------------------------------------
(* The minimiser's invariant: what is left holds the failure; what the      *)
(* levels that are over found, and the single spans this round has tried,   *)
(* is still so; the base is a unanimous test of what is left.               *)

Phase == {"baseline", "dimensions", "final", "over"}
MinimiserType ==
    /\ wire \in SUBSET Position /\ 1 \in wire /\ KeepsLines(wire) /\ core \in SUBSET Position
    /\ flaky \in BOOLEAN /\ dims \in Seq(STRING) /\ phase \in Level \cup Phase
    /\ parts \in Nat /\ from \in Int /\ at \in Nat \ {0} /\ Budgets
    /\ (phase \in Level \cup {"baseline"} => at = 1) /\ (phase = "baseline" => parts = 0)

ReportInv ==
    /\ phase = "baseline" => wire = Position /\ dims = Dimensions
    /\ phase # "over" => status = "none"
    /\ phase \notin {"baseline", "over"} =>
          base.wire = wire /\ base.dims = dims /\ base.failures = Trials
    /\ status \in {"stable", "flaky"} =>
          /\ base.wire = wire /\ base.dims = dims /\ base.failures >= Quorum
          /\ wire # Position \/ dims # Dimensions => base.failures = Trials
    /\ status = "stable" => last.wire = wire /\ last.dims = dims /\ last.failures = Trials

NeedInv == ~flaky => Needed(wire, dims)

Late == phase \in {"dimensions", "final"} \/ status = "stable"
RoundIs(w, c, level, p, start) ==
    /\ p <= Cardinality(Spans(w, level))
    /\ p = Cardinality(Spans(w, level)) /\ p # 0 => Seen(w, c, level, start)
MinimalInv ==
    Lasting =>
       /\ phase \in {"body-lines", "values"} \/ Late => Tight(wire, core, "headers")
       /\ phase = "values" \/ Late => Tight(wire, core, "body-lines")
       /\ Late => Tight(wire, core, "values")
       /\ phase \in Level => RoundIs(wire, core, phase, parts, from)
       /\ phase = "dimensions" =>
             at - 1 <= Len(dims) /\ \A i \in 1..at - 1 : dims[i] \in coreDims
       /\ phase = "final" \/ status = "stable" => \A i \in DOMAIN dims : dims[i] \in coreDims

MinimiserInv == MinimiserType /\ ReportInv /\ NeedInv /\ MinimalInv

LEMMA MinimiserStarts ==
    ASSUME Init
    PROVE  MinimiserInv
<1>1. /\ wire = Position /\ core \in SUBSET Position /\ flaky \in BOOLEAN /\ dims = Dimensions
      /\ coreDims \subseteq Minimise!Atoms(dims)
      /\ phase = "baseline" /\ parts = 0 /\ from = 0 /\ at = 1 /\ status = "none"
  BY Zenon DEF Init, Minimise!Init, Position
<1>2. used.candidates = 0 /\ used.packets = 0 /\ used.bytes = 0
  <2>1. used = [candidates |-> 0, packets |-> 0, bytes |-> 0]
    BY Zenon DEF Init, Minimise!Init
  <2> QED
    BY <2>1, Zenon
<1>3. Budgets
  BY <1>2, MinimiserAssumption DEF Budgets
<1>4. MinimiserType
  BY <1>1, <1>3, SourceIs, MinimiserAssumption DEF MinimiserType, KeepsLines, Phase
<1>5. ReportInv /\ NeedInv /\ MinimalInv
  BY <1>1 DEF ReportInv, NeedInv, Needed, MinimalInv, Late, Level, Minimise!Levels
<1> QED
  BY <1>4, <1>5 DEF MinimiserInv

LEMMA BaselineKeeps ==
    ASSUME MinimiserInv, Minimise!Baseline
    PROVE  MinimiserInv'
<1> USE DEF MinimiserInv
<1>1. /\ phase = "baseline" /\ UNCHANGED <<core, coreDims, flaky, wire, dims, parts, from, at>>
      /\ base' = last'
  BY Zenon DEF Minimise!Baseline
<1>2. PICK f \in Minimise!Outcomes :
             /\ Minimise!Test(wire, dims, f)
             /\ \/ f < Quorum /\ phase' = "over" /\ status' = "CorpusError"
                \/ ~(f < Quorum) /\ f # Trials /\ phase' = "over" /\ status' = "flaky"
                \/ ~(f < Quorum) /\ f = Trials /\ phase' = "sections" /\ status' = status
  BY Zenon DEF Minimise!Baseline, Minimise!Over, Minimise!Stable
<1>3. f \in Int /\ Quorum \in Int /\ Quorum >= 1 /\ Trials \in Int
  <2>1. Quorum \in 1..Trials /\ Trials \in Int
    BY MinimiserAssumption
  <2> QED
    BY <2>1 DEF Minimise!Outcomes
<1>4. Budgets' /\ (Lasting' => Lasting)
      /\ (f # -1 => last'.wire = wire /\ last'.dims = dims /\ last'.failures = f)
  BY <1>1, <1>2, TestIs DEF MinimiserType
<1>5. MinimiserType'
  BY <1>1, <1>2, <1>4, Zenon DEF MinimiserType, KeepsLines, Phase, Level, Minimise!Levels
<1>6. ~(f < Quorum) => base'.wire = wire' /\ base'.dims = dims' /\ base'.failures = f
  <2>1. f < Quorum \/ f # -1
    BY <1>3
  <2> QED
    BY <1>1, <1>4, <2>1, Zenon
<1>7. ReportInv'
  BY <1>1, <1>2, <1>3, <1>6 DEF ReportInv
<1>8. NeedInv'
  BY <1>1, Zenon DEF NeedInv, Needed
<1>9. MinimalInv'
  <2>1. Cardinality(Spans(wire, "sections")) \in Nat /\ "sections" \in Level
    BY SpansAre, PlaceIs DEF MinimiserType, Level, Minimise!Levels
  <2>2. RoundIs(wire', core', "sections", parts', from')
    BY <1>1, <2>1 DEF RoundIs, MinimiserType
  <2> QED
    BY <1>1, <1>2, <2>2 DEF MinimalInv, Late, Level, Minimise!Levels, ReportInv
<1> QED
  BY <1>5, <1>7, <1>8, <1>9

(* Nothing is seen before the first place.                                  *)
LEMMA NothingSeen ==
    ASSUME NEW w \in SUBSET Position, NEW c, NEW level \in Level
    PROVE  Seen(w, c, level, 0) /\ Cardinality(Spans(w, level)) \in Nat
BY SpansAre, PlaceIs DEF Seen

(* A level that is over has nothing left to delete alone.                   *)
LEMMA LevelOver ==
    ASSUME MinimiserInv, NEW level \in Level, phase = level,
           phase' = Minimise!After(level), parts' = 0, from' = 0, Budgets',
           UNCHANGED <<core, coreDims, flaky, wire, dims, at, base, status>>,
           Lasting' => Lasting, Lasting => Tight(wire, core, level)
    PROVE  MinimiserInv'
<1> USE DEF MinimiserInv
<1>1. /\ level = "sections" => phase' = "headers"
      /\ level = "headers" => phase' = "body-lines"
      /\ level = "body-lines" => phase' = "values"
      /\ level = "values" => phase' = "dimensions"
      /\ level \in {"sections", "headers", "body-lines", "values"}
  BY DEF Minimise!After, Level, Minimise!Levels
<1>2. at = 1 /\ status = "none" /\ phase # "baseline"
  BY <1>1 DEF MinimiserType, ReportInv
<1>3. MinimiserType'
  <2>1. phase' \in Level \cup Phase /\ phase' # "baseline"
    BY <1>1 DEF Phase, Level, Minimise!Levels
  <2>2. 0 \in Nat /\ 0 \in Int
    OBVIOUS
  <2> QED
    BY <1>2, <2>1, <2>2, Zenon DEF MinimiserType, KeepsLines
<1>4. ReportInv'
  BY <1>1, <1>2, Zenon DEF ReportInv
<1>5. NeedInv'
  BY Zenon DEF NeedInv, Needed
<1>6. MinimalInv'
  <2>1. ASSUME Lasting, NEW l \in Level PROVE RoundIs(wire', core', l, parts', from')
    <3>1. RoundIs(wire, core, l, 0, 0)
      <4>1. wire \in SUBSET Position
        BY DEF MinimiserType
      <4>2. Cardinality(Spans(wire, l)) \in Nat
        BY <2>1, <4>1, NothingSeen, Zenon
      <4>3. 0 <= Cardinality(Spans(wire, l))
        BY <4>2
      <4> QED
        BY <4>3, Zenon DEF RoundIs
    <3> QED
      BY <3>1, Zenon
  <2>2. at' - 1 = 0 /\ Len(dims') \in Nat
    BY <1>2 DEF MinimiserType
  <2> QED
    BY <1>1, <1>2, <2>1, <2>2 DEF MinimalInv, Late, Level, Minimise!Levels
<1> QED
  BY <1>3, <1>4, <1>5, <1>6

(* What a step that stays in the level keeps.                               *)
LEMMA LevelGoesOn ==
    ASSUME MinimiserInv, phase \in Level, parts' \in Nat, from' \in Int, Budgets',
           UNCHANGED <<core, coreDims, flaky, wire, dims, at, base, status, phase>>,
           Lasting' => Lasting, Lasting => RoundIs(wire, core, phase, parts', from')
    PROVE  MinimiserInv'
<1> USE DEF MinimiserInv
<1>1. phase \notin Phase /\ status = "none"
  BY DEF Level, Minimise!Levels, Phase, ReportInv
<1>2. MinimiserType'
  BY <1>1, Zenon DEF MinimiserType, KeepsLines, Phase
<1>3. ReportInv'
  BY <1>1, Zenon DEF ReportInv, Phase
<1>4. NeedInv'
  BY Zenon DEF NeedInv, Needed
<1>5. MinimalInv'
  BY <1>1, Zenon DEF MinimalInv, Late, Phase
<1> QED
  BY <1>2, <1>3, <1>4, <1>5

LEMMA BeginRoundKeeps ==
    ASSUME MinimiserInv, NEW level \in Level, Minimise!BeginRound(level)
    PROVE  MinimiserInv'
<1>1. /\ phase = level /\ from' = 0
      /\ UNCHANGED <<core, coreDims, flaky, wire, dims, at, used, last, base, status>>
      /\ \/ Spans(wire, level) = {} /\ phase' = Minimise!After(level) /\ parts' = parts
         \/ /\ parts' = Minimise!Least(2, Cardinality(Spans(wire, level)))
            /\ UNCHANGED phase
      /\ parts = 0
  BY SpansCount, Zenon DEF Minimise!BeginRound, Spans
<1>2. Budgets' /\ (Lasting' => Lasting)
  BY <1>1, Zenon DEF MinimiserInv, MinimiserType, Budgets, Lasting, Minimise!Within
<1>3. CASE Spans(wire, level) = {} /\ phase' = Minimise!After(level) /\ parts' = parts
  <2>1. Tight(wire, core, level)
    BY <1>3 DEF Tight
  <2> QED
    BY <1>1, <1>2, <1>3, <2>1, LevelOver
<1>4. CASE parts' = Minimise!Least(2, Cardinality(Spans(wire, level))) /\ UNCHANGED phase
  <2>1. Seen(wire, core, level, 0) /\ Cardinality(Spans(wire, level)) \in Nat
    BY NothingSeen DEF MinimiserInv, MinimiserType
  <2>2. parts' \in Nat /\ parts' <= Cardinality(Spans(wire, level))
    BY <1>4, <2>1 DEF Minimise!Least
  <2>3. RoundIs(wire, core, phase, parts', from')
    BY <1>1, <2>1, <2>2 DEF RoundIs
  <2> QED
    BY <1>1, <1>2, <1>4, <2>2, <2>3, LevelGoesOn
<1> QED
  BY <1>1, <1>3, <1>4

(* A deletion that reproduced: the levels before stay as they were left.    *)
LEMMA DeletionKeeps ==
    ASSUME MinimiserInv, NEW level \in Level, phase = level, NEW r, Removes(wire, level, r),
           wire' = wire \ r, parts' = 0, from' = 0, Budgets',
           UNCHANGED <<core, coreDims, flaky, dims, at, status, phase>>,
           Lasting' => Lasting, ~flaky => Needed(wire \ r, dims),
           base'.wire = wire' /\ base'.dims = dims /\ base'.failures = Trials
    PROVE  MinimiserInv'
<1> USE DEF MinimiserInv
<1>1. phase \notin Phase /\ status = "none" /\ wire \in SUBSET Position
  BY DEF Level, Minimise!Levels, Phase, ReportInv, MinimiserType
<1>2. wire' \in SUBSET Position /\ 1 \in wire' /\ KeepsLines(wire')
  <2>1. KeepsLines(wire \ r)
    BY LinesKept DEF MinimiserType
  <2> QED
    BY <1>1, <2>1 DEF Removes, MinimiserType
<1>3. MinimiserType'
  <2>1. 0 \in Nat /\ 0 \in Int
    OBVIOUS
  <2> QED
    BY <1>1, <1>2, <2>1, Zenon DEF MinimiserType, Phase
<1>4. ReportInv'
  BY <1>1, Zenon DEF ReportInv, Phase
<1>5. NeedInv'
  BY Zenon DEF NeedInv, Needed
<1>6. ASSUME Lasting', phase \in {"body-lines", "values"} PROVE Tight(wire', core', "headers")
  <2>1. Tight(wire, core, "headers")
    BY <1>6 DEF MinimalInv
  <2>2. CASE phase = "body-lines"
    <3>1. r \in SUBSET Body(wire)
      BY <2>2 DEF Removes
    <3>2. Spans(wire \ r, "headers") = Spans(wire, "headers")
      BY <1>1, <3>1, BodyLineGone
    <3> QED
      BY <2>1, <3>2 DEF Tight
  <2>3. CASE phase = "values"
    <3>1. r \in SUBSET Header(wire) /\ \A i \in r : Source[i].part = "value"
      BY <2>3 DEF Removes
    <3>2. core \subseteq wire \ r
      BY <1>6, Zenon DEF Lasting, Needed
    <3>3. Tight(wire \ r, core, "headers")
      BY <1>1, <2>1, <3>1, <3>2, ValueGone
    <3> QED
      BY <3>3
  <2> QED
    BY <1>6, <2>2, <2>3
<1>7. ASSUME Lasting', phase = "values" PROVE Tight(wire', core', "body-lines")
  <2>1. Tight(wire, core, "headers") /\ Tight(wire, core, "body-lines")
    BY <1>7 DEF MinimalInv
  <2>2. r \in SUBSET Header(wire) /\ \A i \in r : Source[i].part = "value"
    BY <1>7 DEF Removes
  <2>3. core \subseteq wire \ r
    BY <1>7, Zenon DEF Lasting, Needed
  <2>4. Spans(wire \ r, "body-lines") = Spans(wire, "body-lines")
    BY <1>1, <2>1, <2>2, <2>3, ValueGone
  <2> QED
    BY <2>1, <2>4 DEF Tight
<1>8. RoundIs(wire', core', phase', parts', from')
  <2>1. Cardinality(Spans(wire', level)) \in Nat
    BY <1>2, NothingSeen
  <2>2. 0 <= Cardinality(Spans(wire', level))
    BY <2>1
  <2> QED
    BY <2>2, Zenon DEF RoundIs
<1>9. MinimalInv'
  BY <1>1, <1>6, <1>7, <1>8, Zenon DEF MinimalInv, Late, Phase
<1> QED
  BY <1>3, <1>4, <1>5, <1>9

LEMMA TryRemovalKeeps ==
    ASSUME MinimiserInv, NEW level \in Level, Minimise!TryRemoval(level)
    PROVE  MinimiserInv'
<1> DEFINE spans == Spans(wire, level)
           n == Cardinality(spans)
           width == Minimise!Ceiling(n, parts)
           r == Minimise!Removal(spans, from, width)
<1>1. /\ phase = level /\ parts > 0
      /\ UNCHANGED <<core, coreDims, flaky, dims, at, status>>
  BY Zenon DEF Minimise!TryRemoval
<1>2. PICK f \in Minimise!Outcomes :
             /\ Minimise!Test(wire \ r, dims, f)
             /\ \/ /\ f = Trials /\ wire' = wire \ r /\ base' = last'
                   /\ parts' = 0 /\ from' = 0 /\ phase' = phase
                \/ f # Trials /\ Minimise!Finer(level, n, width) /\ UNCHANGED <<wire, base>>
  BY SpansCount, Zenon DEF Minimise!TryRemoval, Minimise!Stable, Spans
<1>3. /\ wire \in SUBSET Position /\ parts \in Nat /\ from \in Int /\ n \in Nat
      /\ phase \notin Phase /\ Budgets /\ NeedInv
  BY NothingSeen, <1>1 DEF MinimiserInv, MinimiserType, Level, Minimise!Levels, Phase
<1>4. Removes(wire, level, r)
  <2> DEFINE some == {s \in spans : /\ from <= Minimise!Place(spans, s)
                                    /\ Minimise!Place(spans, s) < from + width}
  <2>1. r = UNION some
    BY Zenon DEF Minimise!Removal
  <2>2. some \in SUBSET spans
    OBVIOUS
  <2> HIDE DEF some, r
  <2>3. Removes(wire, level, UNION some)
    BY <1>3, <2>2, RemovalIs
  <2> QED
    BY <2>1, <2>3
<1> HIDE DEF r
<1>5. wire \ r \in SUBSET Position
  BY <1>3
<1>6. /\ Budgets' /\ (Lasting' => Lasting)
      /\ f # -1 => last'.wire = wire \ r /\ last'.dims = dims /\ last'.failures = f
      /\ ~flaky /\ f = Trials => Needed(wire \ r, dims)
      /\ Lasting /\ f # Trials => ~Needed(wire \ r, dims)
  <2>1. UNCHANGED flaky
    BY <1>1
  <2> QED
    BY <1>2, <1>3, <1>5, <2>1, TestIs, Zenon
<1>7. CASE /\ f = Trials /\ wire' = wire \ r /\ base' = last'
           /\ parts' = 0 /\ from' = 0 /\ phase' = phase
  <2>1. f # -1
    BY <1>7, MinimiserAssumption
  <2>2. base'.wire = wire' /\ base'.dims = dims /\ base'.failures = Trials
    BY <1>6, <1>7, <2>1, Zenon
  <2> QED
    BY <1>1, <1>4, <1>6, <1>7, <2>2, DeletionKeeps
<1>8. CASE f # Trials /\ Minimise!Finer(level, n, width) /\ UNCHANGED <<wire, base>>
  <2>1. Lasting => RoundIs(wire, core, level, parts, from) /\ core \subseteq wire
                   /\ ~(core \subseteq wire \ r)
    BY <1>1, <1>6, <1>8, Zenon DEF MinimiserInv, MinimalInv, NeedInv, Needed, Lasting
  <2>2. width \in Int /\ (parts = n => width = 1)
    BY <1>1, <1>3, WholeWidth
  <2>3. Lasting /\ parts = n => Seen(wire, core, level, from + 1)
    <3>1. ASSUME Lasting, parts = n PROVE Seen(wire, core, level, from + 1)
      <4>1. Seen(wire, core, level, from)
        BY <1>1, <2>1, <3>1 DEF RoundIs
      <4>2. r = Minimise!Removal(spans, from, 1)
        BY <2>2, <3>1, Zenon DEF r
      <4>3. core \subseteq wire /\ ~(core \subseteq wire \ Minimise!Removal(spans, from, 1))
        BY <2>1, <3>1, <4>2, Zenon
      <4> QED
        BY <1>3, <4>1, <4>3, SeenNext
    <3> QED
      BY <3>1
  <2>4. Lasting => parts <= n
    BY <2>1 DEF RoundIs
  <2>5. \/ from + width < n /\ from' = from + width /\ parts' = parts /\ phase' = phase
        \/ /\ ~(from + width < n) /\ from' = 0 /\ parts = n /\ parts' = 0
           /\ phase' = Minimise!After(level)
        \/ /\ from' = 0 /\ parts # n /\ parts' = Minimise!Least(n, parts * 2)
           /\ phase' = phase
    BY <1>8, Zenon DEF Minimise!Finer
  <2> HIDE DEF width, n
  <2>6. CASE from + width < n /\ from' = from + width /\ parts' = parts /\ phase' = phase
    <3>1. Lasting => RoundIs(wire, core, phase, parts', from')
      BY <1>1, <1>3, <2>2, <2>3, <2>4, <2>6 DEF RoundIs, n
    <3>2. parts' \in Nat /\ from' \in Int
      BY <1>3, <2>2, <2>6
    <3> QED
      BY <1>1, <1>6, <1>8, <2>6, <3>1, <3>2, LevelGoesOn
  <2>7. CASE /\ ~(from + width < n) /\ from' = 0 /\ parts = n /\ parts' = 0
             /\ phase' = Minimise!After(level)
    <3>1. Lasting => Tight(wire, core, level)
      <4>1. from + 1 \in Int /\ from + 1 >= Cardinality(Spans(wire, level))
        BY <1>3, <2>2, <2>7 DEF n
      <4> QED
        BY <1>3, <2>3, <2>7, <4>1, SeenAll
    <3> QED
      BY <1>1, <1>6, <1>8, <2>7, <3>1, LevelOver
  <2>8. CASE /\ from' = 0 /\ parts # n /\ parts' = Minimise!Least(n, parts * 2)
             /\ phase' = phase
    <3>1. parts' \in Nat /\ parts' <= n
      BY <1>3, <2>8 DEF Minimise!Least
    <3>2. RoundIs(wire, core, phase, parts', from')
      BY <1>1, <1>3, <2>8, <3>1, NothingSeen DEF RoundIs, n
    <3>3. phase \in Level /\ from' \in Int
      BY <1>1, <2>8
    <3> QED
      BY <1>1, <1>6, <1>8, <2>8, <3>1, <3>2, <3>3, LevelGoesOn
  <2> QED
    BY <2>5, <2>6, <2>7, <2>8
<1> QED
  BY <1>2, <1>7, <1>8

-----------------------------------------------------------------------------
(* The dimensions, and the end.                                             *)

Fewer(ds, k) == SubSeq(ds, 1, k - 1) \o SubSeq(ds, k + 1, Len(ds))
LEMMA FewerAre ==
    ASSUME NEW ds \in Seq(STRING), NEW k \in 1..Len(ds)
    PROVE  /\ Fewer(ds, k) \in Seq(STRING) /\ Len(Fewer(ds, k)) = Len(ds) - 1
           /\ \A i \in 1..k - 1 : Fewer(ds, k)[i] = ds[i]
           /\ \A d \in Minimise!Atoms(ds) : d # ds[k] => d \in Minimise!Atoms(Fewer(ds, k))
<1> DEFINE a == SubSeq(ds, 1, k - 1)
           b == SubSeq(ds, k + 1, Len(ds))
<1>1. a \in Seq(STRING) /\ Len(a) = k - 1 /\ \A i \in 1..k - 1 : a[i] = ds[i]
  OBVIOUS
<1>2. b \in Seq(STRING) /\ Len(b) = Len(ds) - k /\ \A i \in 1..Len(ds) - k : b[i] = ds[k + i]
  OBVIOUS
<1>3. Len(ds) \in Nat /\ k \in Nat \ {0} /\ k <= Len(ds)
  OBVIOUS
<1>4. Fewer(ds, k) = a \o b
  BY DEF Fewer
<1> HIDE DEF a, b
<1> DEFINE c == a \o b
<1>5. c \in Seq(STRING) /\ Len(c) = Len(ds) - 1 /\ DOMAIN c = 1..Len(ds) - 1
  <2>1. c \in Seq(STRING) /\ Len(c) = Len(a) + Len(b)
    <3>1. \A x, y \in Seq(STRING) : x \o y \in Seq(STRING) /\ Len(x \o y) = Len(x) + Len(y)
      OBVIOUS
    <3> QED
      BY <1>1, <1>2, <3>1, Zenon DEF c
  <2>2. Len(c) = Len(ds) - 1
    BY <1>1, <1>2, <1>3, <2>1
  <2>3. DOMAIN c = 1..Len(c)
    BY <2>1
  <2> QED
    BY <2>1, <2>2, <2>3
<1>6. \A i \in 1..k - 1 : c[i] = ds[i]
  BY <1>1, <1>2, <1>3
<1>7. \A i \in 1..Len(ds) - k : c[k - 1 + i] = ds[k + i]
  BY <1>1, <1>2, <1>3
<1> HIDE DEF c
<1>8. ASSUME NEW j \in 1..Len(ds), j # k PROVE \E i \in DOMAIN c : c[i] = ds[j]
  <2>1. CASE j < k
    <3>1. j \in 1..k - 1 /\ j \in 1..Len(ds) - 1
      BY <1>3, <2>1
    <3> QED
      BY <1>5, <1>6, <3>1, Zenon
  <2>2. CASE j > k
    <3>1. j - 1 \in 1..Len(ds) - 1 /\ j - k \in 1..Len(ds) - k
      BY <1>3, <2>2
    <3>2. k - 1 + (j - k) = j - 1 /\ k + (j - k) = j
      BY <1>3
    <3>3. c[j - 1] = ds[j]
      BY <1>7, <3>1, <3>2
    <3> QED
      BY <1>5, <3>1, <3>3, Zenon
  <2>3. j < k \/ j > k
    BY <1>3, <1>8
  <2> QED
    BY <2>1, <2>2, <2>3
<1>9. DOMAIN ds = 1..Len(ds)
  OBVIOUS
<1>10. \A d \in Minimise!Atoms(ds) : d # ds[k] => d \in Minimise!Atoms(c)
  BY <1>8, <1>9, Zenon DEF Minimise!Atoms
<1> QED
  BY <1>4, <1>5, <1>6, <1>10, Zenon DEF c

LEMMA TryDimensionKeeps ==
    ASSUME MinimiserInv, Minimise!TryDimension
    PROVE  MinimiserInv'
<1> USE DEF MinimiserInv
<1>1. /\ phase = "dimensions" /\ UNCHANGED <<core, coreDims, flaky, wire, parts, from, status>>
      /\ \/ /\ at > Len(dims) /\ phase' = "final"
            /\ UNCHANGED <<dims, at, used, last, base>>
         \/ /\ ~(at > Len(dims)) /\ UNCHANGED phase
            /\ \E f \in Minimise!Outcomes :
                  /\ Minimise!Test(wire, Fewer(dims, at), f)
                  /\ \/ /\ f = Trials /\ dims' = Fewer(dims, at) /\ base' = last'
                        /\ at' = at
                     \/ f # Trials /\ dims' = dims /\ base' = base /\ at' = at + 1
  BY Zenon DEF Minimise!TryDimension, Minimise!Stable, Fewer
<1>2. /\ wire \in SUBSET Position /\ dims \in Seq(STRING) /\ Len(dims) \in Nat
      /\ at \in Nat \ {0} /\ status = "none" /\ phase \notin Level
  BY <1>1 DEF MinimiserType, ReportInv, Level, Minimise!Levels
<1>3. CASE at > Len(dims) /\ phase' = "final" /\ UNCHANGED <<dims, at, used, last, base>>
  <2>1. Budgets' /\ (Lasting' => Lasting)
    BY <1>1, <1>3, Zenon DEF MinimiserType, Budgets, Lasting, Minimise!Within
  <2>2. "final" \notin Level /\ "final" \in Phase
    BY DEF Level, Minimise!Levels, Phase
  <2>3. MinimiserType'
    BY <1>1, <1>3, <2>1, <2>2, Zenon DEF MinimiserType, KeepsLines
  <2>4. ReportInv' /\ NeedInv'
    BY <1>1, <1>3, Zenon DEF ReportInv, NeedInv, Needed
  <2>5. Lasting => \A i \in DOMAIN dims : dims[i] \in coreDims
    BY <1>1, <1>2, <1>3 DEF MinimalInv
  <2>6. MinimalInv'
    BY <1>1, <1>2, <1>3, <2>1, <2>2, <2>5, Zenon DEF MinimalInv, Late
  <2> QED
    BY <2>3, <2>4, <2>6
<1>4. ASSUME ~(at > Len(dims)), UNCHANGED phase, NEW f \in Minimise!Outcomes,
             Minimise!Test(wire, Fewer(dims, at), f),
             \/ f = Trials /\ dims' = Fewer(dims, at) /\ base' = last' /\ at' = at
             \/ f # Trials /\ dims' = dims /\ base' = base /\ at' = at + 1
      PROVE  MinimiserInv'
  <2> DEFINE fewer == Fewer(dims, at)
  <2>1. at \in 1..Len(dims)
    BY <1>2, <1>4
  <2>2. /\ fewer \in Seq(STRING) /\ Len(fewer) = Len(dims) - 1
        /\ \A i \in 1..at - 1 : fewer[i] = dims[i]
        /\ \A d \in Minimise!Atoms(dims) : d # dims[at] => d \in Minimise!Atoms(fewer)
    BY <1>2, <2>1, FewerAre
  <2> HIDE DEF fewer
  <2>3. /\ Budgets' /\ (Lasting' => Lasting)
        /\ f # -1 => last'.wire = wire /\ last'.dims = fewer /\ last'.failures = f
        /\ ~flaky /\ f = Trials => Needed(wire, fewer)
        /\ Lasting /\ f # Trials => ~Needed(wire, fewer)
    <3>1. UNCHANGED flaky /\ Budgets
      BY <1>1 DEF MinimiserType
    <3> QED
      BY <1>2, <1>4, <3>1, TestIs, Zenon DEF fewer
  <2>4. CASE f = Trials /\ dims' = fewer /\ base' = last' /\ at' = at
    <3>1. f # -1
      BY <2>4, MinimiserAssumption
    <3>2. base'.wire = wire' /\ base'.dims = dims' /\ base'.failures = Trials
      BY <1>1, <2>3, <2>4, <3>1, Zenon
    <3>3. MinimiserType'
      BY <1>1, <1>4, <2>2, <2>3, <2>4, Zenon DEF MinimiserType, KeepsLines
    <3>4. ReportInv'
      BY <1>1, <1>2, <1>4, <3>2 DEF ReportInv
    <3>5. NeedInv'
      BY <1>1, <2>3, <2>4, Zenon DEF NeedInv, Needed
    <3>6. Lasting => at - 1 <= Len(fewer) /\ \A i \in 1..at - 1 : fewer[i] \in coreDims
      BY <1>1, <1>2, <2>1, <2>2 DEF MinimalInv
    <3>7. MinimalInv'
      BY <1>1, <1>2, <1>4, <2>3, <2>4, <3>6 DEF MinimalInv, Late
    <3> QED
      BY <3>3, <3>4, <3>5, <3>7
  <2>5. CASE f # Trials /\ dims' = dims /\ base' = base /\ at' = at + 1
    <3>1. at + 1 \in Nat \ {0} /\ (at + 1) - 1 = at
      BY <1>2
    <3>2. phase \notin Level \cup {"baseline"}
      BY <1>1, <1>2
    <3>3. MinimiserType'
      BY <1>1, <1>4, <2>3, <2>5, <3>1, <3>2, Zenon DEF MinimiserType, KeepsLines
    <3>4. ReportInv'
      BY <1>1, <1>2, <1>4, <2>5, Zenon DEF ReportInv
    <3>5. NeedInv'
      BY <1>1, <2>5, Zenon DEF NeedInv, Needed
    <3>6. Lasting => dims[at] \in coreDims
      BY <2>2, <2>3, <2>5, Zenon DEF NeedInv, Needed, Lasting
    <3>7. Lasting => \A i \in 1..at : dims[i] \in coreDims
      BY <1>1, <1>2, <3>6 DEF MinimalInv
    <3>8. MinimalInv'
      BY <1>1, <1>2, <1>4, <2>1, <2>3, <2>5, <3>1, <3>7 DEF MinimalInv, Late
    <3> QED
      BY <3>3, <3>4, <3>5, <3>8
  <2> QED
    BY <1>4, <2>4, <2>5 DEF fewer
<1> QED
  BY <1>1, <1>3, <1>4

LEMMA ConfirmKeeps ==
    ASSUME MinimiserInv, Minimise!Confirm
    PROVE  MinimiserInv'
<1> USE DEF MinimiserInv
<1>1. PICK f \in Minimise!Outcomes :
             /\ Minimise!Test(wire, dims, f)
             /\ \/ f = Trials /\ status' = "stable"
                \/ f # Trials /\ status' = "flaky"
  BY Zenon DEF Minimise!Confirm, Minimise!Over, Minimise!Stable
<1>2. /\ phase = "final" /\ phase' = "over"
      /\ UNCHANGED <<core, coreDims, flaky, wire, dims, parts, from, at, base>>
  BY Zenon DEF Minimise!Confirm, Minimise!Over
<1>3. /\ Budgets' /\ (Lasting' => Lasting)
      /\ f # -1 => last'.wire = wire /\ last'.dims = dims /\ last'.failures = f
  BY <1>1, <1>2, TestIs DEF MinimiserType
<1>4. "over" \notin Level /\ "over" \in Phase
  BY DEF Level, Minimise!Levels, Phase
<1>5. MinimiserType'
  BY <1>2, <1>3, <1>4, Zenon DEF MinimiserType, KeepsLines
<1>6. ReportInv'
  <2>1. Trials \in Int /\ Quorum \in Int /\ Trials >= Quorum /\ Trials # -1
    BY MinimiserAssumption
  <2> QED
    BY <1>1, <1>2, <1>3, <2>1 DEF ReportInv
<1>7. NeedInv'
  BY <1>2, Zenon DEF NeedInv, Needed
<1>8. MinimalInv'
  BY <1>2, <1>3, <1>4, Zenon DEF MinimalInv, Late
<1> QED
  BY <1>5, <1>6, <1>7, <1>8

LEMMA MinimiserSteps ==
    ASSUME MinimiserInv, [Next]_vars
    PROVE  MinimiserInv'
<1>1. CASE UNCHANGED minimise
  <2>1. UNCHANGED <<core, coreDims, flaky, wire, dims, phase, parts, from, at, used, last,
                    base, status>>
    BY <1>1 DEF minimise
  <2>2. MinimiserType'
    BY <2>1, Zenon DEF MinimiserInv, MinimiserType, KeepsLines, Budgets
  <2>3. ReportInv' /\ NeedInv'
    BY <2>1, Zenon DEF MinimiserInv, ReportInv, NeedInv, Needed
  <2>4. MinimalInv'
    BY <2>1, Zenon DEF MinimiserInv, MinimalInv, Late, Lasting, Minimise!Within
  <2> QED
    BY <2>2, <2>3, <2>4 DEF MinimiserInv
<1>2. CASE Minimise!Next
  BY <1>2, BaselineKeeps, TryDimensionKeeps, ConfirmKeeps, BeginRoundKeeps, TryRemovalKeeps, Zenon
     DEF Minimise!Next, Level
<1>3. UNCHANGED minimise \/ Minimise!Next
  BY DEF Next, ConsoleRuns, TortureWorks, TortureRuns, MinimiserRuns, PacksRun, OutputsRun, ChaosRuns, vars
<1> QED
  BY <1>1, <1>2, <1>3

LEMMA ResultIs ==
    ASSUME MinimiserInv
    PROVE  ResultIsMinimal
<1> USE DEF MinimiserInv
<1>1. Minimise!ResultWasReproduced
  <2>1. Minimise!WholeLines
    BY Zenon DEF MinimiserType, KeepsLines, Minimise!WholeLines, Position
  <2> QED
    BY <2>1, Zenon DEF Minimise!ResultWasReproduced, Minimise!Reported, MinimiserType, Budgets,
       ReportInv, Position
<1>2. ASSUME status = "stable", ~flaky, ~Minimise!Exhausted
      PROVE  /\ \A level \in Minimise!Levels : \A removal \in Minimise!Spans(wire, level) :
                   Minimise!Failures(wire \ removal, dims) = {0}
             /\ \A i \in DOMAIN dims : dims[i] \in coreDims
  <2>1. Lasting /\ wire \in SUBSET Position
    BY <1>2, Zenon DEF Lasting, Minimise!Exhausted, Position, MinimiserType
  <2>2. /\ Tight(wire, core, "headers") /\ Tight(wire, core, "body-lines")
        /\ Tight(wire, core, "values") /\ \A i \in DOMAIN dims : dims[i] \in coreDims
    BY <1>2, <2>1, Zenon DEF MinimalInv, Late
  <2>3. \A level \in Level : Tight(wire, core, level)
    BY <2>1, <2>2, BodyIsTight DEF Level, Minimise!Levels
  <2>4. ASSUME NEW level \in Level, NEW removal \in Spans(wire, level)
        PROVE  Minimise!Failures(wire \ removal, dims) = {0}
    <3>1. ~(core \subseteq wire \ removal)
      BY <2>3 DEF Tight
    <3> QED
      BY <3>1, Zenon DEF Minimise!Failures
  <2> QED
    BY <2>2, <2>4, Zenon DEF Level, Spans
<1> QED
  BY <1>1, <1>2, Zenon DEF ResultIsMinimal, Minimise!ResultIsMinimal

(* The reproducer that is reported failed in every trial of a test, keeps   *)
(* of its lines the fixed parts and cost no more than the budgets; and      *)
(* while the budgets last, nothing a level may delete alone can still be    *)
(* deleted from it (HierarchicalMinimizer.minimize).                        *)
THEOREM ResultsStayMinimal == Spec => []ResultIsMinimal
<1>1. Init => MinimiserInv
  BY MinimiserStarts
<1>2. MinimiserInv /\ [Next]_vars => MinimiserInv'
  BY MinimiserSteps
<1>3. MinimiserInv => ResultIsMinimal
  BY ResultIs
<1> QED
  BY <1>1, <1>2, <1>3, PTL DEF Spec

-----------------------------------------------------------------------------
(* Racing sets of outputs.  A file belongs to the writer that recorded its  *)
(* link; who stages has a file left to stage and who links one to link, so  *)
(* that a writer is done only behind the last link and fails behind the     *)
(* last unlink.                                                             *)

WholeSet(w) == Outputs!Set(w)
OutputPaths == Outputs!Paths
Turn == {"stage", "link", "undo", "clean", "done", "failed", "killed"}
OutputsType ==
    /\ owner \in [OutputPaths -> Writers \cup {Nobody}]
    /\ turn \in [Writers -> Turn]
    /\ temps \in [Writers -> SUBSET OutputPaths]
    /\ linked \in [Writers -> SUBSET OutputPaths]

Owns(w) == \A p \in OutputPaths : owner[p] = w <=> p \in linked[w]
Stands(w, at_, tmp, lnk) ==
    /\ tmp \subseteq WholeSet(w) /\ lnk \subseteq WholeSet(w)
    /\ at_ = "stage" => lnk = {} /\ tmp # WholeSet(w)
    /\ at_ = "link" => lnk # WholeSet(w)
    /\ at_ = "clean" => lnk \in {{}, WholeSet(w)}
    /\ at_ = "done" => lnk = WholeSet(w) /\ tmp = {}
    /\ at_ = "failed" => lnk = {} /\ tmp = {}
OutputsInv ==
    /\ OutputsType
    /\ \A w \in Writers : Owns(w) /\ Stands(w, turn[w], temps[w], linked[w])

LEMMA SetsAre ==
    ASSUME NEW w \in Writers
    PROVE  /\ WholeSet(w) \subseteq OutputPaths /\ WholeSet(w) # {} /\ w # Nobody
           /\ DOMAIN PathsOf[w] \subseteq Nat \ {0}
           /\ \A i \in DOMAIN PathsOf[w] : 1..i - 1 \subseteq DOMAIN PathsOf[w]
<1>1. PathsOf[w] \in Seq(STRING) /\ PathsOf[w] # <<>> /\ w # Nobody
  BY OutputAssumption
<1>2. DOMAIN PathsOf[w] = 1..Len(PathsOf[w]) /\ Len(PathsOf[w]) \in Nat \ {0}
  BY <1>1
<1>3. PathsOf[w][1] \in WholeSet(w)
  BY <1>2 DEF WholeSet, Outputs!Set, Outputs!Range
<1>4. WholeSet(w) \subseteq OutputPaths
  BY DEF WholeSet, OutputPaths, Outputs!Paths
<1> QED
  BY <1>1, <1>2, <1>3, <1>4

(* There is a first path that is not there as long as one is missing.       *)
LEMMA FollowingIs ==
    ASSUME NEW w \in Writers, NEW there, there \subseteq WholeSet(w), there # WholeSet(w)
    PROVE  Outputs!Following(w, there) \in WholeSet(w) \ there
<1> DEFINE Left == {i \in DOMAIN PathsOf[w] : PathsOf[w][i] \notin there}
<1>1. Left # {} /\ Left \subseteq Nat
  BY SetsAre DEF WholeSet, Outputs!Set, Outputs!Range
<1>2. PICK i \in Left : \A j \in Left : ~(<<j, i>> \in OpToRel(<, Nat))
  BY <1>1, WFMin, NatLessThanWellFounded, Zenon
<1>3. ASSUME NEW j \in 1..i - 1 PROVE PathsOf[w][j] \in there
  <2>1. OpToRel(<, Nat) = {p \in Nat \X Nat : p[1] < p[2]}
    BY DEF OpToRel
  <2>2. j \in DOMAIN PathsOf[w] /\ i \in Nat /\ j \in Nat /\ j < i
    BY SetsAre, <1>1
  <2>3. <<j, i>> \in Nat \X Nat /\ <<j, i>>[1] = j /\ <<j, i>>[2] = i
    BY <2>2
  <2>4. <<j, i>> \in OpToRel(<, Nat)
    BY <2>1, <2>2, <2>3, Zenon
  <2>5. j \notin Left
    BY <1>2, <2>4, Zenon
  <2> QED
    BY <2>2, <2>5
<1>4. \E k \in DOMAIN PathsOf[w] :
         PathsOf[w][k] \notin there /\ \A j \in 1..k - 1 : ~(PathsOf[w][j] \notin there)
  BY <1>3
<1>5. \E k \in DOMAIN PathsOf[w] :
         PathsOf[w][k] \notin there /\ Outputs!Following(w, there) = PathsOf[w][k]
  BY <1>4 DEF Outputs!Following
<1> QED
  BY <1>5 DEF WholeSet, Outputs!Set, Outputs!Range

(* What a step of one writer leaves alone for the others.                   *)
LEMMA OthersStand ==
    ASSUME OutputsInv, NEW w \in Writers, NEW v \in Writers, v # w,
           turn' = [turn EXCEPT ![w] = turn'[w]], temps' = [temps EXCEPT ![w] = temps'[w]],
           linked' = [linked EXCEPT ![w] = linked'[w]],
           \A p \in OutputPaths : owner'[p] # owner[p] => {owner[p], owner'[p]} \subseteq {w, Nobody}
    PROVE  Owns(v)' /\ Stands(v, turn'[v], temps'[v], linked'[v])
<1>1. turn'[v] = turn[v] /\ temps'[v] = temps[v] /\ linked'[v] = linked[v]
  BY DEF OutputsInv, OutputsType
<1>2. ASSUME NEW p \in OutputPaths PROVE owner'[p] = v <=> owner[p] = v
  BY SetsAre
<1> QED
  BY <1>1, <1>2 DEF OutputsInv, Owns

LEMMA WriterKeeps ==
    ASSUME OutputsInv, NEW w \in Writers, OutputsType',
           turn' = [turn EXCEPT ![w] = turn'[w]], temps' = [temps EXCEPT ![w] = temps'[w]],
           linked' = [linked EXCEPT ![w] = linked'[w]],
           \A p \in OutputPaths : owner'[p] # owner[p] => {owner[p], owner'[p]} \subseteq {w, Nobody},
           Owns(w)', Stands(w, turn'[w], temps'[w], linked'[w])
    PROVE  OutputsInv'
<1>1. ASSUME NEW v \in Writers
      PROVE  Owns(v)' /\ Stands(v, turn'[v], temps'[v], linked'[v])
  <2>1. CASE v = w
    BY <2>1
  <2>2. CASE v # w
    BY <2>2, OthersStand
  <2> QED
    BY <2>1, <2>2
<1>2. ASSUME NEW v \in Writers PROVE Stands(v, turn[v], temps[v], linked[v])'
  BY <1>1 DEF Stands, WholeSet, Outputs!Set, Outputs!Range
<1> QED
  BY <1>1, <1>2 DEF OutputsInv

LEMMA StageKeeps ==
    ASSUME OutputsInv, NEW w \in Writers, Outputs!Stage(w)
    PROVE  OutputsInv'
<1> DEFINE p == Outputs!Following(w, temps[w])
<1> USE DEF OutputsInv, OutputsType, Outputs!Stage, Outputs!Goto
<1>1. turn[w] = "stage" /\ temps[w] \subseteq WholeSet(w) /\ temps[w] # WholeSet(w) /\ linked[w] = {}
  BY DEF Stands
<1>2. p \in WholeSet(w) \ temps[w] /\ p \in OutputPaths
  BY <1>1, FollowingIs, SetsAre
<1>3. /\ temps' = [temps EXCEPT ![w] = temps[w] \cup {p}] /\ UNCHANGED <<owner, linked>>
      /\ turn' \in {[turn EXCEPT ![w] = "undo"],
                    [turn EXCEPT ![w] = IF temps'[w] = WholeSet(w) THEN "link" ELSE "stage"]}
  BY DEF WholeSet
<1>4. OutputsType'
  BY <1>2, <1>3 DEF Turn, OutputPaths
<1>5. temps'[w] = temps[w] \cup {p} /\ linked'[w] = {}
      /\ turn'[w] \in {"undo", IF temps'[w] = WholeSet(w) THEN "link" ELSE "stage"}
  BY <1>1, <1>3
<1>6. Owns(w)'
  BY <1>3 DEF Owns, OutputPaths, Outputs!Paths, Outputs!Set, Outputs!Range
<1>7. Stands(w, turn'[w], temps'[w], linked'[w])
  BY <1>1, <1>2, <1>5, SetsAre DEF Stands
<1> QED
  BY <1>3, <1>4, <1>6, <1>7, WriterKeeps

LEMMA LinkKeeps ==
    ASSUME OutputsInv, NEW w \in Writers, Outputs!Link(w)
    PROVE  OutputsInv'
<1> DEFINE p == Outputs!Following(w, linked[w])
<1> USE DEF OutputsInv, OutputsType
<1>1. /\ turn[w] = "link" /\ temps[w] \subseteq WholeSet(w) /\ UNCHANGED temps
      /\ linked[w] \subseteq WholeSet(w) /\ linked[w] # WholeSet(w)
  BY DEF Stands, Outputs!Link
<1>2. p \in WholeSet(w) \ linked[w] /\ p \in OutputPaths
  BY <1>1, FollowingIs, SetsAre
<1>3. CASE Outputs!Goto(w, "undo") /\ UNCHANGED <<owner, linked>>
  <2>1. turn' = [turn EXCEPT ![w] = "undo"] /\ UNCHANGED <<owner, linked>>
    BY <1>3 DEF Outputs!Goto
  <2>2. OutputsType'
    BY <1>1, <2>1 DEF Turn, OutputPaths
  <2>3. Owns(w)'
    BY <2>1 DEF Owns, OutputPaths, Outputs!Paths, Outputs!Set, Outputs!Range
  <2>4. Stands(w, turn'[w], temps'[w], linked'[w])
    BY <1>1, <2>1 DEF Stands
  <2> QED
    BY <1>1, <2>1, <2>2, <2>3, <2>4, WriterKeeps
<1>4. CASE /\ owner[p] = Nobody /\ owner' = [owner EXCEPT ![p] = w]
           /\ linked' = [linked EXCEPT ![w] = linked[w] \cup {p}]
           /\ turn' = [turn EXCEPT ![w] = IF linked'[w] = WholeSet(w) THEN "clean" ELSE "link"]
  <2>1. OutputsType'
    BY <1>1, <1>2, <1>4 DEF Turn, OutputPaths
  <2>2. /\ linked'[w] = linked[w] \cup {p}
        /\ turn'[w] = IF linked'[w] = WholeSet(w) THEN "clean" ELSE "link"
        /\ \A q \in OutputPaths : owner'[q] = IF q = p THEN w ELSE owner[q]
    BY <1>2, <1>4
  <2>3. Owns(w)'
    BY <2>2 DEF Owns, OutputPaths, Outputs!Paths, Outputs!Set, Outputs!Range
  <2>4. Stands(w, turn'[w], temps'[w], linked'[w])
    BY <1>1, <1>2, <2>2 DEF Stands
  <2>5. \A q \in OutputPaths : owner'[q] # owner[q] => {owner[q], owner'[q]} \subseteq {w, Nobody}
    BY <1>4, <2>2
  <2>6. /\ turn' = [turn EXCEPT ![w] = turn'[w]] /\ linked' = [linked EXCEPT ![w] = linked'[w]]
    BY <1>4, <2>2
  <2> QED
    BY <1>1, <2>1, <2>3, <2>4, <2>5, <2>6, WriterKeeps
<1> QED
  BY <1>3, <1>4 DEF Outputs!Link, Outputs!Goto, WholeSet

LEMMA UndoKeeps ==
    ASSUME OutputsInv, NEW w \in Writers, Outputs!Undo(w)
    PROVE  OutputsInv'
<1> USE DEF OutputsInv, OutputsType
<1>1. /\ turn[w] = "undo" /\ UNCHANGED temps
      /\ temps[w] \subseteq WholeSet(w) /\ linked[w] \subseteq WholeSet(w)
  BY DEF Stands, Outputs!Undo
<1>2. CASE linked[w] = {} /\ Outputs!Goto(w, "clean") /\ UNCHANGED <<owner, linked>>
  <2>1. turn' = [turn EXCEPT ![w] = "clean"] /\ UNCHANGED <<owner, linked>>
    BY <1>2 DEF Outputs!Goto
  <2>2. OutputsType'
    BY <1>1, <2>1 DEF Turn, OutputPaths
  <2>3. Owns(w)'
    BY <2>1 DEF Owns, OutputPaths, Outputs!Paths, Outputs!Set, Outputs!Range
  <2>4. Stands(w, turn'[w], temps'[w], linked'[w])
    BY <1>1, <1>2, <2>1 DEF Stands
  <2> QED
    BY <1>1, <2>1, <2>2, <2>3, <2>4, WriterKeeps
<1>3. ASSUME NEW p \in linked[w], owner' = [owner EXCEPT ![p] = Nobody],
             linked' = [linked EXCEPT ![w] = linked[w] \ {p}], UNCHANGED turn
      PROVE  OutputsInv'
  <2>1. p \in OutputPaths /\ owner[p] = w
    BY SetsAre DEF Owns
  <2>2. OutputsType'
    BY <1>1, <1>3, <2>1 DEF Turn, OutputPaths
  <2>3. /\ linked'[w] = linked[w] \ {p} /\ turn'[w] = "undo"
        /\ \A q \in OutputPaths : owner'[q] = IF q = p THEN Nobody ELSE owner[q]
    BY <1>1, <1>3, <2>1
  <2>4. Owns(w)'
    BY <2>3, SetsAre DEF Owns, OutputPaths, Outputs!Paths, Outputs!Set, Outputs!Range
  <2>5. Stands(w, turn'[w], temps'[w], linked'[w])
    BY <1>1, <2>3 DEF Stands
  <2>6. \A q \in OutputPaths : owner'[q] # owner[q] => {owner[q], owner'[q]} \subseteq {w, Nobody}
    BY <2>1, <2>3
  <2>7. /\ turn' = [turn EXCEPT ![w] = turn'[w]] /\ linked' = [linked EXCEPT ![w] = linked'[w]]
    BY <1>3, <2>3
  <2> QED
    BY <1>1, <2>2, <2>4, <2>5, <2>6, <2>7, WriterKeeps
<1> QED
  BY <1>2, <1>3 DEF Outputs!Undo

LEMMA CleanKeeps ==
    ASSUME OutputsInv, NEW w \in Writers, Outputs!Clean(w)
    PROVE  OutputsInv'
<1> USE DEF OutputsInv, OutputsType
<1>1. /\ turn[w] = "clean" /\ linked[w] \in {{}, WholeSet(w)}
      /\ temps' = [temps EXCEPT ![w] = {}] /\ UNCHANGED <<owner, linked>>
      /\ turn' = [turn EXCEPT ![w] = IF linked[w] = {} THEN "failed" ELSE "done"]
  BY DEF Stands, Outputs!Clean, Outputs!Goto
<1>2. OutputsType'
  BY <1>1 DEF Turn, OutputPaths
<1>3. Owns(w)'
  BY <1>1 DEF Owns, OutputPaths, Outputs!Paths, Outputs!Set, Outputs!Range
<1>4. Stands(w, turn'[w], temps'[w], linked'[w])
  BY <1>1 DEF Stands
<1> QED
  BY <1>1, <1>2, <1>3, <1>4, WriterKeeps

LEMMA KillKeeps ==
    ASSUME OutputsInv, NEW w \in Writers, Outputs!Kill(w)
    PROVE  OutputsInv'
<1> USE DEF OutputsInv, OutputsType
<1>1. turn' = [turn EXCEPT ![w] = "killed"] /\ UNCHANGED <<owner, temps, linked>>
  BY DEF Outputs!Kill, Outputs!Goto
<1>2. OutputsType'
  BY <1>1 DEF Turn, OutputPaths
<1>3. Owns(w)'
  BY <1>1 DEF Owns, OutputPaths, Outputs!Paths, Outputs!Set, Outputs!Range
<1>4. Stands(w, turn'[w], temps'[w], linked'[w])
  BY <1>1 DEF Stands
<1> QED
  BY <1>1, <1>2, <1>3, <1>4, WriterKeeps

(* For every number of commands and every overlap of the sets they write    *)
(* (_write_outputs_atomic): who is done has created all its files, who has  *)
(* failed none, neither has left a temporary file, and no file that a       *)
(* command linked is replaced or removed by another.                        *)
THEOREM OutputsStayWhole == Spec => []AllOrNothing
<1>1. Init => OutputsInv
  <2> SUFFICES ASSUME Outputs!Init PROVE OutputsInv
    BY DEF Init
  <2> USE DEF Outputs!Init
  <2>1. OutputsType
    BY DEF OutputsType, Turn, OutputPaths
  <2>2. ASSUME NEW w \in Writers PROVE Owns(w) /\ Stands(w, turn[w], temps[w], linked[w])
    BY SetsAre DEF Owns, Stands, OutputPaths
  <2> QED
    BY <2>1, <2>2 DEF OutputsInv
<1>2. OutputsInv /\ [Next]_vars => OutputsInv'
  <2> SUFFICES ASSUME OutputsInv, [Next]_vars PROVE OutputsInv'
    OBVIOUS
  <2>1. CASE UNCHANGED outputs
    BY <2>1 DEF outputs, OutputsInv, OutputsType, Owns, Stands, Turn, OutputPaths, WholeSet,
                Outputs!Paths, Outputs!Set, Outputs!Range
  <2>2. CASE Outputs!Next
    BY <2>2, StageKeeps, LinkKeeps, UndoKeeps, CleanKeeps, KillKeeps DEF Outputs!Next, Outputs!Write
  <2>3. UNCHANGED outputs \/ Outputs!Next
    BY DEF Next, ConsoleRuns, TortureWorks, TortureRuns, MinimiserRuns, PacksRun, OutputsRun, ChaosRuns, vars
  <2> QED
    BY <2>1, <2>2, <2>3
<1>3. OutputsInv => AllOrNothing
  BY SetsAre DEF OutputsInv, OutputsType, Owns, Stands, AllOrNothing, Outputs!AllOrNothing,
                 WholeSet, OutputPaths
<1> QED
  BY <1>1, <1>2, <1>3, PTL DEF Spec

-----------------------------------------------------------------------------
(* The plans of a chaos run.  What an interface has become is the sum of    *)
(* the commands that were applied to it; those are the ones that the        *)
(* reviewed plan and the profile compile to, whatever was edited, for they  *)
(* are compiled again before the first is applied.                          *)

Lists(s, S) == s \in Seq(S) /\ \A c \in S : \E k \in 1..Len(s) : s[k] = c

LEMMA EmptyLists == Lists(<<>>, {})
BY DEF Lists

LEMMA OneLists == ASSUME NEW x PROVE Lists(<<x>>, {x})
BY DEF Lists

LEMMA ConcatLists ==
    ASSUME NEW s, NEW t, NEW S, NEW T, Lists(s, S), Lists(t, T)
    PROVE  Lists(s \o t, S \cup T)
<1>1. s \in Seq(S \cup T) /\ t \in Seq(S \cup T) /\ Len(s) \in Nat /\ Len(t) \in Nat
  BY DEF Lists
<1>2. s \o t \in Seq(S \cup T) /\ Len(s \o t) = Len(s) + Len(t)
  BY <1>1
<1>3. ASSUME NEW c \in S PROVE \E k \in 1..Len(s \o t) : (s \o t)[k] = c
  <2>1. PICK k \in 1..Len(s) : s[k] = c
    BY <1>3 DEF Lists
  <2>2. k \in 1..Len(s \o t) /\ (s \o t)[k] = c
    BY <1>1, <1>2, <2>1
  <2> QED
    BY <2>2
<1>4. ASSUME NEW c \in T PROVE \E k \in 1..Len(s \o t) : (s \o t)[k] = c
  <2>1. PICK k \in 1..Len(t) : t[k] = c
    BY <1>4 DEF Lists
  <2>2. Len(s) + k \in 1..Len(s \o t) /\ (s \o t)[Len(s) + k] = c
    BY <1>1, <1>2, <2>1
  <2> QED
    BY <2>2
<1> QED
  BY <1>2, <1>3, <1>4 DEF Lists

LEMMA ListedLists ==
    ASSUME NEW S, IsFiniteSet(S)
    PROVE  Lists(Chaos!Listed(S), S)
<1>1. Chaos!Cardinality(S) = Cardinality(S)
  BY Zenon DEF Cardinality, Chaos!Cardinality, IsFiniteSet, Chaos!IsFiniteSet
<1> DEFINE n == Cardinality(S)
<1>2. n \in Nat /\ ExistsBijection(1..n, S)
  BY FS_CardinalityType
<1>3. \E s \in [1..n -> S] : \A x \in S : \E i \in 1..n : s[i] = x
  BY <1>2 DEF ExistsBijection, Bijection, Surjection
<1>4. /\ Chaos!Listed(S) \in [1..n -> S]
      /\ \A x \in S : \E i \in 1..n : Chaos!Listed(S)[i] = x
  BY <1>1, <1>3 DEF Chaos!Listed
<1> QED
  BY <1>2, <1>4 DEF Lists

Side == {"egress", "ingress"}
Effect == {"delay", "jitter", "loss", "reorder", "duplicate", "corrupt", "queue", "rate", "mtu"}
Shaped(i) == Chaos!NetemArgs(i) # {} \/ "rate" \in DOMAIN i

(* The commands of one direction, in whatever order.                        *)
FilterOf(t, f) == Chaos!Tc("filter", t.attachments[f.direction], {<<f.match, f.network>>})
CommandsOf(t, i, d) ==
    LET interface == t.attachments[d]
    IN (IF "mtu" \in DOMAIN i THEN {Chaos!Tc("mtu", interface, {<<"mtu", i["mtu"]>>})} ELSE {})
       \cup (IF Shaped(i) THEN {Chaos!Tc("root", interface, {})}
                               \cup {FilterOf(t, f) : f \in {g \in t.filters : g.direction = d}} ELSE {})
       \cup (IF "rate" \in DOMAIN i THEN {Chaos!Tc("rate", interface, {<<"rate", i["rate"]>>})} ELSE {})
       \cup (IF Chaos!NetemArgs(i) # {} THEN {Chaos!Tc("netem", interface, Chaos!NetemArgs(i))} ELSE {})
AllCommands(t, p) == UNION {CommandsOf(t, p.directions[d], d) : d \in DOMAIN p.directions}

LEMMA FiltersList ==
    ASSUME NEW t, IsFiniteSet(t.filters), NEW d
    PROVE  Lists(Chaos!FilterCommands(t, d), {FilterOf(t, f) : f \in {g \in t.filters : g.direction = d}})
<1> DEFINE S == {f \in t.filters : f.direction = d}
           s == Chaos!Listed(S)
           r == Chaos!FilterCommands(t, d)
<1>1. Lists(s, S)
  BY FS_Subset, ListedLists
<1> HIDE DEF s
<1>2. DOMAIN s = 1..Len(s) /\ Len(s) \in Nat /\ \A k \in 1..Len(s) : s[k] \in S
  BY <1>1 DEF Lists
<1>3. r = [k \in 1..Len(s) |-> FilterOf(t, s[k])]
  BY <1>2, Zenon DEF Chaos!FilterCommands, FilterOf, s
<1>4. r \in Seq({FilterOf(t, f) : f \in S}) /\ Len(r) = Len(s)
  BY <1>2, <1>3
<1>5. ASSUME NEW f \in S PROVE \E k \in 1..Len(r) : r[k] = FilterOf(t, f)
  <2>1. PICK k \in 1..Len(s) : s[k] = f
    BY <1>1, <1>5 DEF Lists
  <2> HIDE DEF r
  <2>2. r[k] = FilterOf(t, s[k])
    BY <1>3, <2>1
  <2> QED
    BY <1>4, <2>1, <2>2
<1> QED
  BY <1>4, <1>5 DEF Lists

LEMMA DirectionLists ==
    ASSUME NEW t, IsFiniteSet(t.filters), NEW i, NEW d
    PROVE  Lists(Chaos!DirectionCommands(t, i, d), CommandsOf(t, i, d))
<1> DEFINE interface == t.attachments[d]
           F == {FilterOf(t, f) : f \in {g \in t.filters : g.direction = d}}
           mtu == Chaos!Tc("mtu", interface, {<<"mtu", i["mtu"]>>})
           root_ == Chaos!Tc("root", interface, {})
           rate == Chaos!Tc("rate", interface, {<<"rate", i["rate"]>>})
           netem == Chaos!Tc("netem", interface, Chaos!NetemArgs(i))
           s1 == IF "mtu" \in DOMAIN i THEN <<mtu>> ELSE <<>>
           s2 == IF Shaped(i) THEN <<root_>> \o Chaos!FilterCommands(t, d) ELSE <<>>
           s3 == IF "rate" \in DOMAIN i THEN <<rate>> ELSE <<>>
           s4 == IF Chaos!NetemArgs(i) # {} THEN <<netem>> ELSE <<>>
           S1 == IF "mtu" \in DOMAIN i THEN {mtu} ELSE {}
           S2 == IF Shaped(i) THEN {root_} \cup F ELSE {}
           S3 == IF "rate" \in DOMAIN i THEN {rate} ELSE {}
           S4 == IF Chaos!NetemArgs(i) # {} THEN {netem} ELSE {}
<1>1. Lists(s1, S1) /\ Lists(s3, S3) /\ Lists(s4, S4)
  <2> HIDE DEF mtu, rate, netem
  <2> QED
    BY EmptyLists, OneLists
<1>2. Lists(s2, S2)
  <2> HIDE DEF root_, F
  <2>1. Lists(<<root_>> \o Chaos!FilterCommands(t, d), {root_} \cup F)
    BY OneLists, FiltersList, ConcatLists DEF F
  <2> QED
    BY <2>1, EmptyLists
<1>3. Chaos!DirectionCommands(t, i, d) = s1 \o s2 \o s3 \o s4
  BY Zenon DEF Chaos!DirectionCommands, Shaped
<1>4. CommandsOf(t, i, d) = S1 \cup S2 \cup S3 \cup S4
  BY Zenon DEF CommandsOf
<1> HIDE DEF s1, s2, s3, s4, S1, S2, S3, S4
<1>5. Lists(s1 \o s2 \o s3 \o s4, S1 \cup S2 \cup S3 \cup S4)
  BY <1>1, <1>2, ConcatLists
<1> QED
  BY <1>3, <1>4, <1>5

LEMMA CommandsList ==
    ASSUME NEW t, IsFiniteSet(t.filters), NEW p, DOMAIN p.directions \subseteq Side
    PROVE  Lists(Chaos!Commands(t, p), AllCommands(t, p))
<1> DEFINE Of(d) == IF d \in DOMAIN p.directions
                    THEN Chaos!DirectionCommands(t, p.directions[d], d) ELSE <<>>
           Set(d) == IF d \in DOMAIN p.directions THEN CommandsOf(t, p.directions[d], d) ELSE {}
<1>1. \A d : Lists(Of(d), Set(d))
  BY DirectionLists, EmptyLists
<1>2. Chaos!Commands(t, p) = Of("egress") \o Of("ingress")
  BY Zenon DEF Chaos!Commands
<1>3. AllCommands(t, p) = Set("egress") \cup Set("ingress")
  <2> HIDE DEF CommandsOf
  <2> QED
    BY DEF AllCommands, Side
<1> HIDE DEF Of, Set
<1> QED
  BY <1>1, <1>2, <1>3, ConcatLists

(* What no edit changes of a topology plan.                                 *)
Ways == Chaos!Wanted(request.direction)
IsTopology(t) ==
    /\ t = [kind |-> t.kind, dangerous |-> t.dangerous, noChange |-> t.noChange,
            attachments |-> t.attachments, filters |-> t.filters, scope |-> t.scope,
            capabilities |-> t.capabilities, snapshot |-> t.snapshot]
    /\ t.kind = request.kind
    /\ t.attachments = [d \in Ways |-> t.attachments[d]]
    /\ IsFiniteSet(t.filters)
    /\ \E h \in Hosts : t.snapshot = Chaos!Snapshot(request.kind, h)
    /\ request.kind = "host" /\ "ingress" \in Ways => "ifb" \notin t.snapshot.devices
IsImpairment(plan) ==
    /\ plan = [kind |-> "impairment", digest |-> reviewed, settings |-> profile,
               commands |-> plan.commands]
    /\ \E S : plan.commands \in Seq(S)

(* An interface after the first n of some commands.                         *)
Done(cs, n, i, id) == {k \in 1..n : cs[k].interface = i /\ cs[k].id = id}
IsAfter(state, cs, n, i) ==
    /\ state = [root |-> state.root, filters |-> state.filters, chain |-> state.chain, mtu |-> state.mtu]
    /\ state.root \in BOOLEAN /\ (state.root <=> Done(cs, n, i, "root") # {})
    /\ \A x : x \in state.filters <=> \E k \in Done(cs, n, i, "filter") : x \in cs[k].arg
    /\ \A x : x \in state.chain <=>
              \E k \in Done(cs, n, i, "rate") \cup Done(cs, n, i, "netem") : x \in cs[k].arg
    /\ state.mtu = IF Done(cs, n, i, "mtu") = {} THEN 0 ELSE 1

Shaping == {"apply", "applied", "failed"}
PlansInv ==
    /\ request \in Requests /\ live \in Hosts /\ profile \in Profiles
    /\ stage \in {"topology", "profile", "run", "refused"} \cup Shaping /\ changes \in 0..MaxChanges
    /\ stage \in {"profile", "run"} \cup Shaping => IsTopology(topology)
    /\ stage \in {"topology", "profile"} => impairment = Chaos!Unplanned
    /\ impairment = Chaos!Unplanned \/ IsImpairment(impairment)
    /\ stage \in {"run"} \cup Shaping => IsImpairment(impairment)
ShapingInv ==
    /\ applied \in Nat /\ (stage \notin Shaping => applied = 0)
    /\ device = [i \in Chaos!Interfaces |-> device[i]]
    /\ stage \notin Shaping => \A i \in Chaos!Interfaces : device[i] = Chaos!Bare
    /\ stage \in Shaping =>
          /\ topology = reviewed /\ ~Chaos!CompileRefused(reviewed, profile)
          /\ Chaos!Snapshot(reviewed.kind, live) = reviewed.snapshot
          /\ impairment.commands = Chaos!Commands(reviewed, profile)
          /\ applied <= Len(impairment.commands)
          /\ \A i \in Chaos!Interfaces : IsAfter(device[i], impairment.commands, applied, i)
    /\ stage = "applied" => applied = Len(impairment.commands)
ChaosInv == PlansInv /\ ShapingInv

LEMMA WaysAre == ASSUME request \in Requests PROVE Ways \in {{"egress"}, {"ingress"}, Side}
BY ChaosAssumption DEF Ways, Side, Chaos!Wanted, Chaos!Directions

LEMMA WaysFinite == ASSUME request \in Requests PROVE IsFiniteSet(Ways)
<1>1. IsFiniteSet({"egress"}) /\ IsFiniteSet({"ingress"})
  BY FS_Singleton
<1>2. IsFiniteSet({"egress"} \cup {"ingress"}) /\ Side = {"egress"} \cup {"ingress"}
  BY <1>1, FS_Union DEF Side
<1> QED
  BY <1>1, <1>2, WaysAre, Zenon

LEMMA SnapshotIs ==
    ASSUME NEW h \in Hosts, NEW kind
    PROVE  /\ Chaos!Snapshot(kind, h).devices = h.devices
           /\ \A d \in h.devices : d \in Chaos!Interfaces
<1>1. h = [devices |-> h.devices, namespaces |-> h.namespaces]
  BY ChaosAssumption
<1>2. Chaos!Snapshot(kind, h).devices = h.devices
  BY <1>1 DEF Chaos!Snapshot
<1> QED
  BY <1>2 DEF Chaos!Interfaces

LEMMA ChaosInits == Chaos!Init => ChaosInv
<1> SUFFICES ASSUME Chaos!Init PROVE ChaosInv
  OBVIOUS
<1>1. PlansInv
  BY ChaosAssumption DEF Chaos!Init, PlansInv, Shaping
<1>2. ShapingInv
  BY DEF Chaos!Init, ShapingInv, Shaping
<1> QED
  BY <1>1, <1>2 DEF ChaosInv

(* The plan of the tool.                                                    *)
LEMMA TopologyIs ==
    ASSUME PlansInv, NEW caps, ~Chaos!TopologyRefused(request, caps, live)
    PROVE  IsTopology(Chaos!PlanTopology(request, caps, live))
<1> DEFINE t == Chaos!PlanTopology(request, caps, live)
           pairs == Ways \X request.targets
           filters == {Chaos!Filter(d, n) : d \in Ways, n \in request.targets}
<1>1. request \in Requests /\ live \in Hosts
  BY DEF PlansInv
<1>2. t = [kind |-> request.kind, dangerous |-> request.kind = "host", noChange |-> TRUE,
           attachments |-> [d \in Ways |-> Chaos!Attachment(request.kind, request.interface)[d]],
           filters |-> filters, scope |-> Chaos!Ordered(request.targets, "address"), capabilities |-> caps,
           snapshot |-> Chaos!Snapshot(request.kind, live)]
  BY DEF Chaos!PlanTopology, Ways
<1>3. IsFiniteSet(filters)
  <2>2. IsFiniteSet(Ways)
    BY <1>1, WaysFinite
  <2>3. IsFiniteSet(request.targets)
    BY <1>1, ChaosAssumption
  <2>4. IsFiniteSet(pairs)
    BY <2>2, <2>3, FS_Product
  <2> DEFINE image == [x \in pairs |-> Chaos!Filter(x[1], x[2])]
  <2>5. ASSUME NEW d \in Ways, NEW n \in request.targets
        PROVE  <<d, n>> \in pairs /\ image[<<d, n>>] = Chaos!Filter(d, n)
    OBVIOUS
  <2>6. ASSUME NEW x \in pairs PROVE image[x] \in filters
    OBVIOUS
  <2>7. ASSUME NEW f \in filters PROVE \E x \in pairs : image[x] = f
    <3>1. PICK d \in Ways, n \in request.targets : f = Chaos!Filter(d, n)
      OBVIOUS
    <3>2. <<d, n>> \in pairs /\ image[<<d, n>>] = Chaos!Filter(d, n)
      BY <2>5
    <3> HIDE DEF pairs, image
    <3> QED
      BY <3>1, <3>2
  <2> HIDE DEF filters, pairs
  <2>8. image \in [pairs -> filters]
    BY <2>6
  <2> HIDE DEF image
  <2>9. image \in Surjection(pairs, filters)
    BY <2>7, <2>8, Zenon DEF Surjection
  <2> QED
    BY <2>4, <2>9, FS_Surjection, Zenon
<1>4. request.kind = "host" /\ "ingress" \in Ways => "ifb" \notin live.devices
  BY Zenon DEF Chaos!TopologyRefused, Ways
<1> HIDE DEF t, filters
<1>5. /\ t.kind = request.kind /\ t.filters = filters
      /\ t.attachments = [d \in Ways |-> Chaos!Attachment(request.kind, request.interface)[d]]
      /\ t.snapshot = Chaos!Snapshot(request.kind, live)
  BY <1>2
<1>6. t = [kind |-> t.kind, dangerous |-> t.dangerous, noChange |-> t.noChange,
           attachments |-> t.attachments, filters |-> t.filters, scope |-> t.scope,
           capabilities |-> t.capabilities, snapshot |-> t.snapshot]
  BY <1>2
<1>7. t.attachments = [d \in Ways |-> t.attachments[d]]
  BY <1>5
<1>8. IsTopology(t)
  <2>1. t.snapshot.devices = live.devices
    BY <1>1, <1>5, SnapshotIs
  <2>2. request.kind = "host" /\ "ingress" \in Ways => "ifb" \notin t.snapshot.devices
    BY <1>4, <2>1
  <2>3. \E h \in Hosts : t.snapshot = Chaos!Snapshot(request.kind, h)
    BY <1>1, <1>5
  <2>4. t.kind = request.kind /\ IsFiniteSet(t.filters)
    BY <1>3, <1>5
  <2> QED
    BY <1>6, <1>7, <2>2, <2>3, <2>4, Zenon DEF IsTopology
<1> QED
  BY <1>8 DEF t

(* The edits.                                                               *)
LEMMA EditedIs ==
    ASSUME PlansInv, IsTopology(topology), NEW t \in Chaos!Edited(topology)
    PROVE  IsTopology(t)
<1> DEFINE u == topology
           Wider(n) == u.filters \cup {Chaos!Filter(d, n) : d \in DOMAIN u.attachments}
           Others == Chaos!OtherFilters(u)
<1>1. DOMAIN u.attachments = Ways
  BY DEF IsTopology
<1>2. \A n : IsFiniteSet(Wider(n))
  <2> TAKE n
  <2> DEFINE more == {Chaos!Filter(d, n) : d \in Ways}
  <2>1. IsFiniteSet(Ways)
    BY WaysFinite DEF PlansInv
  <2>2. [d \in Ways |-> Chaos!Filter(d, n)] \in Surjection(Ways, more)
    BY DEF Surjection
  <2>3. IsFiniteSet(more)
    BY <2>1, <2>2, FS_Surjection, Zenon
  <2> QED
    BY <1>1, <2>3, FS_Union DEF IsTopology
<1>3. \A fs \in Others : IsFiniteSet(fs)
  <2>1. \A f : IsFiniteSet(u.filters \ {f})
    BY FS_Subset DEF IsTopology
  <2>2. ASSUME NEW fs \in Others
        PROVE  (\E f : fs = u.filters \ {f}) \/ (\E n : fs = Wider(n))
    BY Zenon DEF Chaos!OtherFilters
  <2> HIDE DEF Wider
  <2> QED
    BY <1>2, <2>1, <2>2
<1> HIDE DEF Others
<1>4. \A fs \in Others : IsTopology(Chaos!Filtered(u, fs))
  BY <1>3 DEF IsTopology, Chaos!Filtered
<1>5. \A fs \in Others : IsTopology(Chaos!Rescoped(u, fs))
  <2> SUFFICES ASSUME NEW fs \in Others PROVE IsTopology(Chaos!Rescoped(u, fs))
    OBVIOUS
  <2> DEFINE v == Chaos!Filtered(u, fs)
             s == Chaos!Ordered(Chaos!Networks(fs), "text")
  <2>1. IsTopology(v)
    BY <1>4
  <2> HIDE DEF v, s
  <2>2. IsTopology([v EXCEPT !.scope = s])
    BY <2>1 DEF IsTopology
  <2> QED
    BY <2>2 DEF Chaos!Rescoped, v, s
<1>6. \A c : IsTopology([u EXCEPT !.capabilities = c])
  BY DEF IsTopology
<1>7. \A d \in Ways, i \in Chaos!Interfaces :
         IsTopology([u EXCEPT !.attachments = [u.attachments EXCEPT ![d] = i]])
  BY DEF IsTopology
<1>8. CASE \E fs \in Others : t = Chaos!Filtered(u, fs) \/ t = Chaos!Rescoped(u, fs)
  BY <1>4, <1>5, <1>8
<1>9. CASE t = [u EXCEPT !.capabilities["mtu"] = "available"]
  BY <1>6, <1>9, Zenon
<1>10. CASE \E d \in DOMAIN u.attachments, i \in Chaos!Interfaces : t = [u EXCEPT !.attachments[d] = i]
  BY <1>1, <1>7, <1>10
<1>11. \/ \E fs \in Others : t = Chaos!Filtered(u, fs) \/ t = Chaos!Rescoped(u, fs)
       \/ t = [u EXCEPT !.capabilities["mtu"] = "available"]
       \/ \E d \in DOMAIN u.attachments, i \in Chaos!Interfaces : t = [u EXCEPT !.attachments[d] = i]
  BY DEF Chaos!Edited, Others
<1> QED
  BY <1>8, <1>9, <1>10, <1>11, Zenon

(* Before the first command nothing that an edit changes is relied upon.    *)
LEMMA ShapingWaits ==
    ASSUME ShapingInv, stage \notin Shaping, stage' \notin Shaping, UNCHANGED <<applied, device>>
    PROVE  ShapingInv'
<1>1. stage' # "applied"
  BY DEF Shaping
<1> QED
  BY <1>1, Zenon DEF ShapingInv, Chaos!Interfaces

LEMMA PlanTheTopologyKeeps ==
    ASSUME ChaosInv, Chaos!PlanTheTopology
    PROVE  ChaosInv'
<1> USE DEF ChaosInv
<1> DEFINE caps == Chaos!Capabilities(environment)
<1>1. /\ stage = "topology" /\ impairment = Chaos!Unplanned /\ applied = 0
      /\ UNCHANGED <<request, live, reviewed, profile, impairment, applied, device, changes>>
  BY DEF Chaos!PlanTheTopology, PlansInv, ShapingInv, Shaping
<1>2. \/ stage' = "refused"
      \/ /\ stage' = "profile" /\ ~Chaos!TopologyRefused(request, caps, live)
         /\ topology' = Chaos!PlanTopology(request, caps, live)
  BY DEF Chaos!PlanTheTopology
<1>3. ShapingInv'
  BY <1>1, <1>2, ShapingWaits DEF Shaping
<1>4. CASE stage' = "refused"
  BY <1>1, <1>3, <1>4 DEF PlansInv, Shaping, IsImpairment
<1>5. CASE /\ stage' = "profile" /\ ~Chaos!TopologyRefused(request, caps, live)
           /\ topology' = Chaos!PlanTopology(request, caps, live)
  <2>1. IsTopology(Chaos!PlanTopology(request, caps, live))
    BY <1>5, TopologyIs
  <2>2. IsTopology(topology)'
    BY <1>1, <1>5, <2>1 DEF IsTopology, Ways
  <2> QED
    BY <1>1, <1>3, <1>5, <2>2 DEF PlansInv, Shaping
<1> QED
  BY <1>2, <1>4, <1>5

LEMMA ProfileSides ==
    ASSUME NEW t, NEW p, ~Chaos!CompileRefused(t, p)
    PROVE  DOMAIN p.directions \subseteq Side
<1>1. DOMAIN p.directions = Chaos!Wanted(p.direction)
  BY Zenon DEF Chaos!CompileRefused, Chaos!ProfileRefused
<1> QED
  BY <1>1 DEF Chaos!Wanted, Chaos!Directions, Side

LEMMA CompileKeeps ==
    ASSUME ChaosInv, Chaos!Compile
    PROVE  ChaosInv'
<1> USE DEF ChaosInv
<1>1. /\ stage = "profile" /\ applied = 0 /\ IsTopology(topology) /\ impairment = Chaos!Unplanned
      /\ UNCHANGED <<request, live, topology, profile, applied, device, changes>>
  BY DEF Chaos!Compile, PlansInv, ShapingInv, Shaping
<1>2. \/ stage' = "refused" /\ UNCHANGED impairment
      \/ /\ stage' = "run" /\ reviewed' = topology /\ ~Chaos!CompileRefused(topology, profile)
         /\ impairment' = Chaos!CompileProfile(topology, profile)
  BY DEF Chaos!Compile
<1>3. ShapingInv'
  BY <1>1, <1>2, ShapingWaits DEF Shaping
<1>4. IsTopology(topology)'
  BY <1>1 DEF IsTopology, Ways
<1>5. CASE stage' = "refused" /\ UNCHANGED impairment
  BY <1>1, <1>3, <1>5 DEF PlansInv, Shaping
<1>6. CASE /\ stage' = "run" /\ reviewed' = topology /\ ~Chaos!CompileRefused(topology, profile)
           /\ impairment' = Chaos!CompileProfile(topology, profile)
  <2>1. Lists(Chaos!Commands(topology, profile), AllCommands(topology, profile))
    BY <1>1, <1>6, ProfileSides, CommandsList DEF IsTopology
  <2>2. \E S : Chaos!Commands(topology, profile) \in Seq(S)
    BY <2>1 DEF Lists
  <2>3. impairment' = [kind |-> "impairment", digest |-> reviewed', settings |-> profile',
                       commands |-> Chaos!Commands(topology, profile)]
    BY <1>1, <1>6 DEF Chaos!CompileProfile
  <2>4. IsImpairment(impairment)'
    BY <2>2, <2>3 DEF IsImpairment
  <2> QED
    BY <1>1, <1>3, <1>4, <1>6, <2>4 DEF PlansInv, Shaping
<1> QED
  BY <1>2, <1>5, <1>6

LEMMA StartKeepsPlans ==
    ASSUME ChaosInv, Chaos!Start
    PROVE  ChaosInv'
<1> USE DEF ChaosInv
<1>1. /\ stage = "run" /\ applied = 0 /\ IsTopology(topology) /\ IsImpairment(impairment)
      /\ \A i \in Chaos!Interfaces : device[i] = Chaos!Bare
      /\ UNCHANGED <<request, live, topology, reviewed, profile, impairment, applied, device, changes>>
  BY DEF Chaos!Start, PlansInv, ShapingInv, Shaping
<1>2. IsTopology(topology)' /\ IsImpairment(impairment)'
  BY <1>1 DEF IsTopology, IsImpairment, Ways
<1>3. stage' \in {"refused", "apply"}
  BY DEF Chaos!Start
<1>4. PlansInv'
  BY <1>1, <1>2, <1>3 DEF PlansInv, Shaping
<1>5. CASE stage' = "refused"
  BY <1>1, <1>4, <1>5, ShapingWaits DEF Shaping
<1>6. CASE stage' = "apply"
  <2>1. /\ ~Chaos!ImpairmentRefusedBy(topology, impairment)
        /\ Chaos!Snapshot(topology.kind, live) = topology.snapshot
    BY <1>6 DEF Chaos!Start
  <2>2. impairment.digest = reviewed /\ impairment.settings = profile
    BY <1>1 DEF IsImpairment
  <2>3. /\ topology = reviewed /\ ~Chaos!CompileRefused(topology, profile)
        /\ impairment.commands = Chaos!Commands(topology, profile)
    BY <2>1, <2>2 DEF Chaos!ImpairmentRefusedBy
  <2>4. Len(impairment.commands) \in Nat
    BY <1>1 DEF IsImpairment
  <2>5. \A i \in Chaos!Interfaces : IsAfter(device[i], impairment.commands, applied, i)
    <3> SUFFICES ASSUME NEW i \in Chaos!Interfaces
                 PROVE  IsAfter(device[i], impairment.commands, applied, i)
      OBVIOUS
    <3>1. \A id : Done(impairment.commands, applied, i, id) = {}
      BY <1>1 DEF Done
    <3>2. device[i] = [root |-> FALSE, filters |-> {}, chain |-> {}, mtu |-> 0]
      BY <1>1 DEF Chaos!Bare
    <3> QED
      BY <3>1, <3>2 DEF IsAfter
  <2>6. ShapingInv'
    <3>1. /\ UNCHANGED <<topology, reviewed, profile, live, impairment, applied, device>>
          /\ Chaos!Interfaces' = Chaos!Interfaces
      BY <1>1 DEF Chaos!Interfaces
    <3>2. device = [i \in Chaos!Interfaces |-> device[i]]
      BY DEF ShapingInv
    <3>3. stage' # "applied" /\ applied = 0 /\ applied <= Len(impairment.commands) /\ stage' \in Shaping
      BY <1>1, <1>6, <2>4 DEF Shaping
    <3> QED
      BY <2>1, <2>3, <2>5, <3>1, <3>2, <3>3 DEF ShapingInv
  <2> QED
    BY <1>4, <2>6
<1> QED
  BY <1>3, <1>5, <1>6

LEMMA EditsKeep ==
    ASSUME ChaosInv, Chaos!EditPlans \/ Chaos!HostChanges
    PROVE  ChaosInv'
<1> USE DEF ChaosInv
<1>1. /\ stage \in {"profile", "run"} /\ IsTopology(topology) /\ applied = 0
      /\ UNCHANGED <<request, stage, reviewed, profile, applied, device>>
      /\ changes' \in 0..MaxChanges
  BY ChaosAssumption DEF Chaos!EditPlans, Chaos!HostChanges, PlansInv, ShapingInv, Shaping
<1>2. ShapingInv'
  BY <1>1, ShapingWaits DEF Shaping
<1>3. (UNCHANGED topology \/ topology' \in Chaos!Edited(topology)) /\ live' \in Hosts
  BY DEF Chaos!EditPlans, Chaos!HostChanges, PlansInv
<1>4. IsTopology(topology')
  BY <1>1, <1>3, EditedIs
<1>5. IsTopology(topology)'
  BY <1>1, <1>4 DEF IsTopology, Ways
<1>6. \/ UNCHANGED impairment
      \/ stage = "run" /\ \E c : impairment' = [impairment EXCEPT !.commands = Append(@, c)]
  <2>1. UNCHANGED impairment \/ (stage = "run" /\ impairment' \in Chaos!Injected(impairment))
    BY DEF Chaos!EditPlans, Chaos!HostChanges
  <2>2. ASSUME impairment' \in Chaos!Injected(impairment)
        PROVE  \E c : impairment' = [impairment EXCEPT !.commands = Append(@, c)]
    <3>1. \E c \in Chaos!Extra : impairment' = Chaos!Lengthened(impairment, c)
      BY <2>2, Zenon DEF Chaos!Injected
    <3> QED
      BY <3>1 DEF Chaos!Lengthened
  <2> QED
    BY <2>1, <2>2
<1>7. CASE UNCHANGED impairment
  BY <1>1, <1>2, <1>3, <1>5, <1>7 DEF PlansInv, Shaping, IsImpairment
<1>8. ASSUME stage = "run", NEW c, impairment' = [impairment EXCEPT !.commands = Append(@, c)]
      PROVE  ChaosInv'
  <2>1. IsImpairment(impairment)
    BY <1>8 DEF PlansInv
  <2>2. PICK S : impairment.commands \in Seq(S)
    BY <2>1 DEF IsImpairment
  <2>3. Append(impairment.commands, c) \in Seq(S \cup {c})
    BY <2>2
  <2>4. impairment' = [kind |-> "impairment", digest |-> reviewed, settings |-> profile,
                       commands |-> Append(impairment.commands, c)]
    <3> DEFINE cs == Append(impairment.commands, c)
    <3>1. impairment' = [impairment EXCEPT !.commands = cs]
      BY <1>8
    <3> HIDE DEF cs
    <3>2. impairment' = [kind |-> "impairment", digest |-> reviewed, settings |-> profile,
                         commands |-> cs]
      BY <2>1, <3>1 DEF IsImpairment
    <3> QED
      BY <3>2 DEF cs
  <2>5. IsImpairment(impairment)'
    BY <1>1, <2>3, <2>4 DEF IsImpairment
  <2> QED
    BY <1>1, <1>2, <1>3, <1>5, <1>8, <2>5 DEF PlansInv, Shaping
<1> QED
  BY <1>6, <1>7, <1>8

(* What the commands of a reviewed plan may be.                             *)
LEMMA CarrierIs ==
    ASSUME PlansInv, IsTopology(reviewed), ~Chaos!CompileRefused(reviewed, profile)
    PROVE  /\ \A d \in Ways : /\ Chaos!Carrier(d) = reviewed.attachments[d]
                              /\ Chaos!Carrier(d) \in Chaos!Interfaces
           /\ \A d, e \in Ways : Chaos!Carrier(d) = Chaos!Carrier(e) => d = e
           /\ Ways \subseteq Side /\ DOMAIN reviewed.attachments = Ways
           /\ DOMAIN profile.directions \subseteq Ways
<1> DEFINE t == reviewed
<1>1. request \in Requests /\ request.kind \in {"router", "host"} /\ t.kind = request.kind
  BY ChaosAssumption DEF PlansInv, IsTopology
<1>2. DOMAIN t.attachments = Ways
  BY DEF IsTopology
<1>3. Ways \in {{"egress"}, {"ingress"}, Side} /\ Ways \subseteq Side
  BY <1>1, WaysAre DEF Side
<1>4. /\ DOMAIN profile.directions \subseteq DOMAIN t.attachments
      /\ \A d \in Ways : ~Chaos!AttachmentMoved(t, d)
  BY <1>2, Zenon DEF Chaos!CompileRefused, Chaos!Malformed
<1>5. PICK h \in Hosts : t.snapshot = Chaos!Snapshot(request.kind, h)
  BY DEF IsTopology
<1>6. t.snapshot.devices = h.devices /\ \A d \in h.devices : d \in Chaos!Interfaces
  BY <1>5, SnapshotIs
<1>7. CASE request.kind = "router"
  <2>1. \A d \in Ways : t.attachments[d] = Chaos!Attachment("router", "unused")[d]
    BY <1>1, <1>4, <1>7 DEF Chaos!AttachmentMoved
  <2>2. \A d \in Ways : Chaos!Carrier(d) = Chaos!Attachment("router", "unused")[d]
    BY <1>7 DEF Chaos!Carrier
  <2>3. /\ Chaos!Attachment("router", "unused")["egress"] = "imp-uplink0"
        /\ Chaos!Attachment("router", "unused")["ingress"] = "imp-test0"
    BY DEF Chaos!Attachment
  <2>4. {"imp-uplink0", "imp-test0"} \subseteq Chaos!Interfaces
    BY DEF Chaos!Interfaces
  <2> QED
    BY <1>2, <1>3, <1>4, <2>1, <2>2, <2>3, <2>4 DEF Side
<1>8. CASE request.kind = "host"
  <2>1. /\ "egress" \in Ways => t.attachments["egress"] \in h.devices
        /\ "ingress" \in Ways => t.attachments["ingress"] = "ifb" /\ "ifb" \notin h.devices
    <3>1. Chaos!Attachment("host", "unused")["ingress"] = "ifb"
      BY DEF Chaos!Attachment
    <3>2. "ingress" \in Ways => "ifb" \notin t.snapshot.devices
      BY <1>8 DEF IsTopology
    <3> QED
      BY <1>1, <1>4, <1>6, <1>8, <3>1, <3>2 DEF Chaos!AttachmentMoved
  <2>2. /\ Chaos!Carrier("egress") = t.attachments["egress"]
        /\ Chaos!Carrier("ingress") = "ifb"
    BY <1>8 DEF Chaos!Carrier, Chaos!Attachment
  <2>3. "ifb" \in Chaos!Interfaces
    BY DEF Chaos!Interfaces
  <2> QED
    BY <1>2, <1>3, <1>4, <1>6, <2>1, <2>2, <2>3 DEF Side
<1> QED
  BY <1>1, <1>7, <1>8

(* The command behind each kind of change.                                  *)
LEMMA CommandIs ==
    ASSUME NEW t, NEW p, NEW c \in AllCommands(t, p)
    PROVE  \E d \in DOMAIN p.directions :
              /\ c.interface = t.attachments[d]
              /\ c.id \in {"mtu", "root", "filter", "rate", "netem"}
              /\ c.id = "mtu" => "mtu" \in DOMAIN p.directions[d]
              /\ c.id = "filter" => \E f \in t.filters : f.direction = d /\ c.arg = {<<f.match, f.network>>}
              /\ c.id = "rate" => "rate" \in DOMAIN p.directions[d]
                                  /\ c.arg = {<<"rate", p.directions[d]["rate"]>>}
              /\ c.id = "netem" => c.arg = Chaos!NetemArgs(p.directions[d])
<1>1. PICK d \in DOMAIN p.directions : c \in CommandsOf(t, p.directions[d], d)
  BY DEF AllCommands
<1> DEFINE i == p.directions[d]
           interface == t.attachments[d]
<1>2. \/ "mtu" \in DOMAIN i /\ c = Chaos!Tc("mtu", interface, {<<"mtu", i["mtu"]>>})
      \/ c = Chaos!Tc("root", interface, {})
      \/ \E f \in t.filters : f.direction = d /\ c = FilterOf(t, f)
      \/ "rate" \in DOMAIN i /\ c = Chaos!Tc("rate", interface, {<<"rate", i["rate"]>>})
      \/ c = Chaos!Tc("netem", interface, Chaos!NetemArgs(i))
  BY <1>1, Zenon DEF CommandsOf
<1> HIDE DEF i, interface
<1> USE DEF Chaos!Tc
<1>3. CASE "mtu" \in DOMAIN i /\ c = Chaos!Tc("mtu", interface, {<<"mtu", i["mtu"]>>})
  BY <1>3 DEF i, interface
<1>4. CASE c = Chaos!Tc("root", interface, {})
  BY <1>4 DEF i, interface
<1>5. ASSUME NEW f \in t.filters, f.direction = d, c = FilterOf(t, f)
      PROVE  c.interface = interface /\ c.id = "filter" /\ c.arg = {<<f.match, f.network>>}
  BY <1>5 DEF interface, FilterOf
<1>6. CASE "rate" \in DOMAIN i /\ c = Chaos!Tc("rate", interface, {<<"rate", i["rate"]>>})
  BY <1>6 DEF i, interface
<1>7. CASE c = Chaos!Tc("netem", interface, Chaos!NetemArgs(i))
  BY <1>7 DEF i, interface
<1> QED
  BY <1>2, <1>3, <1>4, <1>5, <1>6, <1>7 DEF interface

(* One more command.                                                        *)
LEMMA OneMoreDone ==
    ASSUME NEW cs, NEW n \in Nat, NEW i, cs[n + 1].interface = i
    PROVE  /\ Done(cs, n + 1, i, cs[n + 1].id) = Done(cs, n, i, cs[n + 1].id) \cup {n + 1}
           /\ \A id : id # cs[n + 1].id => Done(cs, n + 1, i, id) = Done(cs, n, i, id)
BY DEF Done

LEMMA CommandDoes ==
    ASSUME NEW cs, NEW n \in Nat, NEW i, NEW state, IsAfter(state, cs, n, i),
           NEW c, c = cs[n + 1], c.interface = i,
           c.id \in {"mtu", "root", "filter", "rate", "netem"}
    PROVE  IsAfter(Chaos!After(state, c), cs, n + 1, i)
<1> DEFINE new == Chaos!After(state, c)
           D(id) == Done(cs, n, i, id)
           E(id) == Done(cs, n + 1, i, id)
<1>1. E(c.id) = D(c.id) \cup {n + 1} /\ \A id : id # c.id => E(id) = D(id)
  <2>1. cs[n + 1].interface = i
    OBVIOUS
  <2>2. /\ Done(cs, n + 1, i, cs[n + 1].id) = Done(cs, n, i, cs[n + 1].id) \cup {n + 1}
        /\ \A id : id # cs[n + 1].id => Done(cs, n + 1, i, id) = Done(cs, n, i, id)
    BY <2>1, OneMoreDone, Zenon
  <2> QED
    BY <2>2, Zenon
<1>2. /\ state = [root |-> state.root, filters |-> state.filters, chain |-> state.chain, mtu |-> state.mtu]
      /\ state.root \in BOOLEAN /\ (state.root <=> D("root") # {})
      /\ \A x : x \in state.filters <=> \E k \in D("filter") : x \in cs[k].arg
      /\ \A x : x \in state.chain <=> \E k \in D("rate") \cup D("netem") : x \in cs[k].arg
      /\ state.mtu = IF D("mtu") = {} THEN 0 ELSE 1
  BY DEF IsAfter
<1>3. new = CASE c.id = "mtu" -> [state EXCEPT !.mtu = 1]
              [] c.id = "root" -> [state EXCEPT !.root = TRUE]
              [] c.id = "filter" -> [state EXCEPT !.filters = state.filters \cup c.arg]
              [] OTHER -> [state EXCEPT !.chain = state.chain \cup c.arg]
  BY DEF Chaos!After
<1>4. SUFFICES /\ new = [root |-> new.root, filters |-> new.filters, chain |-> new.chain, mtu |-> new.mtu]
               /\ new.root \in BOOLEAN /\ (new.root <=> E("root") # {})
               /\ \A x : x \in new.filters <=> \E k \in E("filter") : x \in cs[k].arg
               /\ \A x : x \in new.chain <=> \E k \in E("rate") \cup E("netem") : x \in cs[k].arg
               /\ new.mtu = IF E("mtu") = {} THEN 0 ELSE 1
  BY DEF IsAfter
<1> HIDE DEF new, D, E
<1>5. CASE c.id = "mtu"
  <2>1. /\ new = [root |-> state.root, filters |-> state.filters, chain |-> state.chain, mtu |-> 1]
    BY <1>2, <1>3, <1>5
  <2>2. E("mtu") # {}
    BY <1>1, <1>5
  <2>3. E("root") = D("root") /\ E("filter") = D("filter") /\ E("rate") = D("rate") /\ E("netem") = D("netem")
    BY <1>1, <1>5
  <2> QED
    BY <1>2, <2>1, <2>2, <2>3
<1>6. CASE c.id = "root"
  <2>1. new = [root |-> TRUE, filters |-> state.filters, chain |-> state.chain, mtu |-> state.mtu]
    BY <1>2, <1>3, <1>6
  <2>2. E("root") # {}
    BY <1>1, <1>6
  <2>3. E("mtu") = D("mtu") /\ E("filter") = D("filter") /\ E("rate") = D("rate") /\ E("netem") = D("netem")
    BY <1>1, <1>6
  <2> QED
    BY <1>2, <2>1, <2>2, <2>3
<1>7. CASE c.id = "filter"
  <2>1. new = [root |-> state.root, filters |-> state.filters \cup c.arg, chain |-> state.chain,
               mtu |-> state.mtu]
    BY <1>2, <1>3, <1>7
  <2>2. E("filter") = D("filter") \cup {n + 1}
    BY <1>1, <1>7
  <2>3. E("mtu") = D("mtu") /\ E("root") = D("root") /\ E("rate") = D("rate") /\ E("netem") = D("netem")
    BY <1>1, <1>7
  <2>4. \A x : x \in new.filters <=> \E k \in E("filter") : x \in cs[k].arg
    BY <1>2, <2>1, <2>2
  <2> QED
    BY <1>2, <2>1, <2>3, <2>4
<1>8. CASE c.id \in {"rate", "netem"}
  <2>1. new = [root |-> state.root, filters |-> state.filters, chain |-> state.chain \cup c.arg,
               mtu |-> state.mtu]
    BY <1>2, <1>3, <1>8
  <2>2. E("rate") \cup E("netem") = (D("rate") \cup D("netem")) \cup {n + 1}
    BY <1>1, <1>8
  <2>3. E("mtu") = D("mtu") /\ E("root") = D("root") /\ E("filter") = D("filter")
    BY <1>1, <1>8
  <2>4. \A x : x \in new.chain <=> \E k \in E("rate") \cup E("netem") : x \in cs[k].arg
    BY <1>2, <2>1, <2>2
  <2> QED
    BY <1>2, <2>1, <2>3, <2>4
<1> QED
  BY <1>5, <1>6, <1>7, <1>8

LEMMA OthersAreAfter ==
    ASSUME NEW cs, NEW n \in Nat, NEW i, NEW state, IsAfter(state, cs, n, i),
           cs[n + 1].interface # i
    PROVE  IsAfter(state, cs, n + 1, i)
<1>1. \A id : Done(cs, n + 1, i, id) = Done(cs, n, i, id)
  BY DEF Done
<1> QED
  BY <1>1 DEF IsAfter

LEMMA ShapingIs ==
    ASSUME ChaosInv, stage \in Shaping
    PROVE  /\ IsTopology(reviewed) /\ ~Chaos!CompileRefused(reviewed, profile)
           /\ Lists(impairment.commands, AllCommands(reviewed, profile))
<1>1. IsTopology(reviewed) /\ ~Chaos!CompileRefused(reviewed, profile)
  BY DEF ChaosInv, PlansInv, ShapingInv
<1> QED
  BY <1>1, ProfileSides, CommandsList DEF ChaosInv, ShapingInv, IsTopology

LEMMA ApplyKeeps ==
    ASSUME ChaosInv, Chaos!Apply
    PROVE  ChaosInv'
<1> DEFINE cs == impairment.commands
           c == cs[applied + 1]
<1> USE DEF ChaosInv
<1>1. /\ stage = "apply" /\ stage' \in Shaping /\ stage \in Shaping
      /\ UNCHANGED <<request, live, topology, reviewed, profile, impairment, changes>>
  BY DEF Chaos!Apply, Shaping
<1>2. PlansInv'
  <2>1. IsTopology(topology)' /\ IsImpairment(impairment)'
    BY <1>1 DEF PlansInv, IsTopology, IsImpairment, Ways
  <2> QED
    BY <1>1, <2>1 DEF PlansInv, Shaping
<1>3. Lists(cs, AllCommands(reviewed, profile)) /\ Len(cs) \in Nat /\ applied \in Nat
  BY <1>1, ShapingIs DEF Lists, ShapingInv
<1>4. /\ device = [i \in Chaos!Interfaces |-> device[i]] /\ Chaos!Interfaces' = Chaos!Interfaces
      /\ topology = reviewed /\ ~Chaos!CompileRefused(reviewed, profile)
      /\ Chaos!Snapshot(reviewed.kind, live) = reviewed.snapshot
      /\ cs = Chaos!Commands(reviewed, profile) /\ applied <= Len(cs)
      /\ \A i \in Chaos!Interfaces : IsAfter(device[i], cs, applied, i)
  BY <1>1 DEF ShapingInv, Chaos!Interfaces
<1>5. CASE UNCHANGED <<applied, device>> /\ (stage' = "applied" => applied = Len(cs))
  BY <1>1, <1>2, <1>3, <1>4, <1>5 DEF ShapingInv
<1>6. CASE /\ applied < Len(cs) /\ applied' = applied + 1 /\ stage' = "apply"
           /\ device' = [device EXCEPT ![c.interface] = Chaos!After(device[c.interface], c)]
  <2>1. applied + 1 \in 1..Len(cs) /\ c \in AllCommands(reviewed, profile)
    <3>1. applied + 1 \in 1..Len(cs)
      BY <1>3, <1>6
    <3>2. cs \in Seq(AllCommands(reviewed, profile))
      BY <1>3 DEF Lists
    <3> HIDE DEF cs
    <3> QED
      BY <3>1, <3>2
  <2>2. PICK d \in DOMAIN profile.directions :
           c.interface = reviewed.attachments[d] /\ c.id \in {"mtu", "root", "filter", "rate", "netem"}
    BY <2>1, CommandIs
  <2>3. c.interface \in Chaos!Interfaces
    BY <1>1, <2>2, CarrierIs, ShapingIs
  <2> HIDE DEF c
  <2>4. \A i \in Chaos!Interfaces :
           device'[i] = IF i = c.interface THEN Chaos!After(device[i], c) ELSE device[i]
    BY <1>4, <1>6, <2>3
  <2>5. ASSUME NEW i \in Chaos!Interfaces PROVE IsAfter(device'[i], cs, applied + 1, i)
    <3>1. IsAfter(device[i], cs, applied, i)
      BY <1>4
    <3>2. CASE i = c.interface
      <4>1. device'[i] = Chaos!After(device[i], c)
        BY <2>4, <3>2
      <4>2. IsAfter(Chaos!After(device[i], c), cs, applied + 1, i)
        <5>1. c = cs[applied + 1]
          BY DEF c
        <5> HIDE DEF cs
        <5> QED
          BY <1>3, <2>2, <3>1, <3>2, <5>1, CommandDoes
      <4> QED
        BY <4>1, <4>2
    <3>3. CASE i # c.interface
      BY <1>3, <2>4, <3>1, <3>3, OthersAreAfter DEF c
    <3> QED
      BY <3>2, <3>3
  <2>6. device' = [i \in Chaos!Interfaces |-> device'[i]]
    BY <1>4, <1>6
  <2>7. ShapingInv'
    <3>1. /\ applied' \in Nat /\ applied' <= Len(cs) /\ stage' \in Shaping /\ stage' # "applied"
          /\ impairment'.commands = cs
      BY <1>1, <1>3, <1>6
    <3>2. \A i \in Chaos!Interfaces' : IsAfter(device'[i], cs, applied', i)
      BY <1>4, <1>6, <2>5
    <3> HIDE DEF cs
    <3> QED
      BY <1>1, <1>4, <2>6, <3>1, <3>2 DEF ShapingInv, IsAfter, Done
  <2> QED
    BY <1>2, <2>7
<1>7. \/ UNCHANGED <<applied, device>> /\ (stage' = "applied" => applied = Len(cs))
      \/ /\ applied < Len(cs) /\ applied' = applied + 1 /\ stage' = "apply"
         /\ device' = [device EXCEPT ![c.interface] = Chaos!After(device[c.interface], c)]
  BY DEF Chaos!Apply
<1> QED
  BY <1>5, <1>6, <1>7

(* What the reviewed plan says of its filters.                              *)
LEMMA FiltersAreTheScope ==
    ASSUME NEW t, NEW p, ~Chaos!CompileRefused(t, p)
    PROVE  /\ \A g \in t.filters : \E x \in t.scope : x[1] = g.network
           /\ \A d \in DOMAIN t.attachments, x \in t.scope : Chaos!Filter(d, x[1]) \in t.filters
           /\ t.dangerous = (t.kind = "host")
           /\ \A d \in DOMAIN p.directions : "mtu" \in DOMAIN p.directions[d] => ~t.dangerous
<1>1. ~Chaos!TargetsMalformed(t) /\ t.dangerous = (t.kind = "host")
  BY Zenon DEF Chaos!CompileRefused, Chaos!Malformed
<1> DEFINE networks == Chaos!Networks(t.filters)
<1>2. /\ t.filters = {Chaos!Filter(d, n) : d \in DOMAIN t.attachments, n \in networks}
      /\ t.scope = Chaos!Ordered(networks, "text")
  BY <1>1 DEF Chaos!TargetsMalformed
<1>3. \A n : n \in networks <=> \E g \in t.filters : n = g.network
  BY DEF Chaos!Networks
<1> HIDE DEF networks
<1>4. /\ \A n \in networks : \E x \in t.scope : x[1] = n
      /\ \A x \in t.scope : x[1] \in networks
  <2> DEFINE Place(n) == Chaos!Cardinality({m \in networks : m["text"] <= n["text"]})
  <2>1. t.scope = {<<n, Place(n)>> : n \in networks}
    BY <1>2, Zenon DEF Chaos!Ordered
  <2> HIDE DEF Place
  <2>2. \A n : <<n, Place(n)>>[1] = n
    OBVIOUS
  <2> QED
    BY <2>1, <2>2
<1>5. \A d \in DOMAIN p.directions : "mtu" \in DOMAIN p.directions[d] => ~t.dangerous
  BY Zenon DEF Chaos!CompileRefused
<1>6. \A g \in t.filters : \E x \in t.scope : x[1] = g.network
  BY <1>3, <1>4
<1>7. \A d \in DOMAIN t.attachments, x \in t.scope : Chaos!Filter(d, x[1]) \in t.filters
  BY <1>2, <1>4
<1> QED
  BY <1>1, <1>5, <1>6, <1>7

(* A command that was applied is one of the plan's.                         *)
LEMMA DoneIs ==
    ASSUME ChaosInv, stage \in Shaping, NEW i, NEW id, NEW k \in Done(impairment.commands, applied, i, id)
    PROVE  /\ impairment.commands[k] \in AllCommands(reviewed, profile)
           /\ impairment.commands[k].interface = i /\ impairment.commands[k].id = id
<1> DEFINE cs == impairment.commands
<1>1. cs \in Seq(AllCommands(reviewed, profile)) /\ applied \in Nat /\ applied <= Len(cs) /\ Len(cs) \in Nat
  BY ShapingIs DEF Lists, ChaosInv, ShapingInv
<1>2. k \in 1..applied /\ cs[k].interface = i /\ cs[k].id = id
  BY DEF Done
<1> HIDE DEF cs
<1>3. k \in 1..Len(cs)
  BY <1>1, <1>2
<1>4. cs[k] \in AllCommands(reviewed, profile)
  BY <1>1, <1>3
<1> QED
  BY <1>2, <1>4 DEF cs

(* One that was is found on the interface of its direction.                 *)
LEMMA SidesOwn ==
    ASSUME ChaosInv, stage \in Shaping, NEW d \in Ways, NEW id,
           NEW k \in Done(impairment.commands, applied, Chaos!Carrier(d), id)
    PROVE  LET c == impairment.commands[k]
           IN /\ d \in DOMAIN profile.directions
              /\ id = "filter" => \E f \in reviewed.filters : c.arg = {<<f.match, f.network>>}
              /\ id = "rate" => "rate" \in DOMAIN profile.directions[d]
                                /\ c.arg = {<<"rate", profile.directions[d]["rate"]>>}
              /\ id = "netem" => c.arg = Chaos!NetemArgs(profile.directions[d])
<1> DEFINE c == impairment.commands[k]
<1>1. c \in AllCommands(reviewed, profile) /\ c.interface = Chaos!Carrier(d) /\ c.id = id
  BY DoneIs
<1>2. /\ \A e \in Ways : Chaos!Carrier(e) = reviewed.attachments[e]
      /\ \A e \in Ways : Chaos!Carrier(d) = Chaos!Carrier(e) => d = e
      /\ DOMAIN profile.directions \subseteq Ways
  BY CarrierIs, ShapingIs DEF ChaosInv
<1> HIDE DEF c
<1>3. PICK e \in DOMAIN profile.directions :
              /\ c.interface = reviewed.attachments[e]
              /\ c.id = "filter" => \E f \in reviewed.filters : f.direction = e /\ c.arg = {<<f.match, f.network>>}
              /\ c.id = "rate" => "rate" \in DOMAIN profile.directions[e]
                                  /\ c.arg = {<<"rate", profile.directions[e]["rate"]>>}
              /\ c.id = "netem" => c.arg = Chaos!NetemArgs(profile.directions[e])
  BY <1>1, CommandIs
<1>4. e = d
  BY <1>1, <1>2, <1>3
<1> QED
  BY <1>1, <1>3, <1>4 DEF c

(* At the end every command of a direction is found there.                  *)
LEMMA AllDone ==
    ASSUME ChaosInv, stage = "applied", NEW d \in DOMAIN profile.directions,
           NEW c \in CommandsOf(reviewed, profile.directions[d], d), c.interface = reviewed.attachments[d]
    PROVE  \E k \in Done(impairment.commands, applied, Chaos!Carrier(d), c.id) : impairment.commands[k] = c
<1> DEFINE cs == impairment.commands
<1>1. stage \in Shaping
  BY DEF Shaping
<1>2. c \in AllCommands(reviewed, profile)
  BY DEF AllCommands
<1>3. PICK k \in 1..Len(cs) : cs[k] = c
  BY <1>1, <1>2, ShapingIs DEF Lists
<1>4. applied = Len(cs) /\ Chaos!Carrier(d) = reviewed.attachments[d]
  BY <1>1, CarrierIs, ShapingIs DEF ChaosInv, ShapingInv
<1>5. k \in Done(cs, applied, Chaos!Carrier(d), c.id)
  BY <1>3, <1>4 DEF Done
<1> QED
  BY <1>3, <1>5

LEMMA ChainIs ==
    ASSUME ChaosInv, stage = "applied", NEW d \in DOMAIN profile.directions
    PROVE  \A x : x \in device[Chaos!Carrier(d)].chain <=> x \in Chaos!Asked(d)
<1> DEFINE i == profile.directions[d]
           rate == Chaos!Tc("rate", reviewed.attachments[d], {<<"rate", i["rate"]>>})
           netem == Chaos!Tc("netem", reviewed.attachments[d], Chaos!NetemArgs(i))
           chain == device[Chaos!Carrier(d)].chain
           D(id) == Done(impairment.commands, applied, Chaos!Carrier(d), id)
<1>1. stage \in Shaping /\ d \in Ways /\ Chaos!Carrier(d) \in Chaos!Interfaces
  BY CarrierIs, ShapingIs DEF Shaping, ChaosInv
<1>2. \A x : x \in chain <=> \E k \in D("rate") \cup D("netem") : x \in impairment.commands[k].arg
  BY <1>1 DEF ChaosInv, ShapingInv, IsAfter
<1>3. /\ \A k \in D("rate") : "rate" \in DOMAIN i /\ impairment.commands[k].arg = {<<"rate", i["rate"]>>}
      /\ \A k \in D("netem") : impairment.commands[k].arg = Chaos!NetemArgs(i)
  BY <1>1, SidesOwn
<1>4. "rate" \in DOMAIN i => \E k \in D("rate") : impairment.commands[k].arg = {<<"rate", i["rate"]>>}
  <2>1. SUFFICES ASSUME "rate" \in DOMAIN i
                 PROVE  \E k \in D("rate") : impairment.commands[k].arg = {<<"rate", i["rate"]>>}
    OBVIOUS
  <2>2. rate \in CommandsOf(reviewed, i, d)
    BY <2>1, Zenon DEF CommandsOf
  <2>3. rate.interface = reviewed.attachments[d] /\ rate.id = "rate" /\ rate.arg = {<<"rate", i["rate"]>>}
    BY DEF Chaos!Tc
  <2> HIDE DEF rate
  <2> QED
    BY <2>2, <2>3, AllDone
<1>5. Chaos!NetemArgs(i) # {} => \E k \in D("netem") : impairment.commands[k].arg = Chaos!NetemArgs(i)
  <2>1. SUFFICES ASSUME Chaos!NetemArgs(i) # {}
                 PROVE  \E k \in D("netem") : impairment.commands[k].arg = Chaos!NetemArgs(i)
    OBVIOUS
  <2>2. netem \in CommandsOf(reviewed, i, d)
    BY <2>1, Zenon DEF CommandsOf
  <2>3. netem.interface = reviewed.attachments[d] /\ netem.id = "netem" /\ netem.arg = Chaos!NetemArgs(i)
    BY DEF Chaos!Tc
  <2> HIDE DEF netem
  <2> QED
    BY <2>2, <2>3, AllDone
<1>6. Chaos!Asked(d) = {<<e, i[e]>> : e \in DOMAIN i \ {"mtu"}}
  BY DEF Chaos!Asked
<1>7. Chaos!NetemArgs(i) = {<<e, i[e]>> : e \in DOMAIN i \cap Chaos!Netem}
  BY DEF Chaos!NetemArgs
<1>8. DOMAIN i \ {"mtu"} = (DOMAIN i \cap Chaos!Netem) \cup (DOMAIN i \cap {"rate"})
  <2>1. DOMAIN i \subseteq Effect
    BY ChaosAssumption DEF ChaosInv, PlansInv, Effect
  <2> HIDE DEF i
  <2> QED
    BY <2>1 DEF Effect, Chaos!Netem
<1> HIDE DEF i, chain, D
<1>9. \A x : x \in chain <=> x \in Chaos!NetemArgs(i) \/ ("rate" \in DOMAIN i /\ x = <<"rate", i["rate"]>>)
  BY <1>2, <1>3, <1>4, <1>5
<1>10. \A x : x \in Chaos!Asked(d) <=>
              x \in Chaos!NetemArgs(i) \/ ("rate" \in DOMAIN i /\ x = <<"rate", i["rate"]>>)
  BY <1>6, <1>7, <1>8
<1> QED
  BY <1>9, <1>10 DEF chain

LEMMA ScopeIsMatched ==
    ASSUME ChaosInv, stage = "applied", NEW d \in DOMAIN profile.directions, Shaped(profile.directions[d]),
           NEW peer, Chaos!InScope(peer)
    PROVE  device[Chaos!Carrier(d)].root /\ Chaos!Matched(d, peer)
<1> DEFINE i == profile.directions[d]
           root_ == Chaos!Tc("root", reviewed.attachments[d], {})
           state == device[Chaos!Carrier(d)]
           D(id) == Done(impairment.commands, applied, Chaos!Carrier(d), id)
<1>1. stage \in Shaping /\ d \in Ways /\ Chaos!Carrier(d) \in Chaos!Interfaces /\ DOMAIN reviewed.attachments = Ways
  BY CarrierIs, ShapingIs DEF Shaping, ChaosInv
<1>2. /\ state.root <=> D("root") # {}
      /\ \A x : x \in state.filters <=> \E k \in D("filter") : x \in impairment.commands[k].arg
  BY <1>1 DEF ChaosInv, ShapingInv, IsAfter
<1>3. D("root") # {}
  <2>1. root_ \in CommandsOf(reviewed, i, d)
    BY Zenon DEF CommandsOf
  <2>2. root_.interface = reviewed.attachments[d] /\ root_.id = "root"
    BY DEF Chaos!Tc
  <2> HIDE DEF root_
  <2> QED
    BY <2>1, <2>2, AllDone
<1>4. PICK x \in reviewed.scope : peer \in x[1].peers
  BY DEF Chaos!InScope
<1> DEFINE n == x[1]
           f == Chaos!Filter(d, n)
           c == FilterOf(reviewed, f)
<1>5. f \in reviewed.filters /\ f.direction = d /\ f.network = n /\ f.match = Chaos!Match(d)
  <2>1. f \in reviewed.filters
    BY <1>1, ShapingIs, FiltersAreTheScope
  <2> QED
    BY <2>1 DEF Chaos!Filter
<1> HIDE DEF f
<1>6. c \in CommandsOf(reviewed, i, d)
  BY <1>5, Zenon DEF CommandsOf
<1>7. c.interface = reviewed.attachments[d] /\ c.id = "filter" /\ c.arg = {<<Chaos!Match(d), n>>}
  BY <1>5 DEF FilterOf, Chaos!Tc
<1> HIDE DEF c
<1>8. \E k \in D("filter") : impairment.commands[k].arg = {<<Chaos!Match(d), n>>}
  BY <1>6, <1>7, AllDone
<1>9. <<Chaos!Match(d), n>> \in state.filters
  BY <1>2, <1>8
<1> QED
  BY <1>2, <1>3, <1>4, <1>9 DEF Chaos!Matched

LEMMA TargetsAre == ASSUME ChaosInv PROVE OnlyTargetsImpaired
<1> USE DEF ChaosInv
<1>1. Chaos!TypeOK
  <2>1. impairment # Chaos!Unplanned => IsImpairment(impairment)
    BY DEF PlansInv
  <2>2. IsImpairment(impairment) => impairment # Chaos!Unplanned /\ Len(impairment.commands) \in Nat
    BY DEF IsImpairment, Chaos!Unplanned
  <2>3. applied \in 0..(IF impairment = Chaos!Unplanned THEN 0 ELSE Len(impairment.commands))
    BY <2>1, <2>2 DEF PlansInv, ShapingInv, Shaping
  <2> QED
    BY <2>3 DEF PlansInv, Shaping, Chaos!TypeOK
<1>2. ASSUME stage \in Shaping
      PROVE  /\ Chaos!Snapshot(request.kind, live) = reviewed.snapshot
             /\ \A d \in Ways, peer \in Peers : ~Chaos!InScope(peer) => Chaos!Effects(d, peer, FALSE) = {}
             /\ \A i \in Chaos!Interfaces \ {Chaos!Carrier(d) : d \in Ways} : device[i] = Chaos!Bare
             /\ request.kind = "host" => \A i \in Chaos!Interfaces : device[i].mtu = 0
  <2> USE <1>2
  <2> DEFINE cs == impairment.commands
  <2>1. /\ IsTopology(reviewed) /\ ~Chaos!CompileRefused(reviewed, profile)
        /\ reviewed.kind = request.kind
        /\ Chaos!Snapshot(reviewed.kind, live) = reviewed.snapshot
        /\ \A i \in Chaos!Interfaces : IsAfter(device[i], cs, applied, i)
    BY ShapingIs DEF ShapingInv, IsTopology
  <2>2. /\ \A d \in Ways : Chaos!Carrier(d) = reviewed.attachments[d] /\ Chaos!Carrier(d) \in Chaos!Interfaces
        /\ DOMAIN profile.directions \subseteq Ways
    BY <2>1, CarrierIs
  <2>3. ASSUME NEW d \in Ways, NEW peer, Chaos!Matched(d, peer) PROVE Chaos!InScope(peer)
    <3>1. PICK f \in device[Chaos!Carrier(d)].filters : peer \in f[2].peers
      BY <2>3 DEF Chaos!Matched
    <3>2. PICK k \in Done(cs, applied, Chaos!Carrier(d), "filter") : f \in cs[k].arg
      <4>1. IsAfter(device[Chaos!Carrier(d)], cs, applied, Chaos!Carrier(d))
        BY <2>1, <2>2
      <4> HIDE DEF cs
      <4> QED
        BY <3>1, <4>1 DEF IsAfter
    <3>3. PICK g \in reviewed.filters : cs[k].arg = {<<g.match, g.network>>}
      BY <3>2, SidesOwn
    <3>4. f[2] = g.network
      BY <3>2, <3>3
    <3>5. PICK x \in reviewed.scope : x[1] = g.network
      BY <2>1, FiltersAreTheScope
    <3> QED
      BY <3>1, <3>4, <3>5 DEF Chaos!InScope
  <2>4. ASSUME NEW d \in Ways, NEW peer, ~Chaos!InScope(peer) PROVE Chaos!Effects(d, peer, FALSE) = {}
    BY <2>3, <2>4 DEF Chaos!Effects
  <2>5. ASSUME NEW i \in Chaos!Interfaces, NEW id, Done(cs, applied, i, id) # {}
        PROVE  \E d \in DOMAIN profile.directions :
                  /\ i = Chaos!Carrier(d) /\ d \in Ways
                  /\ id = "mtu" => "mtu" \in DOMAIN profile.directions[d]
    <3>1. PICK k \in Done(cs, applied, i, id) : TRUE
      BY <2>5
    <3>2. cs[k] \in AllCommands(reviewed, profile) /\ cs[k].interface = i /\ cs[k].id = id
      BY DoneIs
    <3> HIDE DEF cs
    <3>3. PICK d \in DOMAIN profile.directions :
             /\ cs[k].interface = reviewed.attachments[d]
             /\ cs[k].id = "mtu" => "mtu" \in DOMAIN profile.directions[d]
      BY <3>2, CommandIs
    <3> QED
      BY <2>2, <3>2, <3>3
  <2>6. ASSUME NEW i \in Chaos!Interfaces, \A d \in Ways : i # Chaos!Carrier(d)
        PROVE  device[i] = Chaos!Bare
    <3>1. \A id : Done(cs, applied, i, id) = {}
      BY <2>5, <2>6
    <3>2. IsAfter(device[i], cs, applied, i)
      BY <2>1
    <3> HIDE DEF cs
    <3> DEFINE state == device[i]
    <3>3. state.root = FALSE /\ state.filters = {} /\ state.chain = {} /\ state.mtu = 0
      BY <3>1, <3>2 DEF IsAfter
    <3>4. state = [root |-> state.root, filters |-> state.filters, chain |-> state.chain, mtu |-> state.mtu]
      BY <3>2 DEF IsAfter
    <3> QED
      BY <3>3, <3>4 DEF Chaos!Bare
  <2>7. ASSUME request.kind = "host", NEW i \in Chaos!Interfaces PROVE device[i].mtu = 0
    <3>1. Done(cs, applied, i, "mtu") = {}
      BY <2>1, <2>5, <2>7, FiltersAreTheScope
    <3> QED
      BY <2>1, <3>1 DEF IsAfter
  <2> QED
    BY <2>1, <2>4, <2>6, <2>7
<1>3. ASSUME stage = "applied", NEW d \in Ways, NEW peer, Chaos!InScope(peer)
      PROVE  Chaos!Effects(d, peer, FALSE) = Chaos!Asked(d)
  <2> USE <1>3
  <2> DEFINE state == device[Chaos!Carrier(d)]
  <2>1. stage \in Shaping /\ Chaos!Carrier(d) \in Chaos!Interfaces
    BY CarrierIs, ShapingIs DEF Shaping
  <2>2. CASE d \notin DOMAIN profile.directions
    <3>1. \A id : Done(impairment.commands, applied, Chaos!Carrier(d), id) = {}
      BY <2>1, <2>2, SidesOwn
    <3>2. state.root = FALSE
      BY <2>1, <3>1 DEF ShapingInv, IsAfter
    <3> QED
      BY <2>2, <3>2 DEF Chaos!Effects, Chaos!Asked
  <2>3. CASE d \in DOMAIN profile.directions
    <3>1. \A x : x \in state.chain <=> x \in Chaos!Asked(d)
      BY <2>3, ChainIs
    <3>2. CASE Shaped(profile.directions[d])
      <4>1. state.root /\ Chaos!Matched(d, peer)
        BY <2>3, <3>2, ScopeIsMatched
      <4> HIDE DEF state
      <4>2. \A x : x \in Chaos!Effects(d, peer, FALSE) <=> x \in state.chain
        BY <4>1 DEF Chaos!Effects, state
      <4> QED
        BY <3>1, <4>2
    <3>3. CASE ~Shaped(profile.directions[d])
      <4>1. Chaos!Asked(d) = {}
        <5> DEFINE i == profile.directions[d]
        <5>1. DOMAIN i \subseteq Effect /\ "rate" \notin DOMAIN i
          BY <2>3, <3>3, ChaosAssumption DEF PlansInv, Effect, Shaped
        <5>2. {<<e, i[e]>> : e \in DOMAIN i \cap Chaos!Netem} = {}
          BY <3>3 DEF Shaped, Chaos!NetemArgs
        <5>3. DOMAIN i \cap Chaos!Netem = {}
          BY <5>2
        <5>4. Chaos!Asked(d) = {<<e, i[e]>> : e \in DOMAIN i \ {"mtu"}}
          BY <2>3 DEF Chaos!Asked
        <5> HIDE DEF i
        <5>5. DOMAIN i \ {"mtu"} = {}
          BY <5>1, <5>3 DEF Effect, Chaos!Netem
        <5> QED
          BY <5>4, <5>5
      <4>2. state.chain = {}
        BY <3>1, <4>1
      <4> QED
        BY <4>1, <4>2 DEF Chaos!Effects
    <3> QED
      BY <3>2, <3>3
  <2> QED
    BY <2>2, <2>3
<1>4. stage \in Shaping => DOMAIN reviewed.attachments = Ways
  BY ShapingIs DEF IsTopology
<1>5. Chaos!OnlyTargetsImpaired
  BY <1>2, <1>3, <1>4 DEF Chaos!OnlyTargetsImpaired, Chaos!Reviewed, Shaping
<1> QED
  BY <1>1, <1>5 DEF OnlyTargetsImpaired

(* Whatever is done to the plan files and the host between the steps, from  *)
(* the first tc command that lifecycle.py runs no packet of a peer outside  *)
(* the reviewed scope is impaired, no other interface touched and no mtu of *)
(* a host changed, and once all have run every peer of the scope gets what  *)
(* the profile asks for: for any requests, machines, hosts and profiles.    *)
THEOREM TargetsStayAlone == Spec => []OnlyTargetsImpaired
<1>1. Init => ChaosInv
  BY ChaosInits DEF Init
<1>2. ChaosInv /\ [Next]_vars => ChaosInv'
  <2> SUFFICES ASSUME ChaosInv, [Next]_vars PROVE ChaosInv'
    OBVIOUS
  <2>1. CASE UNCHANGED chaos
    <3>1. /\ stage' = stage /\ request' = request /\ live' = live /\ profile' = profile
          /\ changes' = changes /\ reviewed' = reviewed /\ topology' = topology
          /\ impairment' = impairment /\ applied' = applied /\ device' = device
      BY <2>1 DEF chaos
    <3>2. PlansInv'
      <4>1. /\ IsTopology(topology) => IsTopology(topology)'
            /\ IsImpairment(impairment) => IsImpairment(impairment)'
        BY <3>1 DEF IsTopology, IsImpairment, Ways
      <4> QED
        BY <3>1, <4>1 DEF ChaosInv, PlansInv
    <3>3. ShapingInv'
      BY <3>1 DEF ChaosInv, ShapingInv, Chaos!Interfaces
    <3> QED
      BY <3>2, <3>3 DEF ChaosInv
  <2>2. CASE Chaos!Next
    BY <2>2, PlanTheTopologyKeeps, CompileKeeps, StartKeepsPlans, ApplyKeeps, EditsKeep DEF Chaos!Next
  <2>3. UNCHANGED chaos \/ Chaos!Next
    BY DEF Next, ConsoleRuns, TortureWorks, TortureRuns, MinimiserRuns, PacksRun, OutputsRun, ChaosRuns, vars
  <2> QED
    BY <2>1, <2>2, <2>3
<1>3. ChaosInv => OnlyTargetsImpaired
  BY TargetsAre
<1> QED
  BY <1>1, <1>2, <1>3, PTL DEF Spec
=============================================================================
