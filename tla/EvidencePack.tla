------------------------------ MODULE EvidencePack ------------------------------
(***************************************************************************)
(* sippycup/evidence.py and evidence_pack.py: a run directory is           *)
(* inventoried (hashed, then read again for its privacy), packed, signed,  *)
(* verified and exported, by commands of their own, while mission control  *)
(* may append a note and a runner rewrite a result.  A hash is the content *)
(* it is of; content is a sequence of distinct chunks, private or not.     *)
(***************************************************************************)
EXTENDS Integers, Sequences, FiniteSets

CONSTANTS Files,     \* a sequence: the run's files, in the order of their names
          Appended,  \* the ones that only grow (notes.jsonl); others are rewritten
          Creators,  \* runs of create_evidence_pack with one output
          MaxEdits, MaxInventories \* bounds

Artifact == {Files[i] : i \in DOMAIN Files}
VARIABLES root,      \* the run directory: [Artifact -> content]
          edits,     \* how often it was written: numbers its chunks
          manifest,  \* evidence-manifest.json: [serial, hashes, blocked]
          inventory, \* write_evidence_manifest: [pc, at, hashes, blocked, serial]
          creator,   \* [pc, at, read, tar] of each creator
          pack,      \* the pack: [declared, embedded, members, encrypted]
          signature, \* the pack that was signed
          verifier,  \* verify_evidence_pack: [pc, valid, verdict]
          exporter,  \* export_ci: [pc, at, allow, blocked, declared, seen, staged]
          output     \* the export that is visible: [blocked, allow, declared, files, seen]

source == <<root, edits>>
packing == <<manifest, inventory, creator>>
checking == <<signature, verifier>>
exporting == <<exporter, output>>
vars == <<source, packing, pack, checking, exporting>>

None == [none |-> TRUE]
Private(content) == \E i \in DOMAIN content : content[i].private
Nothing == [f \in Artifact |-> <<>>]

Init ==
    /\ root \in [Artifact -> {<<[n |-> 0, private |-> p]>> : p \in BOOLEAN}] /\ edits = 0
    /\ manifest = None /\ pack = None /\ signature = None /\ output = None
    /\ inventory = [pc |-> "idle", at |-> 1, hashes |-> Nothing, blocked |-> FALSE, serial |-> 0]
    /\ creator = [c \in Creators |-> [pc |-> "start", at |-> 1, read |-> None, tar |-> None]]
    /\ verifier = [pc |-> "idle", valid |-> TRUE, verdict |-> "none"]
    /\ exporter = [pc |-> "idle", at |-> 1, allow |-> FALSE, blocked |-> FALSE,
                   declared |-> Nothing, seen |-> {}, staged |-> Nothing]

(* add_note, or a runtime that replaces its result.                        *)
Edit(f) ==
    /\ edits < MaxEdits /\ edits' = edits + 1
    /\ \E p \in BOOLEAN :
          LET chunk == [n |-> edits + 1, private |-> p]
          IN root' = [root EXCEPT ![f] = IF f \in Appended THEN Append(@, chunk) ELSE <<chunk>>]
    /\ UNCHANGED <<packing, pack, checking, exporting>>

-----------------------------------------------------------------------------
(* build_evidence_manifest and write_evidence_manifest: every file is       *)
(* hashed, then as many bytes as were hashed are read again and inspected. *)
BeginInventory ==
    /\ inventory.pc = "idle" /\ inventory.serial < MaxInventories
    /\ inventory' = [pc |-> "hash", at |-> 1, hashes |-> Nothing, blocked |-> FALSE,
                     serial |-> inventory.serial + 1]
    /\ UNCHANGED <<source, manifest, creator, pack, checking, exporting>>

Step(pc) == inventory.pc = pc /\ inventory.at <= Len(Files)
Last == inventory.at = Len(Files)
Current == Files[inventory.at]
Prefix(content, size) == SubSeq(content, 1, IF size < Len(content) THEN size ELSE Len(content))

Hash ==
    /\ Step("hash")
    /\ inventory' = [inventory EXCEPT !.hashes[Current] = root[Current],
                        !.at = IF Last THEN 1 ELSE @ + 1, !.pc = IF Last THEN "scan" ELSE @]
    /\ UNCHANGED <<source, manifest, creator, pack, checking, exporting>>

Scan ==
    /\ Step("scan")
    /\ inventory' = [inventory EXCEPT
          !.blocked = @ \/ Private(Prefix(root[Current], Len(inventory.hashes[Current]))),
          !.at = IF Last THEN 1 ELSE @ + 1, !.pc = IF Last THEN "write" ELSE @]
    /\ UNCHANGED <<source, manifest, creator, pack, checking, exporting>>

WriteManifest ==
    /\ inventory.pc = "write"
    /\ manifest' = [serial |-> inventory.serial, hashes |-> inventory.hashes,
                    blocked |-> inventory.blocked]
    /\ inventory' = [inventory EXCEPT !.pc = "idle", !.hashes = Nothing, !.blocked = FALSE]
    /\ UNCHANGED <<source, creator, pack, checking, exporting>>

-----------------------------------------------------------------------------
(* create_evidence_pack: the output must not exist; the manifest is read    *)
(* and every file hashed against it, then the manifest and every file are  *)
(* opened again and as many bytes as were declared are copied.              *)
Goes(c, r) == creator' = [creator EXCEPT ![c] = r]

Begin(c) ==
    /\ creator[c].pc = "start"
    /\ Goes(c, [creator[c] EXCEPT !.pc = IF pack # None \/ manifest = None THEN "failed" ELSE "hash",
                                  !.read = manifest])
    /\ UNCHANGED <<source, manifest, inventory, pack, checking, exporting>>

CheckSource(c) ==
    /\ creator[c].pc = "hash"
    /\ LET f == Files[creator[c].at]
           same == root[f] = creator[c].read.hashes[f]
           last == creator[c].at = Len(Files)
       IN Goes(c, [creator[c] EXCEPT
             !.pc = IF ~same THEN "failed" ELSE IF last THEN "manifest" ELSE @,
             !.at = IF last THEN 1 ELSE @ + 1])
    /\ UNCHANGED <<source, manifest, inventory, pack, checking, exporting>>

(* A manifest that was replaced meanwhile and is shorter ends the creation. *)
CopyManifest(c) ==
    /\ creator[c].pc = "manifest"
    /\ \/ Goes(c, [creator[c] EXCEPT !.pc = "copy",
             !.tar = [declared |-> creator[c].read, embedded |-> manifest,
                      members |-> Nothing, encrypted |-> FALSE]])
       \/ manifest # creator[c].read /\ Goes(c, [creator[c] EXCEPT !.pc = "failed"])
    /\ UNCHANGED <<source, manifest, inventory, pack, checking, exporting>>

Copy(c) ==
    /\ creator[c].pc = "copy"
    /\ LET f == Files[creator[c].at]
           last == creator[c].at = Len(Files)
       IN Goes(c, [creator[c] EXCEPT
             !.tar.members[f] = Prefix(root[f], Len(creator[c].read.hashes[f])),
             !.pc = IF last THEN "publish" ELSE @, !.at = IF last THEN 1 ELSE @ + 1])
    /\ UNCHANGED <<source, manifest, inventory, pack, checking, exporting>>

(* os.replace, after age has encrypted for the recipients; age may fail.   *)
Publish(c) ==
    /\ creator[c].pc = "publish"
    /\ \E end \in {"plain", "encrypted", "failed"} :
          /\ pack' = IF end = "failed" THEN pack
                     ELSE [creator[c].tar EXCEPT !.encrypted = (end = "encrypted")]
          /\ Goes(c, [creator[c] EXCEPT !.pc = IF end = "failed" THEN end ELSE "done", !.tar = None])
    /\ UNCHANGED <<source, manifest, inventory, checking, exporting>>

-----------------------------------------------------------------------------
(* sign_evidence_pack; the signature must not exist.                       *)
Sign ==
    /\ pack # None /\ signature = None /\ signature' = pack
    /\ UNCHANGED <<source, packing, pack, verifier, exporting>>

(* _verify_content: every member has the declared hash, and the inventory   *)
(* declared is the embedded one.                                            *)
ContentValid(p) ==
    /\ ~p.encrypted
    /\ p.embedded = p.declared
    /\ \A f \in Artifact : p.members[f] = p.declared.hashes[f]

(* verify_evidence_pack: the signature first, if one is given.  A behaviour *)
(* has one reader of the pack: readers do not touch what others see.       *)
CheckSignature ==
    /\ verifier.pc = "idle" /\ exporter.pc = "idle" /\ pack # None
    /\ \/ verifier' = [verifier EXCEPT !.pc = "content"]
       \/ /\ signature # None
          /\ verifier' = [verifier EXCEPT !.pc = "content", !.valid = (signature = pack)]
    /\ UNCHANGED <<source, packing, pack, signature, exporting>>

Verify ==
    /\ verifier.pc = "content"
    /\ verifier' = [verifier EXCEPT !.pc = "done",
                      !.verdict = IF ~ContentValid(pack) THEN "content-failure"
                                  ELSE IF ~verifier.valid THEN "signature-failure" ELSE "pass"]
    /\ UNCHANGED <<source, packing, pack, signature, exporting>>

-----------------------------------------------------------------------------
(* export_ci.  It opens the pack once for each question, and once for each  *)
(* artifact selected; what it staged is renamed in one step, or removed.    *)
Exports(r) == exporter' = [r EXCEPT !.seen = exporter.seen \cup {pack}]
Fails == exporter' = [exporter EXCEPT !.pc = "failed", !.staged = Nothing]

BeginExport ==
    /\ exporter.pc = "idle" /\ verifier.pc = "idle" /\ pack # None /\ output = None
    /\ \E allow \in BOOLEAN :
          IF ContentValid(pack) THEN Exports([exporter EXCEPT !.pc = "privacy", !.allow = allow])
          ELSE Fails
    /\ UNCHANGED <<source, packing, pack, checking, output>>

(* Mutant: an acknowledgement that was not given is not missed.            *)
AskPrivacyOnce ==
    /\ exporter.pc = "privacy"
    /\ IF ~pack.encrypted
         THEN Exports([exporter EXCEPT !.pc = "again", !.blocked = pack.embedded.blocked])
         ELSE Fails
    /\ UNCHANGED <<source, packing, pack, checking, output>>

AskPrivacy ==
    /\ exporter.pc = "privacy"
    /\ IF ~pack.encrypted /\ (pack.embedded.blocked => exporter.allow)
         THEN Exports([exporter EXCEPT !.pc = "again", !.blocked = pack.embedded.blocked])
         ELSE Fails
    /\ UNCHANGED <<source, packing, pack, checking, output>>

VerifyAgain ==
    /\ exporter.pc = "again"
    /\ IF ContentValid(pack)
         THEN Exports([exporter EXCEPT !.pc = "extract", !.declared = pack.declared.hashes])
         ELSE Fails
    /\ UNCHANGED <<source, packing, pack, checking, output>>

Extract ==
    /\ exporter.pc = "extract"
    /\ LET f == Files[exporter.at]
           last == exporter.at = Len(Files)
       IN \/ Fails
          \/ /\ ~pack.encrypted
             /\ Exports([exporter EXCEPT !.staged[f] = pack.members[f],
                  !.at = IF last THEN 1 ELSE @ + 1, !.pc = IF last THEN "replace" ELSE @])
    /\ UNCHANGED <<source, packing, pack, checking, output>>

Replace ==
    /\ exporter.pc = "replace"
    /\ output' = [blocked |-> exporter.blocked, allow |-> exporter.allow,
                  declared |-> exporter.declared, files |-> exporter.staged, seen |-> exporter.seen]
    /\ exporter' = [exporter EXCEPT !.pc = "done", !.staged = Nothing]
    /\ UNCHANGED <<source, packing, pack, checking>>

Create(c) == Begin(c) \/ CheckSource(c) \/ CopyManifest(c) \/ Copy(c) \/ Publish(c)
Export == BeginExport \/ AskPrivacy \/ VerifyAgain \/ Extract \/ Replace
Next ==
    \/ \E f \in Artifact : Edit(f)
    \/ BeginInventory \/ Hash \/ Scan \/ WriteManifest
    \/ \E c \in Creators : Create(c)
    \/ Sign \/ CheckSignature \/ Verify \/ Export
Spec == Init /\ [][Next]_vars
-----------------------------------------------------------------------------
(* Properties.                                                             *)

(* Files change while they are inventoried and packed, and yet a pack that  *)
(* verifies is what one inventory hashed, and when that inventory says the  *)
(* privacy lint passed nothing private is in the pack: what is inspected is *)
(* read after, and cut to, what was hashed.                                 *)
VerifiedPackIsInventory ==
    pack # None /\ ContentValid(pack) =>
       /\ pack.members = pack.embedded.hashes
       /\ ~pack.embedded.blocked => \A f \in Artifact : ~Private(pack.members[f])

(* "export-ci first requires the embedded privacy lint status to pass": an  *)
(* export is visible only when it is whole, is of what the pack declared,   *)
(* and holds something private only if that was acknowledged, unless the    *)
(* pack itself was replaced while export_ci read it.                        *)
ExportIsCleared ==
    output # None /\ Cardinality(output.seen) = 1 =>
       /\ output.files = output.declared
       /\ (\E f \in Artifact : Private(output.files[f])) => output.blocked /\ output.allow
=============================================================================
