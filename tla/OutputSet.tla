------------------------------ MODULE OutputSet ------------------------------
(* Commands that create a set of files: campaign.py's _write_outputs_atomic *)
(* (the manifest and the two reports of `campaign matrix`) and its writers  *)
(* of one file.  Every file is staged beside its place and then linked, and *)
(* link never replaces; a set that cannot be completed is taken back.       *)
(* Several commands may write the same names; a command may be killed.      *)
EXTENDS Naturals, Sequences, Functions

CONSTANTS Writers,
          PathsOf,  \* writer -> the paths it creates, in order
          Nobody
Set(w) == Range(PathsOf[w])
Paths == UNION {Set(w) : w \in Writers}

VARIABLES owner,  \* path -> whose content the file has
          turn,   \* writer -> "stage", "link", "undo", "clean", "done", "failed", "killed"
          temps,  \* writer -> paths it has a temporary file beside
          linked  \* writer -> paths it linked
vars == <<owner, turn, temps, linked>>

Init ==
    /\ owner = [p \in Paths |-> Nobody] /\ turn = [w \in Writers |-> "stage"]
    /\ temps = [w \in Writers |-> {}] /\ linked = [w \in Writers |-> {}]

Goto(w, where) == turn' = [turn EXCEPT ![w] = where]
(* The path whose turn it is: the first one that is not there yet.          *)
Following(w, there) ==
    LET Here(i) == PathsOf[w][i] \notin there
    IN  PathsOf[w][CHOOSE i \in DOMAIN PathsOf[w] : Here(i) /\ \A j \in 1..i - 1 : ~Here(j)]

Stage(w) ==
    /\ turn[w] = "stage"
    /\ temps' = [temps EXCEPT ![w] = @ \cup {Following(w, @)}]
    (* The disk may be full when the temporary file is written.             *)
    /\ \/ Goto(w, IF temps'[w] = Set(w) THEN "link" ELSE "stage")
       \/ Goto(w, "undo")
    /\ UNCHANGED <<owner, linked>>

Link(w) ==
    /\ turn[w] = "link"
    /\ LET p == Following(w, linked[w])
       IN \/ /\ owner[p] = Nobody
             /\ owner' = [owner EXCEPT ![p] = w]
             /\ linked' = [linked EXCEPT ![w] = @ \cup {p}]
             /\ Goto(w, IF linked'[w] = Set(w) THEN "clean" ELSE "link")
          (* The name exists, or the link fails for another reason.         *)
          \/ Goto(w, "undo") /\ UNCHANGED <<owner, linked>>
    /\ UNCHANGED temps

(* Mutant: every path of the set is taken back, linked or not.              *)
UndoAll(w) ==
    /\ turn[w] = "undo"
    /\ owner' = [p \in Paths |-> IF p \in Set(w) THEN Nobody ELSE owner[p]]
    /\ linked' = [linked EXCEPT ![w] = {}]
    /\ Goto(w, "clean") /\ UNCHANGED temps
(* except BaseException: one unlink after the other.                        *)
Undo(w) ==
    /\ turn[w] = "undo"
    /\ IF linked[w] = {} THEN Goto(w, "clean") /\ UNCHANGED <<owner, linked>>
       ELSE \E p \in linked[w] :
              /\ owner' = [owner EXCEPT ![p] = Nobody]
              /\ linked' = [linked EXCEPT ![w] = @ \ {p}]
              /\ UNCHANGED turn
    /\ UNCHANGED temps

Clean(w) ==
    /\ turn[w] = "clean"
    /\ temps' = [temps EXCEPT ![w] = {}]
    /\ Goto(w, IF linked[w] = {} THEN "failed" ELSE "done")
    /\ UNCHANGED <<owner, linked>>

(* A kill; so is an interrupt behind os.link before the path is recorded.   *)
Kill(w) ==
    /\ turn[w] \notin {"done", "failed", "killed"}
    /\ Goto(w, "killed") /\ UNCHANGED <<owner, temps, linked>>

Write(w) == Stage(w) \/ Link(w) \/ Undo(w) \/ Clean(w) \/ Kill(w)
Next == \E w \in Writers : Write(w)
Spec == Init /\ [][Next]_vars

-----------------------------------------------------------------------------
(* A command that says it is done has created its whole set, one that fails *)
(* has created nothing, whatever other commands wrote the same names at the *)
(* same time; nobody removes or replaces another's file.  Only a kill       *)
(* leaves a part of a set or a temporary file.                              *)
AllOrNothing ==
    \A w \in Writers :
        /\ turn[w] = "done" => \A p \in Set(w) : owner[p] = w
        /\ turn[w] = "failed" => \A p \in Paths : owner[p] # w
        /\ turn[w] \in {"done", "failed"} => temps[w] = {}
        /\ \A p \in linked[w] : owner[p] = w
=============================================================================
