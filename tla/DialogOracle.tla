------------------------------ MODULE DialogOracle ------------------------------
(***************************************************************************)
(* sippycup_oracle/dialogs.py: SIP transactions and dialogs, reconstructed *)
(* from the frames of a capture in the order of their numbers.  A frame is *)
(* a SIP message of one call or an RTP packet; a request has status 0.     *)
(* Messages stand for their frame number throughout.                       *)
(***************************************************************************)
EXTENDS Integers, Sequences, FiniteSets, SequencesExt

NoTag == ""
NoSdp == [none |-> TRUE]
Challenge == {401, 407}

Opposite(dir) == IF dir = "out" THEN "in" ELSE "out"
IsSip(f) == f.kind = "sip"
(* _base_key: a truncated message has none.                                *)
BaseKey(f) == <<f.cseq, f.method, f.branch>>
IsRequest(f) == f.status = 0

-----------------------------------------------------------------------------
(* reconstruct_transactions.                                               *)
Builder(key, dir, request, responses) ==
    [key |-> key, dir |-> dir, request |-> request, responses |-> responses,
     again |-> {}, ambiguous |-> FALSE]
Matching(bs, key, dir) == {b \in DOMAIN bs : bs[b].key = key /\ bs[b].dir = dir}

SameResponse(f, g) ==
    f.status = g.status /\ f.from = g.from /\ f.to = g.to /\ f.sdp = g.sdp

AddRequest(acc, fs, i) ==
    LET m == {b \in Matching(acc.builders, BaseKey(fs[i]), fs[i].dir) : acc.builders[b].request # 0}
    IN IF m = {} THEN [acc EXCEPT !.builders = Append(@, Builder(BaseKey(fs[i]), fs[i].dir, i, <<>>))]
       ELSE [acc EXCEPT !.builders[CHOOSE b \in m : \A c \in m : b <= c].again = @ \cup {i}]

AddResponse(acc, fs, i) ==
    LET m == Matching(acc.builders, BaseKey(fs[i]), Opposite(fs[i].dir))
        one == CHOOSE b \in m : TRUE
        known == acc.builders[one].responses
    IN CASE m = {} ->
              [builders |-> Append(acc.builders, Builder(BaseKey(fs[i]), fs[i].dir, 0, <<i>>)),
               orphans |-> acc.orphans \cup {i}]
         [] Cardinality(m) > 1 ->
              [builders |-> [b \in DOMAIN acc.builders |->
                               [acc.builders[b] EXCEPT !.ambiguous = @ \/ b \in m]],
               orphans |-> acc.orphans \cup {i}]
         [] \E r \in DOMAIN known : SameResponse(fs[known[r]], fs[i]) ->
              [acc EXCEPT !.builders[one].again = @ \cup {i}]
         [] OTHER -> [acc EXCEPT !.builders[one].responses = Append(@, i)]

Transactions(fs) ==
    FoldLeftDomain(LAMBDA acc, i :
        IF ~IsSip(fs[i]) THEN acc
        ELSE IF ~fs[i].whole THEN [acc EXCEPT !.orphans = @ \cup {i}]
        ELSE IF IsRequest(fs[i]) THEN AddRequest(acc, fs, i) ELSE AddResponse(acc, fs, i),
      [builders |-> <<>>, orphans |-> {}], fs)

Kept(b) == {b.responses[r] : r \in DOMAIN b.responses} \cup ({b.request} \ {0})

-----------------------------------------------------------------------------
(* _frame_belongs.                                                         *)

(* Mutant: whatever has the Call-ID is of every leg.                       *)
BelongsToCall(f, caller, callee) == f.from \in {caller, callee} \/ f.to = caller

Belongs(f, caller, callee) ==
    \/ f.status \in Challenge /\ f.from = caller
    \/ callee # NoTag /\ <<f.from, f.to>> \in {<<caller, callee>>, <<callee, caller>>}
    \/ f.from = caller /\ f.to = NoTag

(* The role of a message's SDP.                                            *)
Role(f, b, fs) ==
    LET offered == b.request # 0 /\ fs[b.request].sdp # NoSdp
        negotiates == f.method \in {"INVITE", "UPDATE"}
    IN CASE IsRequest(f) /\ negotiates -> "offer"
         [] ~IsRequest(f) /\ negotiates -> IF offered THEN "answer" ELSE "offer"
         [] IsRequest(f) /\ f.method \in {"ACK", "PRACK"} -> "answer"
         [] OTHER -> "unknown"

NewDialog == [state |-> "new", ok |-> {}, failed |-> {}, acked |-> {}, bye |-> FALSE,
              sdps |-> <<>>, invites |-> {}, byes |-> {}, moved |-> FALSE]
Moved(d, state) == [d EXCEPT !.state = state, !.moved = TRUE]

OnRequest(d, f, i) ==
    CASE f.method = "INVITE" ->
           IF d.state \in {"confirmed", "early"} THEN Moved(d, "renegotiating")
           ELSE IF d.state \in {"new", "challenged", "incomplete"}
             THEN [Moved(d, "trying") EXCEPT !.invites = @ \cup {i}]
             ELSE d
      [] f.method = "UPDATE" -> Moved(d, "renegotiating")
      [] f.method = "ACK" -> [Moved(d, d.state) EXCEPT !.acked = @ \cup {f.cseq}]
      [] f.method = "CANCEL" -> Moved(d, "cancelling")
      [] f.method = "BYE" -> [Moved(d, "terminating") EXCEPT !.byes = @ \cup {i}]
      [] OTHER -> d

OnInviteResponse(d, f, inDialog) ==
    LET fails == [d EXCEPT !.failed = IF inDialog THEN @ ELSE @ \cup {f.cseq}]
    IN CASE f.status \in Challenge -> Moved(d, IF inDialog THEN "confirmed" ELSE "challenged")
         [] f.status \in 101..199 -> Moved(d, "early")
         [] f.status \in 200..299 -> [Moved(d, "confirmed") EXCEPT !.ok = @ \cup {f.cseq}]
         [] f.status = 487 -> Moved(fails, "terminated")
         [] f.status >= 300 -> Moved(fails, IF inDialog THEN "confirmed" ELSE "rejected")
         [] OTHER -> d

OnResponse(d, f, i, inDialog) ==
    CASE f.method = "INVITE" -> OnInviteResponse(d, f, inDialog)
      [] f.method = "UPDATE" /\ f.status >= 200 -> Moved(d, "confirmed")
      [] f.method = "CANCEL" /\ f.status \in 200..299 -> Moved(d, d.state)
      [] f.method = "BYE" /\ f.status \in 200..299 ->
           [Moved(d, "terminated") EXCEPT !.bye = TRUE, !.byes = @ \cup {i}]
      [] OTHER -> d

(* _dialog_from_root: the leg's frames in order, through the machine above. *)
(* A cancelled call is concluded as a refused one is: by 487 and its ACK.  *)
Leg(fs, builders, caller, callee) ==
    LET at(i) == CHOOSE b \in DOMAIN builders : i \in Kept(builders[b])
        taken == {i \in UNION {Kept(builders[b]) : b \in DOMAIN builders} :
                    Belongs(fs[i], caller, callee)}
        included == {at(i) : i \in taken}
        end == FoldLeftDomain(LAMBDA d, i :
                 IF i \notin taken THEN d
                 ELSE LET f == fs[i]
                          b == builders[at(i)]
                          e == IF f.sdp = NoSdp THEN d
                               ELSE [d EXCEPT !.sdps = Append(@, [role |-> Role(f, b, fs),
                                                   status |-> f.status, at |-> i])]
                      IN IF IsRequest(f) THEN OnRequest(e, f, i)
                         ELSE OnResponse(e, f, i, b.request # 0 /\ fs[b.request].to # NoTag),
                 NewDialog, fs)
        uncertain == \/ \E i \in DOMAIN fs : IsSip(fs[i]) /\ ~fs[i].whole
                     \/ \E b \in included : builders[b].ambiguous
        concluded == \/ end.ok # {} /\ end.ok \subseteq end.acked /\ end.bye
                     \/ end.failed \cap end.acked # {}
    IN [callee |-> callee, complete |-> concluded /\ ~uncertain,
        state |-> IF ~end.moved \/ end.state = "new" THEN "incomplete" ELSE end.state,
        sdps |-> end.sdps, invites |-> end.invites, byes |-> end.byes, frames |-> taken]

(* reconstruct_dialogs: one leg per callee tag of the initial INVITEs'      *)
(* responses, challenges aside.                                            *)
Dialogs(fs) ==
    LET builders == Transactions(fs).builders
        roots == {b \in DOMAIN builders : /\ builders[b].request # 0 /\ builders[b].key[2] = "INVITE"
                                         /\ fs[builders[b].request].to = NoTag}
        caller == fs[builders[CHOOSE b \in roots : \A c \in roots : b <= c].request].from
        tags == {fs[i].to : i \in {j \in UNION {Kept(builders[b]) : b \in roots} :
                                     ~IsRequest(fs[j]) /\ fs[j].status \notin Challenge}} \ {NoTag}
    IN IF roots = {} THEN {}
       ELSE {Leg(fs, builders, caller, tag) : tag \in IF tags = {} THEN {NoTag} ELSE tags}
=============================================================================
