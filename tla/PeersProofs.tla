----------------------------- MODULE PeersProofs -----------------------------
(***************************************************************************)
(* Proofs about the two self-tests of webrtc-peer: the bounded call, for   *)
(* every number of packets, with and without a relay, and whichever        *)
(* candidates a gathering finds; and the signaling script, for either      *)
(* adapter and however many ended connections are still closing.           *)
(***************************************************************************)
EXTENDS MCPeers, FiniteSetTheorems, TLAPS

-----------------------------------------------------------------------------
(* Candidates.  A peer hears the candidates of one gathering and then its  *)
(* end, and after the restart those of another; the counts are of what it  *)
(* has heard so far.                                                       *)

Peer == C!Peer
Item == [kind : Candidates \cup {"end"}, restart : BOOLEAN]
Kinds == {"host", "relay"}
At(h, kinds) == {i \in DOMAIN h : h[i].kind \in kinds}
Count(h, kinds) == Cardinality(At(h, kinds))

LEMMA SameCardinality ==
    ASSUME NEW set
    PROVE  C!Cardinality(set) = Cardinality(set)
BY Zenon DEF Cardinality, C!Cardinality, IsFiniteSet, C!IsFiniteSet

LEMMA CountersAre ==
    ASSUME NEW p \in Peer
    PROVE  /\ C!Gathered(p) = Count(heard[p], Kinds)
           /\ C!Relayed(p) = Count(heard[p], {"relay"})
           /\ C!Completed(p) = Count(heard[p], {"end"})
BY SameCardinality DEF C!Gathered, C!Relayed, C!Completed, C!Heard, Count, At, Kinds

LEMMA CountIsFinite ==
    ASSUME NEW h \in Seq(Item), NEW kinds
    PROVE  /\ IsFiniteSet(At(h, kinds)) /\ Count(h, kinds) \in Nat
           /\ Count(h, kinds) > 0 <=> \E i \in DOMAIN h : h[i].kind \in kinds
<1>1. At(h, kinds) \subseteq 1..Len(h) /\ Len(h) \in Nat
  BY DEF At
<1>2. IsFiniteSet(1..Len(h))
  BY <1>1, FS_Interval
<1>3. IsFiniteSet(At(h, kinds))
  BY <1>1, <1>2, FS_Subset
<1>4. Count(h, kinds) \in Nat /\ (Count(h, kinds) = 0 <=> At(h, kinds) = {})
  BY <1>3, FS_CardinalityType, FS_EmptySet DEF Count
<1> QED
  BY <1>3, <1>4 DEF At

LEMMA CountAppend ==
    ASSUME NEW h \in Seq(Item), NEW x \in Item, NEW kinds
    PROVE  Count(Append(h, x), kinds) = Count(h, kinds) + IF x.kind \in kinds THEN 1 ELSE 0
<1> DEFINE n == Len(h)
           g == Append(h, x)
<1>1. /\ n \in Nat /\ DOMAIN h = 1..n /\ DOMAIN g = 1..n \cup {n + 1} /\ n + 1 \notin 1..n
      /\ g[n + 1] = x /\ \A i \in 1..n : g[i] = h[i]
  OBVIOUS
<1> HIDE DEF n, g
<1>2. /\ IsFiniteSet(At(h, kinds)) /\ n + 1 \notin At(h, kinds)
      /\ Cardinality(At(h, kinds)) \in Nat
  BY <1>1, CountIsFinite DEF At, Count
<1>3. CASE x.kind \in kinds
  <2>1. At(g, kinds) = At(h, kinds) \cup {n + 1}
    BY <1>1, <1>3 DEF At
  <2>2. Cardinality(At(g, kinds)) = Cardinality(At(h, kinds)) + 1
    BY <1>2, <2>1, FS_AddElement
  <2> QED
    BY <1>3, <2>2 DEF Count, g
<1>4. CASE x.kind \notin kinds
  <2>1. At(g, kinds) = At(h, kinds)
    BY <1>1, <1>4 DEF At
  <2> QED
    BY <1>2, <1>4, <2>1 DEF Count, g
<1> QED
  BY <1>3, <1>4

(* Gatherings end once, so at most two ends are heard.                     *)
EndsDiffer(h, cb) ==
    /\ \A i, j \in DOMAIN h :
          h[i].kind = "end" /\ h[j].kind = "end" /\ i # j => h[i].restart # h[j].restart
    /\ \A i \in DOMAIN h, j \in DOMAIN cb :
          h[i].kind = "end" /\ cb[j].kind = "end" => h[i].restart # cb[j].restart
    /\ \A i, j \in DOMAIN cb :
          cb[i].kind = "end" /\ cb[j].kind = "end" /\ i # j => cb[i].restart # cb[j].restart

LEMMA TwoEnds ==
    ASSUME NEW h \in Seq(Item), NEW cb, EndsDiffer(h, cb)
    PROVE  Count(h, {"end"}) \in 0..2
<1> DEFINE ends == At(h, {"end"})
<1>1. \A i, j \in ends : i # j => h[i].restart # h[j].restart
  BY DEF EndsDiffer, At
<1>2. \A i \in ends : h[i].restart \in BOOLEAN
  <2>1. \A i \in DOMAIN h : h[i] \in Item
    OBVIOUS
  <2> QED
    BY <2>1 DEF At, Item
<1>6. Count(h, {"end"}) = Cardinality(ends)
  BY DEF Count
<1> HIDE DEF ends
<1>3. CASE ends = {}
  BY <1>3, <1>6, FS_EmptySet
<1>4. ASSUME NEW i \in ends, ends = {i} PROVE Count(h, {"end"}) = 1
  BY <1>4, <1>6, FS_Singleton
<1>5. ASSUME NEW i \in ends, NEW j \in ends, i # j PROVE Count(h, {"end"}) = 2
  <2>1. \A k \in ends : k = i \/ k = j
    BY <1>1, <1>2, <1>5
  <2>2. ends = {i} \cup {j} /\ j \notin {i}
    BY <1>5, <2>1
  <2>3. Cardinality({i} \cup {j}) = 2
    <3>1. IsFiniteSet({i}) /\ Cardinality({i}) = 1
      BY FS_Singleton
    <3>2. Cardinality({i} \cup {j}) = Cardinality({i}) + 1
      BY <2>2, <3>1, FS_AddElement
    <3> QED
      BY <3>1, <3>2
  <2> QED
    BY <1>6, <2>2, <2>3
<1> QED
  BY <1>3, <1>4, <1>5

-----------------------------------------------------------------------------
(* The invariant.  Before its gathering is restarted a peer has none of the *)
(* restart's callbacks, and none at all once it heard an end: if it had    *)
(* heard one when the counts were read, what it counts later is of the     *)
(* restart.  The counts only grow, and when both had grown the runner goes *)
(* on to close the peers.                                                  *)
NotYet(p) ==
    {"negotiate", "forwarders", "connect", "send", "media", "restart"}
    \cup (IF p = "right" THEN {"wait-left"} ELSE {})
Closing == {"close", "rtcp", "verdict"}
Talking == {"send", "media", "restart", "wait-left", "wait-right", "observe"} \cup Closing
Pcs == {"negotiate", "forwarders", "connect", "reported"} \cup Talking

CallType ==
    /\ pc \in Pcs /\ status \in {"none", "pass", "fail"}
    /\ heard \in [Peer -> Seq(Item)] /\ callbacks \in [Peer -> Seq(Item)]
    /\ trickle \in [Peer -> Nat] /\ before \in [Peer -> Nat \X Nat]
    /\ state \in [Peer -> {"new", "connected", "closed"}] /\ connected \in [Peer -> BOOLEAN]

StreamInv(p) ==
    /\ EndsDiffer(heard[p], callbacks[p])
    /\ pc \in NotYet(p) =>
          /\ callbacks[p] \in {<<>>} \cup C!Found(FALSE)
          /\ \A i \in DOMAIN heard[p] : ~heard[p][i].restart
          /\ (\E i \in DOMAIN heard[p] : heard[p][i].kind = "end") => callbacks[p] = <<>>
    /\ pc = "negotiate" => heard[p] = <<>> /\ callbacks[p] = <<>> /\ before[p][2] = 0
    /\ trickle[p] <= Count(heard[p], Kinds)
    /\ before[p][2] > 0 =>
          /\ \A i \in DOMAIN callbacks[p] : callbacks[p][i].restart
          /\ C!FoundByRestart(p) \/ Count(heard[p], Kinds) = before[p][1]
    /\ (pc \in Closing \/ status = "pass") => Count(heard[p], Kinds) > before[p][1]

MediaInv ==
    /\ sent \in Nat /\ flight \subseteq 1..sent /\ received \in Seq(1..sent)
    /\ Len(received) <= Packets
    /\ reader = "reading" => Len(received) < Packets
    /\ reader = "none" => received = <<>>
EndInv ==
    /\ pc \in Talking => \A p \in Peer : connected[p]
    /\ pc \in {"rtcp", "verdict", "reported"} => \A p \in Peer : state[p] = "closed"
    /\ pc = "verdict" => ~rtcp
    /\ status # "none" => pc = "reported"
    /\ C!PassMeansWholeCall
CallInv == CallType /\ (\A p \in Peer : StreamInv(p)) /\ MediaInv /\ EndInv

LEMMA StreamStays ==
    ASSUME CallType, NEW p \in Peer, StreamInv(p),
           heard'[p] = heard[p], callbacks'[p] = callbacks[p], before'[p] = before[p],
           trickle'[p] <= Count(heard[p], Kinds),
           pc' \in NotYet(p) => pc \in NotYet(p), pc' = "negotiate" => pc = "negotiate",
           (pc' \in Closing \/ status' = "pass") => Count(heard[p], Kinds) > before[p][1]
    PROVE  StreamInv(p)'
BY DEF StreamInv, C!FoundByRestart

(* What a gathering reports.                                               *)
LEMMA FoundIs ==
    ASSUME NEW r \in BOOLEAN, NEW x \in C!Found(r)
    PROVE  /\ x \in Seq(Item) /\ x # <<>> /\ \A i \in DOMAIN x : x[i].restart = r
           /\ \A i, j \in DOMAIN x : x[i].kind = "end" /\ x[j].kind = "end" => i = j
           /\ Tail(x) \in {<<>>} \cup C!Found(r)
           /\ Head(x).kind = "end" => Tail(x) = <<>>
<1> DEFINE end == [kind |-> "end", restart |-> r]
<1>1. end \in Item /\ end.kind = "end" /\ end.restart = r
  BY DEF Item
<1> HIDE DEF end
<1>2. CASE x = <<end>>
  BY <1>1, <1>2
<1>3. ASSUME NEW k \in Candidates, x = <<[kind |-> k, restart |-> r], end>>
      PROVE  /\ x \in Seq(Item) /\ x # <<>> /\ \A i \in DOMAIN x : x[i].restart = r
             /\ \A i, j \in DOMAIN x : x[i].kind = "end" /\ x[j].kind = "end" => i = j
             /\ Tail(x) \in {<<>>} \cup C!Found(r)
             /\ Head(x).kind = "end" => Tail(x) = <<>>
  <2> DEFINE first == [kind |-> k, restart |-> r]
  <2>1. first \in Item /\ first.kind # "end" /\ first.restart = r
    BY PeersAssumption DEF Item
  <2> HIDE DEF first
  <2>2. x = <<first, end>>
    BY <1>3 DEF first
  <2>3. Tail(x) = <<end>>
    BY <1>1, <2>1, <2>2
  <2>4. Tail(x) \in C!Found(r)
    BY <2>3 DEF C!Found, end
  <2> QED
    BY <1>1, <2>1, <2>2, <2>4
<1>4. x = <<end>> \/ \E k \in Candidates : x = <<[kind |-> k, restart |-> r], end>>
  BY DEF C!Found, end
<1> QED
  BY <1>2, <1>3, <1>4

LEMMA EndsShift ==
    ASSUME NEW h \in Seq(Item), NEW cb \in Seq(Item), cb # <<>>, EndsDiffer(h, cb)
    PROVE  EndsDiffer(Append(h, Head(cb)), Tail(cb))
<1> DEFINE n == Len(h)
           m == Len(cb)
           g == Append(h, Head(cb))
           t == Tail(cb)
<1>1. /\ n \in Nat /\ m \in Nat \ {0} /\ DOMAIN h = 1..n /\ DOMAIN cb = 1..m
      /\ DOMAIN g = 1..n + 1 /\ DOMAIN t = 1..m - 1
      /\ \A i \in 1..n : g[i] = h[i]
      /\ g[n + 1] = cb[1]
      /\ \A i \in 1..m - 1 : t[i] = cb[i + 1] /\ i + 1 \in 1..m /\ i + 1 # 1
      /\ 1 \in 1..m
  OBVIOUS
<1>2. \A i \in 1..n + 1 : i \in 1..n \/ i = n + 1
  BY <1>1
<1> HIDE DEF n, m, g, t
<1>7. /\ \A i, j \in 1..n :
            h[i].kind = "end" /\ h[j].kind = "end" /\ i # j => h[i].restart # h[j].restart
      /\ \A i \in 1..n, j \in 1..m :
            h[i].kind = "end" /\ cb[j].kind = "end" => h[i].restart # cb[j].restart
      /\ \A i, j \in 1..m :
            cb[i].kind = "end" /\ cb[j].kind = "end" /\ i # j => cb[i].restart # cb[j].restart
  BY <1>1 DEF EndsDiffer
<1>3. ASSUME NEW i \in 1..n + 1, NEW j \in 1..n + 1,
             g[i].kind = "end", g[j].kind = "end", i # j
      PROVE  g[i].restart # g[j].restart
  <2>1. CASE i \in 1..n /\ j \in 1..n
    BY <1>1, <1>3, <1>7, <2>1
  <2>2. CASE i \in 1..n /\ j = n + 1
    BY <1>1, <1>3, <1>7, <2>2
  <2>3. CASE i = n + 1 /\ j \in 1..n
    BY <1>1, <1>3, <1>7, <2>3
  <2> QED
    BY <1>2, <1>3, <2>1, <2>2, <2>3
<1>4. ASSUME NEW i \in 1..n + 1, NEW j \in 1..m - 1, g[i].kind = "end", t[j].kind = "end"
      PROVE  g[i].restart # t[j].restart
  <2>1. t[j] = cb[j + 1] /\ j + 1 \in 1..m /\ j + 1 # 1
    BY <1>1
  <2>2. CASE i \in 1..n
    BY <1>1, <1>4, <1>7, <2>1, <2>2
  <2>3. CASE i = n + 1
    <3>1. g[i] = cb[1] /\ 1 \in 1..m
      BY <1>1, <2>3
    <3> QED
      BY <1>4, <1>7, <2>1, <3>1
  <2> QED
    BY <1>2, <2>2, <2>3
<1>5. ASSUME NEW i \in 1..m - 1, NEW j \in 1..m - 1,
             t[i].kind = "end", t[j].kind = "end", i # j
      PROVE  t[i].restart # t[j].restart
  <2>1. i + 1 # j + 1
    BY <1>1, <1>5
  <2>2. /\ t[i] = cb[i + 1] /\ i + 1 \in 1..m
        /\ t[j] = cb[j + 1] /\ j + 1 \in 1..m
    BY <1>1
  <2> QED
    BY <1>5, <1>7, <2>1, <2>2
<1>6. EndsDiffer(g, t)
  BY <1>1, <1>3, <1>4, <1>5 DEF EndsDiffer
<1> QED
  BY <1>6 DEF g, t

LEMMA EndsAdd ==
    ASSUME NEW h \in Seq(Item), NEW cb \in Seq(Item), EndsDiffer(h, cb),
           NEW r \in BOOLEAN, NEW y \in C!Found(r),
           \A i \in DOMAIN h : h[i].restart # r, \A i \in DOMAIN cb : cb[i].restart # r
    PROVE  EndsDiffer(h, cb \o y)
<1> DEFINE m == Len(cb)
           n == Len(y)
           z == cb \o y
<1>1. y \in Seq(Item) /\ (\A i \in DOMAIN y : y[i].restart = r)
      /\ \A i, j \in DOMAIN y : y[i].kind = "end" /\ y[j].kind = "end" => i = j
  BY FoundIs
<1>2. /\ m \in Nat /\ n \in Nat /\ DOMAIN cb = 1..m /\ DOMAIN y = 1..n /\ DOMAIN z = 1..m + n
      /\ \A i \in 1..m : z[i] = cb[i]
      /\ \A i \in m + 1..m + n : z[i] = y[i - m] /\ i - m \in 1..n
  BY <1>1
<1>3. \A i \in 1..m + n : i \in 1..m \/ i \in m + 1..m + n
  BY <1>2
<1> HIDE DEF m, n, z
<1>4. ASSUME NEW i \in DOMAIN h, NEW j \in 1..m + n, h[i].kind = "end", z[j].kind = "end"
      PROVE  h[i].restart # z[j].restart
  <2>1. CASE j \in 1..m
    BY <1>2, <1>4, <2>1 DEF EndsDiffer
  <2>2. CASE j \in m + 1..m + n
    <3>1. z[j].restart = r
      BY <1>1, <1>2, <2>2
    <3> QED
      BY <3>1
  <2> QED
    BY <1>3, <2>1, <2>2
<1>5. ASSUME NEW i \in 1..m + n, NEW j \in 1..m + n,
             z[i].kind = "end", z[j].kind = "end", i # j
      PROVE  z[i].restart # z[j].restart
  <2>1. CASE i \in 1..m /\ j \in 1..m
    BY <1>2, <1>5, <2>1 DEF EndsDiffer
  <2>2. CASE i \in 1..m /\ j \in m + 1..m + n
    <3>1. z[i].restart # r
      BY <1>2, <2>2
    <3>2. z[j].restart = r
      BY <1>1, <1>2, <2>2
    <3> QED
      BY <3>1, <3>2
  <2>3. CASE i \in m + 1..m + n /\ j \in 1..m
    <3>1. z[j].restart # r
      BY <1>2, <2>3
    <3>2. z[i].restart = r
      BY <1>1, <1>2, <2>3
    <3> QED
      BY <3>1, <3>2
  <2>4. CASE i \in m + 1..m + n /\ j \in m + 1..m + n
    <3>1. /\ z[i] = y[i - m] /\ i - m \in DOMAIN y
          /\ z[j] = y[j - m] /\ j - m \in DOMAIN y
      BY <1>2, <2>4
    <3>2. i - m = j - m
      BY <1>1, <1>5, <3>1
    <3> QED
      BY <1>2, <1>5, <3>2
  <2> QED
    BY <1>3, <2>1, <2>2, <2>3, <2>4
<1>6. EndsDiffer(h, z)
  BY <1>2, <1>4, <1>5 DEF EndsDiffer
<1> QED
  BY <1>6 DEF z

LEMMA GatherStream ==
    ASSUME CallType, NEW p \in Peer, StreamInv(p), C!Gather(p)
    PROVE  StreamInv(p)' /\ (C!FoundByRestart(p) => C!FoundByRestart(p)')
<1> DEFINE h == heard[p]
           cb == callbacks[p]
           x == Head(cb)
<1>1. /\ h \in Seq(Item) /\ cb \in Seq(Item) /\ cb # <<>> /\ trickle[p] \in Nat
      /\ before[p][1] \in Nat /\ before[p][2] \in Nat
  BY DEF CallType, C!Gather
<1>2. x \in Item /\ Tail(cb) \in Seq(Item)
  BY <1>1
<1>3. /\ heard'[p] = Append(h, x) /\ callbacks'[p] = Tail(cb)
      /\ trickle'[p] = IF x.kind = "end" THEN trickle[p] ELSE trickle[p] + 1
      /\ UNCHANGED <<pc, before, status>>
  BY DEF C!Gather, CallType
<1>4. /\ Len(h) \in Nat /\ DOMAIN h = 1..Len(h) /\ DOMAIN Append(h, x) = 1..Len(h) \cup {Len(h) + 1}
      /\ Append(h, x)[Len(h) + 1] = x /\ \A i \in 1..Len(h) : Append(h, x)[i] = h[i]
  <2> HIDE DEF h, x
  <2>1. Len(h) \in Nat /\ DOMAIN h = 1..Len(h)
    BY <1>1
  <2>2. DOMAIN Append(h, x) = 1..Len(h) + 1
    BY <1>1, <1>2
  <2>3. 1..Len(h) + 1 = 1..Len(h) \cup {Len(h) + 1}
    BY <2>1
  <2>4. Append(h, x)[Len(h) + 1] = x /\ \A i \in 1..Len(h) : Append(h, x)[i] = h[i]
    BY <1>1, <1>2
  <2> QED
    BY <2>1, <2>2, <2>3, <2>4
<1>5. x = cb[1] /\ 1 \in DOMAIN cb
      /\ \A i \in DOMAIN Tail(cb) : i + 1 \in DOMAIN cb /\ Tail(cb)[i] = cb[i + 1]
  BY <1>1
<1>6. EndsDiffer(Append(h, x), Tail(cb))
  BY <1>1, EndsShift DEF StreamInv
<1>7. /\ Count(h, Kinds) \in Nat
      /\ Count(Append(h, x), Kinds) = Count(h, Kinds) + IF x.kind \in Kinds THEN 1 ELSE 0
  BY <1>1, <1>2, CountIsFinite, CountAppend
<1>8. x.kind # "end" => x.kind \in Kinds
  BY <1>2, PeersAssumption DEF Item, Kinds
<1>9. "end" \notin Kinds
  BY DEF Kinds
<1> HIDE DEF h, cb, x
<1>10. ASSUME pc \in NotYet(p)
       PROVE  /\ Tail(cb) \in {<<>>} \cup C!Found(FALSE)
              /\ \A i \in DOMAIN Append(h, x) : ~Append(h, x)[i].restart
              /\ (\E i \in DOMAIN Append(h, x) : Append(h, x)[i].kind = "end") => Tail(cb) = <<>>
  <2>1. /\ cb \in C!Found(FALSE) /\ \A i \in DOMAIN h : ~h[i].restart
        /\ \A i \in DOMAIN h : h[i].kind # "end"
    BY <1>1, <1>10 DEF StreamInv, h, cb
  <2>2. /\ Tail(cb) \in {<<>>} \cup C!Found(FALSE) /\ ~x.restart
        /\ x.kind = "end" => Tail(cb) = <<>>
    <3>1. /\ \A i \in DOMAIN cb : cb[i].restart = FALSE
          /\ Tail(cb) \in {<<>>} \cup C!Found(FALSE)
          /\ Head(cb).kind = "end" => Tail(cb) = <<>>
      BY <2>1, FoundIs
    <3> QED
      BY <1>5, <3>1 DEF x
  <2> QED
    BY <1>4, <2>1, <2>2
<1>11. pc # "negotiate"
  BY <1>1 DEF StreamInv, cb
<1>12. trickle'[p] <= Count(Append(h, x), Kinds)
  <2>1. trickle[p] <= Count(h, Kinds)
    BY DEF StreamInv, h
  <2> QED
    BY <1>1, <1>3, <1>7, <1>8, <1>9, <2>1
<1>13. C!FoundByRestart(p) => C!FoundByRestart(p)'
  BY <1>3, <1>4 DEF C!FoundByRestart, h
<1>14. ASSUME before[p][2] > 0
       PROVE  /\ \A i \in DOMAIN Tail(cb) : Tail(cb)[i].restart
              /\ C!FoundByRestart(p)' \/ Count(Append(h, x), Kinds) = before[p][1]
  <2>1. /\ \A i \in DOMAIN cb : cb[i].restart
        /\ C!FoundByRestart(p) \/ Count(h, Kinds) = before[p][1]
    BY <1>14 DEF StreamInv, h, cb
  <2>2. CASE x.kind = "end"
    BY <1>5, <1>7, <1>9, <1>13, <2>1, <2>2
  <2>3. CASE x.kind # "end"
    <3>1. x.restart
      BY <1>5, <2>1
    <3>2. C!FoundByRestart(p)'
      BY <1>3, <1>4, <2>3, <3>1 DEF C!FoundByRestart
    <3> QED
      BY <1>5, <2>1, <3>2
  <2> QED
    BY <2>2, <2>3
<1>15. (pc \in Closing \/ status = "pass") => Count(Append(h, x), Kinds) > before[p][1]
  <2>1. (pc \in Closing \/ status = "pass") => Count(h, Kinds) > before[p][1]
    BY DEF StreamInv, h
  <2> QED
    BY <1>1, <1>7, <2>1
<1> QED
  BY <1>3, <1>6, <1>10, <1>11, <1>12, <1>13, <1>14, <1>15 DEF StreamInv

(***************************************************************************)
(* Every step keeps the types.                                             *)
(***************************************************************************)
LEMMA SomeFound ==
    ASSUME NEW r \in BOOLEAN
    PROVE  C!Found(r) \subseteq Seq(Item)
BY FoundIs

LEMMA CallTypeStays ==
    ASSUME CallType, C!Next
    PROVE  CallType'
<1> USE DEF CallType
<1>1. ASSUME NEW outcome \in {"pass", "fail"}, C!Report(outcome) PROVE CallType'
  BY <1>1 DEF C!Report, C!Each, C!Peer, Peer, Pcs, Talking
<1>2. ASSUME NEW p \in Peer, C!Gather(p) PROVE CallType'
  <2>1. callbacks[p] \in Seq(Item) /\ callbacks[p] # <<>>
    BY <1>2 DEF C!Gather
  <2>2. Head(callbacks[p]) \in Item /\ Tail(callbacks[p]) \in Seq(Item)
    BY <2>1
  <2>3. Append(heard[p], Head(callbacks[p])) \in Seq(Item)
    BY <2>2
  <2> QED
    BY <1>2, <2>2, <2>3, SMTT(30) DEF C!Gather, C!media
<1>3. ASSUME NEW p \in Peer, C!Forward(p) PROVE CallType'
  BY <1>3 DEF C!Forward, C!media
<1>4. ASSUME NEW p \in Peer, C!Connect(p) PROVE CallType'
  BY <1>4 DEF C!Connect, C!media
<1>5. CASE C!Track \/ C!Read \/ C!Lose \/ C!EndRtcp \/ C!Expire
  BY <1>5 DEF C!Track, C!Read, C!Lose, C!EndRtcp, C!Expire, C!endpoints
<1>6. CASE C!Negotiate
  <2>1. PICK l \in C!Found(FALSE), r \in C!Found(FALSE) :
           callbacks' = [callbacks EXCEPT !["left"] = l, !["right"] = r]
    BY <1>6 DEF C!Negotiate
  <2>2. l \in Seq(Item) /\ r \in Seq(Item)
    BY SomeFound
  <2>3. callbacks' \in [Peer -> Seq(Item)]
    BY <2>1, <2>2
  <2> QED
    BY <1>6, <2>3 DEF C!Negotiate, C!Continue, Pcs
<1>7. CASE C!RestartIce
  <2>1. PICK l \in C!Found(TRUE) : callbacks' = [callbacks EXCEPT !["left"] = callbacks["left"] \o l]
    BY <1>7, Zenon DEF C!RestartIce
  <2>2. l \in Seq(Item) /\ callbacks["left"] \o l \in Seq(Item)
    <3>1. l \in Seq(Item) /\ callbacks["left"] \in Seq(Item)
      BY SomeFound DEF Peer, C!Peer
    <3> QED
      BY <3>1
  <2>3. \A p \in Peer : C!Gathered(p) \in Nat /\ C!Completed(p) \in Nat
    BY CountersAre, CountIsFinite
  <2>4. callbacks' \in [Peer -> Seq(Item)]
    BY <2>1, <2>2
  <2>5. before' \in [Peer -> Nat \X Nat]
    BY <1>7, <2>3 DEF C!RestartIce, Peer
  <2> QED
    BY <1>7, <2>4, <2>5 DEF C!RestartIce, Pcs, Talking
<1>8. CASE C!Answer
  <2>1. PICK r \in C!Found(TRUE) : callbacks' = [callbacks EXCEPT !["right"] = callbacks["right"] \o r]
    BY <1>8, Zenon DEF C!Answer
  <2>2. r \in Seq(Item) /\ callbacks["right"] \o r \in Seq(Item)
    <3>1. r \in Seq(Item) /\ callbacks["right"] \in Seq(Item)
      BY SomeFound DEF Peer, C!Peer
    <3> QED
      BY <3>1
  <2>3. callbacks' \in [Peer -> Seq(Item)]
    BY <2>1, <2>2
  <2> QED
    BY <1>8, <2>3 DEF C!Answer, C!Continue, Pcs, Talking
<1>9. CASE C!SendCanary
  BY <1>9 DEF C!SendCanary, C!endpoints, Pcs, Talking
<1>10. CASE C!LookForErrors
  BY <1>1, <1>10 DEF C!LookForErrors, C!Continue, C!Same, C!endpoints, Pcs
<1>11. CASE C!WaitConnected \/ C!ApplyAnswer \/ C!Observe \/ C!WaitRtcp
  BY <1>11 DEF C!WaitConnected, C!ApplyAnswer, C!Observe, C!WaitRtcp,
               C!Continue, C!Same, C!endpoints, Pcs, Talking, Closing
<1>12. CASE C!TakeMedia
  BY <1>1, <1>12 DEF C!TakeMedia, C!Continue, Pcs, Talking
<1>13. CASE C!GracefulClose
  BY <1>13 DEF C!GracefulClose, C!Continue, C!Each, C!Peer, Peer, Pcs, Talking, Closing
<1>14. CASE C!Verdict \/ C!CallFails \/ C!GiveUp
  BY <1>1, <1>14 DEF C!Verdict, C!CallFails, C!GiveUp
<1> QED
  BY <1>2, <1>3, <1>4, <1>5, <1>6, <1>7, <1>8, <1>9, <1>10, <1>11, <1>12, <1>13, <1>14
  DEF C!Next, C!Runner, C!Goroutine, Peer

(* The media: nothing is read that was not sent, and no more than counted.  *)
LEMMA MediaStays ==
    ASSUME MediaInv, C!Next
    PROVE  MediaInv'
<1> USE PeersAssumption DEF MediaInv
<1>1. CASE C!SendCanary
  <2>1. /\ sent' = sent + 1 /\ flight' = flight \cup {sent + 1}
        /\ reader' = reader /\ received' = received
    BY <1>1 DEF C!SendCanary
  <2>2. 1..sent \subseteq 1..sent + 1 /\ sent + 1 \in 1..sent + 1
    OBVIOUS
  <2>3. received \in Seq(1..sent + 1)
    BY <2>2
  <2>4. flight' \subseteq 1..sent'
    BY <2>1, <2>2
  <2> QED
    BY <2>1, <2>3, <2>4
<1>2. CASE C!Track
  BY <1>2 DEF C!Track
<1>3. CASE C!Read
  <2>0. sent' = sent
    BY <1>3 DEF C!Read
  <2>1. ASSUME NEW i \in flight, flight' = flight \ {i}, received' = Append(received, i),
               reader = "reading", reader' = IF Len(received) + 1 = Packets THEN "full" ELSE "reading"
        PROVE  MediaInv'
    <3>1. received' \in Seq(1..sent) /\ Len(received') = Len(received) + 1 /\ Len(received) \in Nat
      BY <2>1
    <3> QED
      BY <2>0, <2>1, <3>1
  <2>2. CASE reader' = "failed" /\ UNCHANGED <<flight, received>>
    BY <2>0, <2>2
  <2> QED
    BY <1>3, <2>1, <2>2 DEF C!Read
<1>4. CASE C!Lose
  BY <1>4 DEF C!Lose
<1>5. CASE UNCHANGED C!media
  BY <1>5 DEF C!media
<1>6. C!Runner => C!SendCanary \/ UNCHANGED C!media
  BY Zenon DEF C!Runner, C!Negotiate, C!LookForErrors, C!WaitConnected, C!TakeMedia, C!RestartIce,
     C!Answer, C!ApplyAnswer, C!Observe, C!GracefulClose, C!WaitRtcp, C!Verdict, C!CallFails,
     C!GiveUp, C!Report, C!Continue, C!media
<1>7. C!Goroutine => C!Track \/ C!Read \/ UNCHANGED C!media
  BY Zenon DEF C!Goroutine, C!EndRtcp, C!Gather, C!Forward, C!Connect, C!media
<1>8. C!Expire => UNCHANGED C!media
  BY Zenon DEF C!Expire, C!media
<1> QED
  BY <1>1, <1>2, <1>3, <1>4, <1>5, <1>6, <1>7, <1>8 DEF C!Next

(***************************************************************************)
(* The end of the call: the runner goes on once both peers were connected,  *)
(* and gives its verdict once it closed both and the RTCP reader ended.     *)
(***************************************************************************)
LEMMA EndStays ==
    ASSUME CallType, MediaInv, EndInv, C!Next
    PROVE  EndInv'
<1> DEFINE Passed == /\ received = [i \in 1..Packets |-> i]
                     /\ \A p \in Peer : state[p] = "closed" /\ connected[p] /\ (relay => C!Relayed(p) > 0)
                     /\ ~rtcp
<1> USE DEF EndInv
<1>1. ASSUME NEW outcome \in {"pass", "fail"}, C!Report(outcome), outcome = "pass" => Passed
      PROVE  EndInv'
  <2>1. /\ pc' = "reported" /\ status' = outcome /\ \A p \in Peer : state'[p] = "closed"
        /\ UNCHANGED <<relay, heard, connected, received, rtcp>>
    BY <1>1 DEF C!Report, C!Each, C!media, Peer
  <2>2. C!PassMeansWholeCall'
    BY <1>1, <2>1 DEF C!PassMeansWholeCall, C!Relayed, C!Heard, Peer
  <2> QED
    BY <2>1, <2>2 DEF Talking, Closing
<1>2. pc # "reported" => status = "none"
  OBVIOUS
<1>3. ASSUME pc # "reported", pc' # "reported", status' = status,
             pc' \in Talking => \A p \in Peer : connected'[p],
             pc' \in {"rtcp", "verdict"} => \A p \in Peer : state'[p] = "closed",
             pc' = "verdict" => ~rtcp'
      PROVE  EndInv'
  BY <1>2, <1>3 DEF C!PassMeansWholeCall
<1>4. CASE C!Verdict
  <2>1. pc = "verdict"
    BY <1>4 DEF C!Verdict
  <2>2. C!Report("fail") \/ (Passed /\ C!Report("pass"))
    <3>1. /\ ~rtcp /\ \A p \in Peer : state[p] = "closed" /\ connected[p]
      BY <2>1 DEF Talking, Closing
    <3> DEFINE whole == /\ \A p \in C!Peer : (IF relay THEN C!Relayed(p) ELSE C!Gathered(p)) > 0
                        /\ received = [i \in 1..Packets |-> i]
    <3>2. C!Report(IF whole THEN "pass" ELSE "fail")
      BY <1>4, Zenon DEF C!Verdict
    <3>3. whole => Passed
      BY <3>1 DEF Peer
    <3> HIDE DEF whole, Passed
    <3>4. CASE whole
      <4>1. (IF whole THEN "pass" ELSE "fail") = "pass"
        BY <3>4
      <4> QED
        BY <3>2, <3>3, <3>4, <4>1
    <3>5. CASE ~whole
      <4>1. (IF whole THEN "pass" ELSE "fail") = "fail"
        BY <3>5
      <4>2. C!Report("fail")
        BY <3>2, <4>1
      <4> QED
        BY <4>2
    <3> QED
      BY <3>4, <3>5
  <2> HIDE DEF Passed
  <2> QED
    BY <1>1, <2>2
<1>5. CASE C!Report("fail")
  BY <1>1, <1>5
<1>6. CASE C!Negotiate
  BY <1>3, <1>6 DEF C!Negotiate, C!Continue, Talking, Closing
<1>7. CASE C!WaitConnected
  BY <1>3, <1>7 DEF C!WaitConnected, C!Continue, C!Same, C!endpoints, Peer, Talking, Closing
<1>8. CASE C!GracefulClose
  BY <1>3, <1>8 DEF C!GracefulClose, C!Continue, C!Each, Peer, Talking, Closing
<1>9. CASE C!WaitRtcp
  BY <1>3, <1>9 DEF C!WaitRtcp, C!Continue, C!Same, C!endpoints, C!media, Talking, Closing
<1>10. ASSUME pc # "reported", connected' = connected, status' = status,
              pc' \in Talking => pc \in Talking, pc' \notin {"rtcp", "verdict", "reported"}
       PROVE  EndInv'
  BY <1>3, <1>10
<1>11. CASE C!SendCanary \/ C!RestartIce \/ C!Answer \/ C!ApplyAnswer \/ C!Observe
  BY <1>10, <1>11 DEF C!SendCanary, C!RestartIce, C!Answer, C!ApplyAnswer, C!Observe, C!Continue,
                      C!Same, C!endpoints, Talking, Closing
<1>12. CASE C!TakeMedia
  BY <1>5, <1>10, <1>12 DEF C!TakeMedia, C!Continue, Talking
<1>13. CASE C!LookForErrors
  BY <1>5, <1>10, <1>13 DEF C!LookForErrors, C!Continue, C!Same, C!endpoints, Talking, Closing
<1>14. CASE C!Runner
  BY <1>4, <1>5, <1>6, <1>7, <1>8, <1>9, <1>11, <1>12, <1>13, <1>14
  DEF C!Runner, C!CallFails, C!GiveUp
(* The others leave the runner where it is.                                *)
<1>15. ASSUME UNCHANGED <<relay, pc, status, heard, connected, state, rtcp>>,
              status = "pass" => received' = received
       PROVE  EndInv'
  BY <1>15, Zenon DEF C!PassMeansWholeCall, C!Relayed, C!Heard
<1>16. ASSUME NEW p \in Peer, C!Gather(p) PROVE EndInv'
  <2>1. /\ state[p] # "closed"
        /\ UNCHANGED <<pc, status, connected, state, rtcp>>
    BY <1>16 DEF C!Gather
  <2> QED
    BY <1>3, <2>1
<1>17. ASSUME NEW p \in Peer, C!Connect(p) PROVE EndInv'
  <2>1. state[p] = "new" /\ UNCHANGED <<pc, status, rtcp>>
    BY <1>17 DEF C!Connect
  <2>2. \A q \in Peer : connected[q] => connected'[q]
    BY <1>17 DEF C!Connect, CallType
  <2> QED
    BY <1>3, <2>1, <2>2
<1>18. CASE C!Read
  <2>1. /\ reader = "reading"
        /\ UNCHANGED <<relay, pc, status, heard, connected, state, rtcp>>
    BY <1>18 DEF C!Read, C!endpoints
  <2>2. status # "pass"
    <3>1. Len(received) # Packets
      BY <2>1, PeersAssumption DEF MediaInv
    <3>2. Packets \in Nat /\ Len([i \in 1..Packets |-> i]) = Packets
      BY PeersAssumption
    <3> QED
      BY <3>1, <3>2 DEF C!PassMeansWholeCall
  <2> QED
    BY <1>15, <2>1, <2>2
<1>19. CASE C!EndRtcp
  <2>1. UNCHANGED <<relay, pc, status, heard, connected, state, received>> /\ ~rtcp'
    BY <1>19 DEF C!EndRtcp, C!endpoints, C!media
  <2> QED
    BY <2>1, Zenon DEF C!PassMeansWholeCall, C!Relayed, C!Heard
<1>20. CASE C!Track \/ C!Lose \/ C!Expire \/ \E p \in Peer : C!Forward(p)
  BY <1>15, <1>20 DEF C!Track, C!Lose, C!Expire, C!Forward, C!endpoints, C!media
<1> QED
  BY <1>14, <1>16, <1>17, <1>18, <1>19, <1>20 DEF C!Next, C!Goroutine, Peer

-----------------------------------------------------------------------------
(* The two gatherings of a peer: negotiate starts the first, restartICE    *)
(* and the answer to its offer the second.                                 *)
LEMMA NegotiateStream ==
    ASSUME CallType, EndInv, NEW p \in Peer, StreamInv(p), C!Negotiate
    PROVE  StreamInv(p)'
<1>1. PICK y \in C!Found(FALSE) : callbacks'[p] = y
  <2>1. PICK l \in C!Found(FALSE), r \in C!Found(FALSE) :
           callbacks' = [callbacks EXCEPT !["left"] = l, !["right"] = r]
    BY DEF C!Negotiate
  <2> QED
    BY <2>1 DEF CallType, Peer, C!Peer
<1>2. /\ pc = "negotiate" /\ pc' = "forwarders"
      /\ UNCHANGED <<heard, trickle, before, status>>
  BY DEF C!Negotiate, C!Continue
<1>3. heard[p] = <<>> /\ callbacks[p] = <<>> /\ before[p][2] = 0
      /\ trickle[p] <= Count(heard[p], Kinds)
  BY <1>2 DEF StreamInv
<1>4. heard[p] \in Seq(Item) /\ (\A i \in DOMAIN heard[p] : FALSE)
  BY <1>3
<1>5. EndsDiffer(heard[p], callbacks'[p])
  <2>1. \A i, j \in DOMAIN y : y[i].kind = "end" /\ y[j].kind = "end" => i = j
    BY FoundIs
  <2> QED
    BY <1>1, <1>4, <2>1 DEF EndsDiffer
<1>6. status' # "pass" /\ pc' \notin Closing /\ pc' # "negotiate"
  BY <1>2 DEF EndInv, Closing
<1>7. ~(before'[p][2] > 0)
  BY <1>2, <1>3
<1> QED
  BY <1>1, <1>2, <1>3, <1>4, <1>5, <1>6, <1>7 DEF StreamInv

(* Before the restart a peer has heard, and is yet to hear, the first       *)
(* gathering only.                                                         *)
LEMMA FirstOnly ==
    ASSUME CallType, NEW p \in Peer, StreamInv(p), pc \in NotYet(p)
    PROVE  /\ heard[p] \in Seq(Item) /\ callbacks[p] \in Seq(Item)
           /\ \A i \in DOMAIN heard[p] : heard[p][i].restart # TRUE
           /\ \A i \in DOMAIN callbacks[p] : callbacks[p][i].restart = FALSE
<1>1. callbacks[p] \in {<<>>} \cup C!Found(FALSE)
      /\ \A i \in DOMAIN heard[p] : ~heard[p][i].restart
  BY DEF StreamInv
<1>2. ASSUME callbacks[p] \in C!Found(FALSE)
      PROVE  \A i \in DOMAIN callbacks[p] : callbacks[p][i].restart = FALSE
  BY <1>2, FoundIs
<1>3. callbacks[p] = <<>> => \A i \in DOMAIN callbacks[p] : callbacks[p][i].restart = FALSE
  BY SMT
<1>4. heard[p] \in Seq(Item) /\ callbacks[p] \in Seq(Item)
  BY DEF CallType
<1>5. \A i \in DOMAIN heard[p] : heard[p][i].restart # TRUE
  BY <1>1
<1> QED
  BY <1>1, <1>2, <1>3, <1>4, <1>5

LEMMA RestartStream ==
    ASSUME CallType, EndInv, NEW p \in Peer, StreamInv(p), C!RestartIce
    PROVE  StreamInv(p)'
<1>1. /\ pc = "restart" /\ pc' = "wait-left"
      /\ UNCHANGED <<heard, trickle, status>>
      /\ before'[p] = <<Count(heard[p], Kinds), Count(heard[p], {"end"})>>
  BY CountersAre DEF C!RestartIce, Peer
<1>2. PICK l \in C!Found(TRUE) : callbacks' = [callbacks EXCEPT !["left"] = callbacks["left"] \o l]
  BY Zenon DEF C!RestartIce
<1>3. pc \in NotYet(p)
  BY <1>1 DEF NotYet
<1>4. /\ heard[p] \in Seq(Item) /\ callbacks[p] \in Seq(Item)
      /\ \A i \in DOMAIN heard[p] : heard[p][i].restart # TRUE
      /\ \A i \in DOMAIN callbacks[p] : callbacks[p][i].restart = FALSE
  BY <1>3, FirstOnly
<1>5. l \in Seq(Item) /\ \A i \in DOMAIN l : l[i].restart = TRUE
  BY FoundIs
<1>6. (p = "right" /\ callbacks'[p] = callbacks[p]) \/ (p = "left" /\ callbacks'[p] = callbacks[p] \o l)
  BY <1>2 DEF CallType, Peer, C!Peer
<1>7. EndsDiffer(heard[p], callbacks'[p])
  <2>1. EndsDiffer(heard[p], callbacks[p])
    BY DEF StreamInv
  <2>2. EndsDiffer(heard[p], callbacks[p] \o l)
    BY <1>4, <2>1, EndsAdd
  <2> QED
    BY <1>6, <2>1, <2>2
<1>8. pc' \in NotYet(p) => callbacks'[p] = callbacks[p]
  BY <1>1, <1>6 DEF NotYet
<1>9. ASSUME before'[p][2] > 0
      PROVE  \A i \in DOMAIN callbacks'[p] : callbacks'[p][i].restart
  <2>1. \E i \in DOMAIN heard[p] : heard[p][i].kind = "end"
    BY <1>1, <1>4, <1>9, CountIsFinite
  <2>2. callbacks[p] = <<>>
    BY <1>3, <2>1 DEF StreamInv
  <2>3. callbacks'[p] = <<>> \/ callbacks'[p] = l
    BY <1>5, <1>6, <2>2
  <2> QED
    BY <1>5, <2>3
<1>10. /\ trickle[p] <= Count(heard[p], Kinds) /\ \A i \in DOMAIN heard[p] : ~heard[p][i].restart
       /\ callbacks[p] \in {<<>>} \cup C!Found(FALSE)
       /\ (\E i \in DOMAIN heard[p] : heard[p][i].kind = "end") => callbacks[p] = <<>>
  BY <1>3 DEF StreamInv
<1>11. status' # "pass" /\ pc' \notin Closing /\ pc' # "negotiate" /\ before'[p][1] = Count(heard[p], Kinds)
  BY <1>1 DEF EndInv, Closing
<1> QED
  BY <1>1, <1>7, <1>8, <1>9, <1>10, <1>11 DEF StreamInv

LEMMA AnswerStream ==
    ASSUME CallType, EndInv, StreamInv("right"), C!Answer
    PROVE  StreamInv("right")'
<1> DEFINE p == "right"
<1>1. /\ pc = "wait-left" /\ pc' = "wait-right"
      /\ UNCHANGED <<heard, trickle, before, status>>
  BY DEF C!Answer, C!Continue
<1>2. PICK r \in C!Found(TRUE) : callbacks' = [callbacks EXCEPT !["right"] = callbacks["right"] \o r]
  BY Zenon DEF C!Answer
<1>3. pc \in NotYet(p) /\ p \in Peer
  BY <1>1 DEF NotYet, Peer, C!Peer
<1>4. /\ heard[p] \in Seq(Item) /\ callbacks[p] \in Seq(Item)
      /\ \A i \in DOMAIN heard[p] : heard[p][i].restart # TRUE
      /\ \A i \in DOMAIN callbacks[p] : callbacks[p][i].restart = FALSE
  BY <1>3, FirstOnly
<1>5. r \in Seq(Item) /\ \A i \in DOMAIN r : r[i].restart = TRUE
  BY FoundIs
<1>6. callbacks'[p] = callbacks[p] \o r
  BY <1>2, <1>3 DEF CallType
<1>7. EndsDiffer(heard[p], callbacks'[p])
  <2>1. EndsDiffer(heard[p], callbacks[p])
    BY DEF StreamInv
  <2> QED
    BY <1>4, <1>6, <2>1, EndsAdd
<1>8. ASSUME before[p][2] > 0
      PROVE  \A i \in DOMAIN callbacks'[p] : callbacks'[p][i].restart
  <2>1. callbacks[p] = <<>>
    <3>1. \A i \in DOMAIN callbacks[p] : callbacks[p][i].restart
      BY <1>8 DEF StreamInv
    <3>2. 1 \notin DOMAIN callbacks[p]
      BY <1>4, <3>1
    <3>3. Len(callbacks[p]) = 0
      BY <1>4, <3>2
    <3> QED
      BY <1>4, <3>3
  <2>2. callbacks'[p] = r
    BY <1>5, <1>6, <2>1
  <2> QED
    BY <1>5, <2>2
<1>9. /\ status' # "pass" /\ pc' \notin Closing /\ pc' # "negotiate" /\ pc' \notin NotYet(p)
  BY <1>1 DEF EndInv, Closing, NotYet
<1> QED
  BY <1>1, <1>7, <1>8, <1>9 DEF StreamInv, C!FoundByRestart

LEMMA StreamsStay ==
    ASSUME CallType, EndInv, NEW p \in Peer, StreamInv(p), C!Next
    PROVE  StreamInv(p)'
<1>0. CallType'
  BY CallTypeStays
<1>1. /\ trickle[p] \in Nat /\ trickle[p] <= Count(heard[p], Kinds)
      /\ Count(heard[p], Kinds) \in Nat
      /\ (pc \in Closing \/ status = "pass") => Count(heard[p], Kinds) > before[p][1]
  BY CountIsFinite DEF CallType, StreamInv
<1>2. ASSUME UNCHANGED <<heard, callbacks, before, trickle>>,
             pc' \in NotYet(p) => pc \in NotYet(p), pc' # "negotiate",
             (pc' \in Closing \/ status' = "pass") => Count(heard[p], Kinds) > before[p][1]
      PROVE  StreamInv(p)'
  BY <1>1, <1>2, StreamStays
(* An error, and a verdict, close both peers.                              *)
<1>3. ASSUME NEW outcome \in {"pass", "fail"}, C!Report(outcome),
             outcome = "pass" => pc \in Closing
      PROVE  StreamInv(p)'
  BY <1>1, <1>2, <1>3 DEF C!Report, NotYet, Closing
<1>4. CASE C!Verdict
  <2>1. pc \in Closing
    BY <1>4 DEF C!Verdict, Closing
  <2> QED
    BY <1>3, <1>4, <2>1 DEF C!Verdict
<1>5. CASE C!Report("fail")
  BY <1>3, <1>5
<1>6. CASE C!Negotiate
  BY <1>6, NegotiateStream
<1>7. CASE C!RestartIce
  BY <1>7, RestartStream
<1>8. CASE C!Answer
  <2>1. CASE p = "right"
    BY <1>8, <2>1, AnswerStream
  <2>2. CASE p = "left"
    <3>1. UNCHANGED <<heard, before, trickle, status>> /\ pc' = "wait-right" /\ pc = "wait-left"
      BY <1>8 DEF C!Answer, C!Continue
    <3>2. callbacks'[p] = callbacks[p]
      BY <1>8, <2>2 DEF C!Answer, CallType
    <3> QED
      BY <1>1, <3>1, <3>2, StreamStays DEF NotYet, Closing, EndInv
  <2> QED
    BY <2>1, <2>2 DEF Peer, C!Peer
<1>9. CASE C!Observe
  <2>1. Count(heard[p], Kinds) > before[p][1]
    BY <1>9, CountersAre DEF C!Observe, Peer
  <2> QED
    BY <1>2, <1>9, <2>1 DEF C!Observe, C!Continue, C!Same, C!endpoints, NotYet
<1>10. CASE C!SendCanary
  BY <1>1, <1>2, <1>10 DEF C!SendCanary, C!endpoints, NotYet, Closing
<1>11. CASE C!LookForErrors
  BY <1>1, <1>2, <1>5, <1>11 DEF C!LookForErrors, C!Continue, C!Same, C!endpoints, NotYet, Closing
<1>12. CASE C!WaitConnected
  BY <1>1, <1>2, <1>12 DEF C!WaitConnected, C!Continue, C!Same, C!endpoints, NotYet, Closing
<1>13. CASE C!TakeMedia
  BY <1>1, <1>2, <1>5, <1>13 DEF C!TakeMedia, C!Continue, NotYet, Closing
<1>14. CASE C!ApplyAnswer
  BY <1>1, <1>2, <1>14 DEF C!ApplyAnswer, C!Continue, C!Same, C!endpoints, NotYet, Closing
<1>15. CASE C!GracefulClose
  BY <1>1, <1>2, <1>15 DEF C!GracefulClose, C!Continue, NotYet, Closing
<1>16. CASE C!WaitRtcp
  BY <1>1, <1>2, <1>16 DEF C!WaitRtcp, C!Continue, C!Same, C!endpoints, NotYet, Closing
<1>17. CASE C!Runner
  BY <1>4, <1>5, <1>6, <1>7, <1>8, <1>9, <1>10, <1>11, <1>12, <1>13, <1>14, <1>15, <1>16, <1>17
  DEF C!Runner, C!CallFails, C!GiveUp
(* The other processes leave the runner where it is.                       *)
<1>18. ASSUME UNCHANGED <<heard, callbacks, before, pc, status>>,
              trickle'[p] \in Nat, trickle'[p] <= trickle[p]
       PROVE  StreamInv(p)'
  BY <1>1, <1>18, StreamStays
<1>19. ASSUME NEW q \in Peer, C!Gather(q) PROVE StreamInv(p)'
  <2>1. CASE q = p
    BY <1>19, <2>1, GatherStream
  <2>2. CASE q # p
    <3>1. /\ heard'[p] = heard[p] /\ callbacks'[p] = callbacks[p] /\ trickle'[p] = trickle[p]
          /\ UNCHANGED <<before, pc, status>>
      BY <1>19, <2>2 DEF C!Gather, CallType
    <3> QED
      BY <1>1, <3>1, StreamStays
  <2> QED
    BY <2>1, <2>2
<1>20. ASSUME NEW q \in Peer, C!Forward(q) PROVE StreamInv(p)'
  <2>1. UNCHANGED <<heard, callbacks, before, pc, status>>
    BY <1>20 DEF C!Forward
  <2>2. trickle'[p] = trickle[p] \/ trickle'[p] = trickle[p] - 1
    BY <1>20 DEF C!Forward, CallType
  <2>3. trickle'[p] \in Nat
    BY <1>0 DEF CallType
  <2> QED
    BY <1>1, <1>18, <2>1, <2>2, <2>3
<1>21. ASSUME UNCHANGED <<heard, callbacks, before, trickle, pc, status>>
       PROVE  StreamInv(p)'
  BY <1>1, <1>18, <1>21
<1>22. CASE C!Track \/ C!Read \/ C!EndRtcp \/ C!Lose \/ C!Expire \/ \E q \in Peer : C!Connect(q)
  BY <1>21, <1>22 DEF C!Track, C!Read, C!EndRtcp, C!Lose, C!Expire, C!Connect, C!endpoints
<1> QED
  BY <1>17, <1>19, <1>20, <1>22 DEF C!Next, C!Goroutine, Peer

-----------------------------------------------------------------------------
(* The theorem.                                                            *)

LEMMA CallStarts == C!Init => CallInv
<1> SUFFICES ASSUME C!Init PROVE CallInv
  OBVIOUS
<1>1. \A p \in Peer : /\ heard[p] = <<>> /\ callbacks[p] = <<>> /\ before[p] = <<0, 0>>
                      /\ trickle[p] = 0
  BY DEF C!Init, C!Each, Peer
<1>2. CallType
  BY DEF C!Init, C!Each, CallType, Peer, Pcs
<1>3. ASSUME NEW p \in Peer PROVE StreamInv(p)
  <2>1. heard[p] \in Seq(Item) /\ Count(heard[p], Kinds) \in Nat
    <3>1. heard[p] \in Seq(Item)
      BY <1>2 DEF CallType
    <3> QED
      BY <3>1, CountIsFinite
  <2>2. /\ \A i \in DOMAIN heard[p] : FALSE
        /\ \A i \in DOMAIN callbacks[p] : FALSE
    BY <1>1
  <2>3. EndsDiffer(heard[p], callbacks[p])
    BY <2>2 DEF EndsDiffer
  <2>4. pc = "negotiate" /\ status = "none"
    BY DEF C!Init
  <2>5. pc \notin Closing /\ status # "pass" /\ ~(before[p][2] > 0)
        /\ trickle[p] <= Count(heard[p], Kinds)
    BY <1>1, <2>1, <2>4 DEF Closing
  <2>6. callbacks[p] \in {<<>>} \cup C!Found(FALSE)
    BY <1>1
  <2>7. before[p][2] = 0
    BY <1>1
  <2>8. heard[p] = <<>> /\ callbacks[p] = <<>>
    BY <1>1
  <2> QED
    BY <2>2, <2>3, <2>5, <2>6, <2>7, <2>8, Zenon DEF StreamInv
<1>4. MediaInv
  BY PeersAssumption DEF C!Init, MediaInv
<1>5. EndInv
  BY DEF C!Init, EndInv, Talking, Closing, C!PassMeansWholeCall
<1> QED
  BY <1>2, <1>3, <1>4, <1>5 DEF CallInv

LEMMA CallGoesOn == CallInv /\ [Next]_vars => CallInv'
<1> SUFFICES ASSUME CallInv, [Next]_vars PROVE CallInv'
  OBVIOUS
<1>1. CASE C!Next
  BY <1>1, CallTypeStays, StreamsStay, MediaStays, EndStays DEF CallInv
<1>2. CASE UNCHANGED call
  <2> USE <1>2 DEF call, CallInv
  <2>1. CallType'
    BY Zenon DEF CallType
  <2>2. ASSUME NEW p \in Peer PROVE StreamInv(p)'
    BY Zenon DEF StreamInv, C!FoundByRestart
  <2>3. MediaInv'
    BY Zenon DEF MediaInv
  <2>4. EndInv'
    BY Zenon DEF EndInv, C!PassMeansWholeCall, C!Relayed, C!Heard
  <2> QED
    BY <2>1, <2>2, <2>3, <2>4
<1> QED
  BY <1>1, <1>2, Zenon DEF Next, vars, SignalingClient, SignalingServes, SignalingExpires,
                    CallRunner, CallGoroutine, CallLoses, CallExpires, C!Next

LEMMA CallIsWhole == CallInv => PassMeansWholeCall
<1> SUFFICES ASSUME CallInv PROVE PassMeansWholeCall
  OBVIOUS
<1>1. C!TypeOK
  <2>1. ASSUME NEW p \in Peer PROVE C!Completed(p) \in 0..2 /\ trickle[p] <= C!Gathered(p)
    <3>1. heard[p] \in Seq(Item) /\ EndsDiffer(heard[p], callbacks[p])
          /\ trickle[p] <= Count(heard[p], Kinds)
      BY DEF CallInv, CallType, StreamInv
    <3>2. Count(heard[p], {"end"}) \in 0..2
      BY <3>1, TwoEnds
    <3> QED
      BY <3>1, <3>2, CountersAre
  <2>2. status \in {"none", "pass", "fail"} /\ Len(received) <= Packets
        /\ \A i \in DOMAIN received : received[i] \in 1..sent
    BY DEF CallInv, CallType, MediaInv
  <2> QED
    BY <2>1, <2>2 DEF C!TypeOK, Peer
<1>2. C!PassMeansWholeCall
  BY DEF CallInv, EndInv
<1>3. C!RestartFoundCandidates
  <2>1. ASSUME NEW p \in Peer, status = "pass", before[p][2] > 0
        PROVE  C!FoundByRestart(p)
    <3>1. StreamInv(p) /\ before[p][1] \in Nat /\ heard[p] \in Seq(Item)
      BY DEF CallInv, CallType
    <3>2. Count(heard[p], Kinds) \in Nat
      BY <3>1, CountIsFinite
    <3> QED
      BY <2>1, <3>1, <3>2 DEF StreamInv
  <2> QED
    BY <2>1 DEF C!RestartFoundCandidates, Peer
<1> QED
  BY <1>1, <1>2, <1>3 DEF PassMeansWholeCall

(* exercisePeerCall reports a pass only for a call that was whole: both     *)
(* peers were connected, the canary arrived complete and in order, through  *)
(* the relay if one is required, both connections are closed and the RTCP  *)
(* reader has ended; and a peer whose first gathering was over when the     *)
(* counts were read has heard a candidate of the restart.                  *)
THEOREM PassingCallsAreWhole == FairSpec => []PassMeansWholeCall
<1>1. Init => CallInv
  BY CallStarts DEF Init
<1>2. CallInv /\ [Next]_vars => CallInv'
  BY CallGoesOn
<1>3. CallInv => PassMeansWholeCall
  BY CallIsWhole
<1> QED
  BY <1>1, <1>2, <1>3, PTL DEF FairSpec

-----------------------------------------------------------------------------
(* The signaling self-test.  The connection of the check at hand is where   *)
(* the script says, an earlier one waits for its end at the most, and a     *)
(* later one was not opened.                                                *)

Numbers == 1..11
Requests(c) == S!Checks[c].requests
Expected(c, k) == IF k = Len(Requests(c)) THEN S!Checks[c].expected ELSE "allowed"
Role(c) == IF c = 9 THEN "operator" ELSE "viewer"
ConnectionPc == {"none", "receive", "handle", "leave", "gone"}
SessionState == {"pre-auth", "authenticated", "expired", "closed"}
RoleName == {"", "viewer", "operator"}
Connection == [pc : ConnectionPc, state : SessionState, role : RoleName, count : Nat]
Living == {"receive", "handle", "leave"}
Opened == {c \in Numbers : served[c].pc \in Living}

(* The nonces stored before check c.                                        *)
Known(c) ==
    {x \in {"expiry-1", "role-1", "replay-1", "rate-1", "reconnect-1", "reconnect-2"} :
        \/ x = "expiry-1" /\ c > 3
        \/ x = "role-1" /\ c > 4
        \/ x = "replay-1" /\ c > 6
        \/ x = "rate-1" /\ c > 9
        \/ x = "reconnect-1" /\ c > 10
        \/ x = "reconnect-2" /\ c > 11}

(* exerciseSignalingFixture, check by check.                                *)
LEMMA ChecksAre ==
    /\ DOMAIN S!Checks = Numbers /\ Len(S!Checks) = 11
    /\ S!Checks[1].origin = "foreign" /\ S!Checks[1].expected = "handshake-rejected"
    /\ Requests(1) = <<>>
    /\ S!Checks[2].origin = "allowed" /\ S!Checks[2].expected = "denied"
    /\ Len(Requests(2)) = 1 /\ Requests(2)[1] = S!Hello("", "")
    /\ S!Checks[3].origin = "allowed" /\ S!Checks[3].expected = "expired"
    /\ Len(Requests(3)) = 1 /\ Requests(3)[1] = S!Hello("expired", "expiry-1")
    /\ S!Checks[4].origin = "allowed" /\ S!Checks[4].expected = "denied"
    /\ Len(Requests(4)) = 2 /\ Requests(4)[1] = S!Hello("viewer", "role-1")
    /\ Requests(4)[2] = S!Ask("write")
    /\ S!Checks[5].origin = "allowed" /\ S!Checks[5].expected = "rejected"
    /\ Len(Requests(5)) = 1 /\ Requests(5)[1] = S!Ask("write")
    /\ S!Checks[6].origin = "allowed" /\ S!Checks[6].expected = "allowed"
    /\ Len(Requests(6)) = 1 /\ Requests(6)[1] = S!Hello("viewer", "replay-1")
    /\ S!Checks[7].origin = "allowed" /\ S!Checks[7].expected = "rejected"
    /\ Len(Requests(7)) = 1 /\ Requests(7)[1] = S!Hello("viewer", "replay-1")
    /\ S!Checks[8].origin = "allowed" /\ S!Checks[8].expected = "rejected"
    /\ Len(Requests(8)) = 1
    /\ Requests(8)[1] = [S!Hello("viewer", "size-1") EXCEPT !.big = TRUE]
    /\ S!Checks[9].origin = "allowed" /\ S!Checks[9].expected = "rate-limited"
    /\ Len(Requests(9)) = 5 /\ Requests(9)[1] = S!Hello("operator", "rate-1")
    /\ Requests(9)[2] = S!Ask("read") /\ Requests(9)[3] = S!Ask("read")
    /\ Requests(9)[4] = S!Ask("read") /\ Requests(9)[5] = S!Ask("read")
    /\ S!Checks[10].origin = "allowed" /\ S!Checks[10].expected = "closed"
    /\ Len(Requests(10)) = 2 /\ Requests(10)[1] = S!Hello("viewer", "reconnect-1")
    /\ Requests(10)[2] = S!Ask("close")
    /\ S!Checks[11].origin = "allowed" /\ S!Checks[11].expected = "allowed"
    /\ Len(Requests(11)) = 2 /\ Requests(11)[1] = S!Hello("viewer", "reconnect-2")
    /\ Requests(11)[2] = S!Ask("read")
<1>1. DOMAIN S!Checks = Numbers /\ Len(S!Checks) = 11
  BY DEF S!Checks, Numbers
<1>2. \A x : Len(<<x>>) = 1 /\ <<x>>[1] = x
  OBVIOUS
<1>3. /\ S!Checks[1].origin = "foreign" /\ S!Checks[1].expected = "handshake-rejected"
      /\ Requests(1) = <<>>
  <2> DEFINE q == <<>>
  <2>1. S!Checks[1] = [origin |-> "foreign", requests |-> q, expected |-> "handshake-rejected"]
    BY DEF S!Checks, S!Check
  <2> HIDE DEF q
  <2>2. S!Checks[1].origin = "foreign" /\ S!Checks[1].expected = "handshake-rejected" /\ Requests(1) = q
    BY <2>1 DEF Requests
  <2>3. Requests(1) = <<>>
    BY <2>2, Zenon DEF q
  <2> QED
    BY <2>2, <2>3
<1>4. /\ S!Checks[2].origin = "allowed" /\ S!Checks[2].expected = "denied"
      /\ Len(Requests(2)) = 1 /\ Requests(2)[1] = S!Hello("", "")
  <2> DEFINE q == <<S!Hello("", "")>>
  <2>1. S!Checks[2] = [origin |-> "allowed", requests |-> q, expected |-> "denied"]
    BY DEF S!Checks, S!Check
  <2> HIDE DEF q
  <2>2. S!Checks[2].origin = "allowed" /\ S!Checks[2].expected = "denied" /\ Requests(2) = q
    BY <2>1 DEF Requests
  <2>3. Requests(2) = <<S!Hello("", "")>>
    BY <2>2, Zenon DEF q
  <2> QED
    BY <2>2, <2>3, <1>2, Zenon
<1>5. /\ S!Checks[3].origin = "allowed" /\ S!Checks[3].expected = "expired"
      /\ Len(Requests(3)) = 1 /\ Requests(3)[1] = S!Hello("expired", "expiry-1")
  <2> DEFINE q == <<S!Hello("expired", "expiry-1")>>
  <2>1. S!Checks[3] = [origin |-> "allowed", requests |-> q, expected |-> "expired"]
    BY DEF S!Checks, S!Check
  <2> HIDE DEF q
  <2>2. S!Checks[3].origin = "allowed" /\ S!Checks[3].expected = "expired" /\ Requests(3) = q
    BY <2>1 DEF Requests
  <2>3. Requests(3) = <<S!Hello("expired", "expiry-1")>>
    BY <2>2, Zenon DEF q
  <2> QED
    BY <2>2, <2>3, <1>2, Zenon
<1>6. /\ S!Checks[4].origin = "allowed" /\ S!Checks[4].expected = "denied"
      /\ Len(Requests(4)) = 2 /\ Requests(4)[1] = S!Hello("viewer", "role-1")
      /\ Requests(4)[2] = S!Ask("write")
  <2> DEFINE q == <<S!Hello("viewer", "role-1"), S!Ask("write")>>
  <2>1. S!Checks[4] = [origin |-> "allowed", requests |-> q, expected |-> "denied"]
    BY DEF S!Checks, S!Check
  <2> HIDE DEF q
  <2>2. S!Checks[4].origin = "allowed" /\ S!Checks[4].expected = "denied" /\ Requests(4) = q
    BY <2>1 DEF Requests
  <2>3. Requests(4) = <<S!Hello("viewer", "role-1"), S!Ask("write")>>
    BY <2>2, Zenon DEF q
  <2> QED
    BY <2>2, <2>3
<1>7. /\ S!Checks[5].origin = "allowed" /\ S!Checks[5].expected = "rejected"
      /\ Len(Requests(5)) = 1 /\ Requests(5)[1] = S!Ask("write")
  <2> DEFINE q == <<S!Ask("write")>>
  <2>1. S!Checks[5] = [origin |-> "allowed", requests |-> q, expected |-> "rejected"]
    BY DEF S!Checks, S!Check
  <2> HIDE DEF q
  <2>2. S!Checks[5].origin = "allowed" /\ S!Checks[5].expected = "rejected" /\ Requests(5) = q
    BY <2>1 DEF Requests
  <2>3. Requests(5) = <<S!Ask("write")>>
    BY <2>2, Zenon DEF q
  <2> QED
    BY <2>2, <2>3, <1>2, Zenon
<1>8. /\ S!Checks[6].origin = "allowed" /\ S!Checks[6].expected = "allowed"
      /\ Len(Requests(6)) = 1 /\ Requests(6)[1] = S!Hello("viewer", "replay-1")
  <2> DEFINE q == <<S!Hello("viewer", "replay-1")>>
  <2>1. S!Checks[6] = [origin |-> "allowed", requests |-> q, expected |-> "allowed"]
    BY DEF S!Checks, S!Check
  <2> HIDE DEF q
  <2>2. S!Checks[6].origin = "allowed" /\ S!Checks[6].expected = "allowed" /\ Requests(6) = q
    BY <2>1 DEF Requests
  <2>3. Requests(6) = <<S!Hello("viewer", "replay-1")>>
    BY <2>2, Zenon DEF q
  <2> QED
    BY <2>2, <2>3, <1>2, Zenon
<1>9. /\ S!Checks[7].origin = "allowed" /\ S!Checks[7].expected = "rejected"
      /\ Len(Requests(7)) = 1 /\ Requests(7)[1] = S!Hello("viewer", "replay-1")
  <2> DEFINE q == <<S!Hello("viewer", "replay-1")>>
  <2>1. S!Checks[7] = [origin |-> "allowed", requests |-> q, expected |-> "rejected"]
    BY DEF S!Checks, S!Check
  <2> HIDE DEF q
  <2>2. S!Checks[7].origin = "allowed" /\ S!Checks[7].expected = "rejected" /\ Requests(7) = q
    BY <2>1 DEF Requests
  <2>3. Requests(7) = <<S!Hello("viewer", "replay-1")>>
    BY <2>2, Zenon DEF q
  <2> QED
    BY <2>2, <2>3, <1>2, Zenon
<1>10. /\ S!Checks[8].origin = "allowed" /\ S!Checks[8].expected = "rejected"
      /\ Len(Requests(8)) = 1
      /\ Requests(8)[1] = [S!Hello("viewer", "size-1") EXCEPT !.big = TRUE]
  <2> DEFINE q == <<[S!Hello("viewer", "size-1") EXCEPT !.big = TRUE]>>
  <2>1. S!Checks[8] = [origin |-> "allowed", requests |-> q, expected |-> "rejected"]
    BY DEF S!Checks, S!Check
  <2> HIDE DEF q
  <2>2. S!Checks[8].origin = "allowed" /\ S!Checks[8].expected = "rejected" /\ Requests(8) = q
    BY <2>1 DEF Requests
  <2>3. Requests(8) = <<[S!Hello("viewer", "size-1") EXCEPT !.big = TRUE]>>
    BY <2>2, Zenon DEF q
  <2> QED
    BY <2>2, <2>3, <1>2, Zenon
<1>11. /\ S!Checks[9].origin = "allowed" /\ S!Checks[9].expected = "rate-limited"
      /\ Len(Requests(9)) = 5 /\ Requests(9)[1] = S!Hello("operator", "rate-1")
      /\ Requests(9)[2] = S!Ask("read") /\ Requests(9)[3] = S!Ask("read")
      /\ Requests(9)[4] = S!Ask("read") /\ Requests(9)[5] = S!Ask("read")
  <2> DEFINE q == <<S!Hello("operator", "rate-1"), S!Ask("read"),
                      S!Ask("read"), S!Ask("read"), S!Ask("read")>>
  <2>1. S!Checks[9] = [origin |-> "allowed", requests |-> q, expected |-> "rate-limited"]
    BY DEF S!Checks, S!Check
  <2> HIDE DEF q
  <2>2. S!Checks[9].origin = "allowed" /\ S!Checks[9].expected = "rate-limited" /\ Requests(9) = q
    BY <2>1 DEF Requests
  <2>3. Requests(9) = <<S!Hello("operator", "rate-1"), S!Ask("read"),
                      S!Ask("read"), S!Ask("read"), S!Ask("read")>>
    BY <2>2, Zenon DEF q
  <2> QED
    BY <2>2, <2>3
<1>12. /\ S!Checks[10].origin = "allowed" /\ S!Checks[10].expected = "closed"
      /\ Len(Requests(10)) = 2 /\ Requests(10)[1] = S!Hello("viewer", "reconnect-1")
      /\ Requests(10)[2] = S!Ask("close")
  <2> DEFINE q == <<S!Hello("viewer", "reconnect-1"), S!Ask("close")>>
  <2>1. S!Checks[10] = [origin |-> "allowed", requests |-> q, expected |-> "closed"]
    BY DEF S!Checks, S!Check
  <2> HIDE DEF q
  <2>2. S!Checks[10].origin = "allowed" /\ S!Checks[10].expected = "closed" /\ Requests(10) = q
    BY <2>1 DEF Requests
  <2>3. Requests(10) = <<S!Hello("viewer", "reconnect-1"), S!Ask("close")>>
    BY <2>2, Zenon DEF q
  <2> QED
    BY <2>2, <2>3
<1>13. /\ S!Checks[11].origin = "allowed" /\ S!Checks[11].expected = "allowed"
      /\ Len(Requests(11)) = 2 /\ Requests(11)[1] = S!Hello("viewer", "reconnect-2")
      /\ Requests(11)[2] = S!Ask("read")
  <2> DEFINE q == <<S!Hello("viewer", "reconnect-2"), S!Ask("read")>>
  <2>1. S!Checks[11] = [origin |-> "allowed", requests |-> q, expected |-> "allowed"]
    BY DEF S!Checks, S!Check
  <2> HIDE DEF q
  <2>2. S!Checks[11].origin = "allowed" /\ S!Checks[11].expected = "allowed" /\ Requests(11) = q
    BY <2>1 DEF Requests
  <2>3. Requests(11) = <<S!Hello("viewer", "reconnect-2"), S!Ask("read")>>
    BY <2>2, Zenon DEF q
  <2> QED
    BY <2>2, <2>3
<1> QED
  BY <1>1, <1>3, <1>4, <1>5, <1>6, <1>7, <1>8, <1>9, <1>10, <1>11, <1>12, <1>13, Zenon

Goal(c) == S!Checks[c].expected
Greets(r, x, y) == r.op = "hello" /\ r.session = x /\ r.nonce = y /\ ~r.big
Asks(r, x) == r.op = x /\ r.op # "hello" /\ ~r.big

LEMMA AskedAre ==
    /\ \A x, y : Greets(S!Hello(x, y), x, y)
    /\ \A x : x # "hello" => Asks(S!Ask(x), x)
    /\ [S!Hello("viewer", "size-1") EXCEPT !.big = TRUE].big = TRUE
BY DEF S!Hello, S!Ask, Greets, Asks

Req(r) == <<"request", r>>
Resp(o) == <<"response", o>>
Closed == <<"closed">>

LEMMA MessagesAre ==
    /\ \A r : Req(r) # <<>> /\ Req(r) # Closed /\ Req(r)[1] = "request" /\ Req(r)[2] = r
    /\ \A o : Resp(o) # <<>> /\ Resp(o) # Closed /\ Resp(o)[1] = "response" /\ Resp(o)[2] = o
    /\ \A o, r : Resp(o) # Req(r)
    /\ Closed # <<>> /\ Closed[1] = "closed"
<1>1. \A r : Req(r)[1] = "request" /\ Req(r)[2] = r /\ Len(Req(r)) = 2
  BY DEF Req
<1>2. \A o : Resp(o)[1] = "response" /\ Resp(o)[2] = o /\ Len(Resp(o)) = 2
  BY DEF Resp
<1>3. Closed[1] = "closed" /\ Len(Closed) = 1
  BY DEF Closed
<1>4. Len(<<>>) = 0
  OBVIOUS
<1> QED
  BY <1>1, <1>2, <1>3, <1>4

(* A goroutine's answer on connection c, and where it leaves the session.   *)
Answers(c, o, st, ro, where, ns) ==
    /\ wire' = [wire EXCEPT ![c] = Resp(o)]
    /\ served' \in [Numbers -> Connection]
    /\ \A d \in Numbers \ {c} : served'[d] = served[d]
    /\ served'[c].pc = where /\ served'[c].state = st /\ served'[c].role = ro
    /\ served'[c].count = served[c].count
    /\ nonces' = ns

LEMMA ReplyIs ==
    ASSUME NEW c \in Numbers, served \in [Numbers -> Connection], NEW o,
           NEW st \in SessionState, NEW where \in ConnectionPc, NEW ns, S!Reply(c, o, st, where), nonces' = ns
    PROVE  Answers(c, o, st, served[c].role, where, ns)
<1>1. served[c] \in Connection
  OBVIOUS
<1>2. /\ wire' = [wire EXCEPT ![c] = <<"response", o>>]
      /\ served' = [served EXCEPT ![c].state = st, ![c].pc = where]
  BY Zenon DEF S!Reply
<1>3. /\ served' \in [Numbers -> Connection]
      /\ \A d \in Numbers \ {c} : served'[d] = served[d]
      /\ served'[c].pc = where /\ served'[c].state = st /\ served'[c].role = served[c].role
      /\ served'[c].count = served[c].count
  BY <1>1, <1>2 DEF Connection
<1> QED
  BY <1>2, <1>3, Zenon DEF Answers, Resp

LEMMA HelloAnswers ==
    ASSUME NEW c \in Numbers, served \in [Numbers -> Connection], NEW r,
           S!HandleHello(c, r), served[c].state = "pre-auth"
    PROVE  /\ r.session = "" \/ r.nonce = "" =>
                 Answers(c, "denied", "pre-auth", served[c].role, "leave", nonces)
           /\ r.session # "" /\ r.nonce # "" /\ r.nonce \in nonces =>
                 Answers(c, "rejected", "pre-auth", served[c].role, "leave", nonces)
           /\ r.session = "expired" /\ r.nonce # "" /\ r.nonce \notin nonces =>
                 Answers(c, "expired", "expired", served[c].role, "leave",
                         nonces \cup {r.nonce})
           /\ r.session \in {"viewer", "operator"} /\ r.nonce # "" /\ r.nonce \notin nonces =>
                 Answers(c, "allowed", "authenticated", r.session, "receive",
                         nonces \cup {r.nonce})
<1> DEFINE st == served[c].state
           new == nonces \cup {r.nonce}
<1>1. ASSUME r.session = "" \/ r.nonce = ""
      PROVE  S!Reply(c, "denied", st, "leave") /\ nonces' = nonces
  BY <1>1, Zenon DEF S!HandleHello
<1>2. ASSUME r.session # "", r.nonce # "", r.nonce \in nonces
      PROVE  S!Reply(c, "rejected", st, "leave") /\ nonces' = new
  BY <1>2, Zenon DEF S!HandleHello
<1>3. ASSUME r.session = "expired", r.nonce # "", r.nonce \notin nonces
      PROVE  S!Reply(c, "expired", "expired", "leave") /\ nonces' = new
  BY <1>3, Zenon DEF S!HandleHello
<1>5. ASSUME r.session \in {"viewer", "operator"}, r.nonce # "", r.nonce \notin nonces
      PROVE  Answers(c, "allowed", "authenticated", r.session, "receive", new)
  <2>1. /\ nonces' = new /\ wire' = [wire EXCEPT ![c] = <<"response", "allowed">>]
        /\ served' = [served EXCEPT ![c].state = "authenticated", ![c].role = r.session,
                                    ![c].pc = "receive"]
    BY <1>5, Zenon DEF S!HandleHello
  <2>2. served[c] \in Connection
    OBVIOUS
  <2>3. /\ served' \in [Numbers -> Connection]
        /\ \A d \in Numbers \ {c} : served'[d] = served[d]
        /\ served'[c].pc = "receive" /\ served'[c].state = "authenticated"
        /\ served'[c].role = r.session /\ served'[c].count = served[c].count
    <3> DEFINE ro == r.session
    <3>1. ro \in RoleName
      BY <1>5, Zenon DEF RoleName
    <3>2. served' = [served EXCEPT ![c].state = "authenticated", ![c].role = ro,
                                   ![c].pc = "receive"]
      BY <2>1
    <3> HIDE DEF ro
    <3>3. /\ served' \in [Numbers -> Connection]
          /\ \A d \in Numbers \ {c} : served'[d] = served[d]
          /\ served'[c].pc = "receive" /\ served'[c].state = "authenticated"
          /\ served'[c].role = ro /\ served'[c].count = served[c].count
      BY <2>2, <3>1, <3>2 DEF Connection, ConnectionPc, SessionState
    <3> QED
      BY <3>3 DEF ro
  <2> QED
    BY <2>1, <2>3, Zenon DEF Answers, Resp
<1>6. /\ st \in SessionState /\ "leave" \in ConnectionPc /\ "expired" \in SessionState
      /\ st = "pre-auth"
  BY DEF Connection, SessionState, ConnectionPc
<1>7. /\ r.session = "" \/ r.nonce = "" =>
            Answers(c, "denied", st, served[c].role, "leave", nonces)
      /\ r.session # "" /\ r.nonce # "" /\ r.nonce \in nonces =>
            Answers(c, "rejected", st, served[c].role, "leave", new)
      /\ r.session = "expired" /\ r.nonce # "" /\ r.nonce \notin nonces =>
            Answers(c, "expired", "expired", served[c].role, "leave", new)
  <2> HIDE DEF st, new
  <2> QED
    BY <1>1, <1>2, <1>3, <1>6, ReplyIs, Zenon
<1>8. r.nonce \in nonces => new = nonces
  OBVIOUS
<1> HIDE DEF st, new
<1> QED
  BY <1>5, <1>6, <1>7, <1>8, Zenon DEF new

LEMMA OtherAnswers ==
    ASSUME NEW c \in Numbers, served \in [Numbers -> Connection], NEW r, S!HandleOther(c, r)
    PROVE  LET s == served[c] IN
           /\ r.op = "close" => Answers(c, "closed", "closed", s.role, "leave", nonces)
           /\ r.op = "write" /\ s.state # "authenticated" =>
                 Answers(c, "rejected", s.state, s.role, "leave", nonces)
           /\ r.op = "write" /\ s.state = "authenticated" /\ s.role # "operator" =>
                 Answers(c, "denied", s.state, s.role, "receive", nonces)
           /\ r.op = "read" /\ s.state = "authenticated" =>
                 Answers(c, "allowed", s.state, s.role, "receive", nonces)
<1> DEFINE s == served[c]
<1>1. /\ r.op = "close" => S!Reply(c, "closed", "closed", "leave")
      /\ r.op = "write" /\ s.state # "authenticated" => S!Reply(c, "rejected", s.state, "leave")
      /\ r.op = "write" /\ s.state = "authenticated" /\ s.role # "operator" =>
            S!Reply(c, "denied", s.state, "receive")
      /\ r.op = "read" /\ s.state = "authenticated" => S!Reply(c, "allowed", s.state, "receive")
  BY DEF S!HandleOther
<1>2. nonces' = nonces
  BY DEF S!HandleOther
<1>3. /\ s.state \in SessionState /\ "closed" \in SessionState /\ "leave" \in ConnectionPc
      /\ "receive" \in ConnectionPc
  BY DEF Connection, SessionState, ConnectionPc
<1> HIDE DEF s
<1> QED
  BY <1>1, <1>2, <1>3, ReplyIs, Zenon DEF s

LEMMA KnownAre ==
    /\ Known(2) = Known(1) /\ Known(3) = Known(2) /\ Known(6) = Known(5) /\ Known(8) = Known(7)
    /\ Known(9) = Known(8)
    /\ "expiry-1" \notin Known(3) /\ Known(4) = Known(3) \cup {"expiry-1"}
    /\ "role-1" \notin Known(4) /\ Known(5) = Known(4) \cup {"role-1"}
    /\ "replay-1" \notin Known(6) /\ Known(7) = Known(6) \cup {"replay-1"}
    /\ "replay-1" \in Known(7)
    /\ "rate-1" \notin Known(9) /\ Known(10) = Known(9) \cup {"rate-1"}
    /\ "reconnect-1" \notin Known(10) /\ Known(11) = Known(10) \cup {"reconnect-1"}
    /\ "reconnect-2" \notin Known(11) /\ Known(12) = Known(11) \cup {"reconnect-2"}
    /\ Known(1) = {}
<1>1. \A x : /\ x \in Known(1) <=> FALSE
             /\ x \in Known(2) <=> FALSE
             /\ x \in Known(3) <=> FALSE
             /\ x \in Known(4) <=> x = "expiry-1"
             /\ x \in Known(5) <=> x \in {"expiry-1", "role-1"}
             /\ x \in Known(6) <=> x \in {"expiry-1", "role-1"}
             /\ x \in Known(7) <=> x \in {"expiry-1", "role-1", "replay-1"}
             /\ x \in Known(8) <=> x \in {"expiry-1", "role-1", "replay-1"}
             /\ x \in Known(9) <=> x \in {"expiry-1", "role-1", "replay-1"}
             /\ x \in Known(10) <=> x \in {"expiry-1", "role-1", "replay-1", "rate-1"}
             /\ x \in Known(11) <=>
                   x \in {"expiry-1", "role-1", "replay-1", "rate-1", "reconnect-1"}
             /\ x \in Known(12) <=> x \in {"expiry-1", "role-1", "replay-1", "rate-1",
                                           "reconnect-1", "reconnect-2"}
  BY DEF Known
<1> QED
  BY <1>1

(* Handle, by what it looks at first.                                       *)
LEMMA HandleIs ==
    ASSUME NEW c \in Numbers, NEW r, wire[c] = Req(r), S!Handle(c)
    PROVE  /\ r.big => /\ S!Reply(c, "rejected", served[c].state, "leave")
                       /\ nonces' = nonces
           /\ ~r.big /\ served[c].count > MaxMessages =>
                 S!Reply(c, "rate-limited", served[c].state, "leave") /\ nonces' = nonces
           /\ ~r.big /\ ~(served[c].count > MaxMessages) =>
                 /\ r.op = "hello" => S!HandleHello(c, r)
                 /\ r.op # "hello" => S!HandleOther(c, r)
           /\ served[c].pc = "handle"
           /\ UNCHANGED <<accept, sExpired, at, step, client, observed, checks, open, report>>
<1>1. wire[c][2] = r
  BY MessagesAre
<1>2. r.big => S!Reply(c, "rejected", served[c].state, "leave") /\ nonces' = nonces
  BY <1>1, Zenon DEF S!Handle
<1>3. ~r.big /\ served[c].count > MaxMessages =>
          S!Reply(c, "rate-limited", served[c].state, "leave") /\ nonces' = nonces
  BY <1>1, Zenon DEF S!Handle
<1>4. ~r.big /\ ~(served[c].count > MaxMessages) =>
          /\ r.op = "hello" => S!HandleHello(c, r)
          /\ r.op # "hello" => S!HandleOther(c, r)
  BY <1>1, Zenon DEF S!Handle
<1>5. /\ served[c].pc = "handle"
      /\ UNCHANGED <<accept, sExpired, at, step, client, observed, checks, open, report>>
  BY Zenon DEF S!Handle
<1> QED
  BY <1>2, <1>3, <1>4, <1>5, Zenon

(* What each request of the script is, and what the check waits for.        *)
LEMMA ScriptIs ==
    /\ Greets(Requests(2)[1], "", "")
    /\ Len(Requests(2)) = 1 /\ Goal(2) = "denied"
    /\ Greets(Requests(3)[1], "expired", "expiry-1")
    /\ Len(Requests(3)) = 1 /\ Goal(3) = "expired"
    /\ Greets(Requests(4)[1], "viewer", "role-1")
    /\ Asks(Requests(4)[2], "write")
    /\ Len(Requests(4)) = 2 /\ Goal(4) = "denied"
    /\ Asks(Requests(5)[1], "write")
    /\ Len(Requests(5)) = 1 /\ Goal(5) = "rejected"
    /\ Greets(Requests(6)[1], "viewer", "replay-1")
    /\ Len(Requests(6)) = 1 /\ Goal(6) = "allowed"
    /\ Greets(Requests(7)[1], "viewer", "replay-1")
    /\ Len(Requests(7)) = 1 /\ Goal(7) = "rejected"
    /\ Requests(8)[1].big = TRUE
    /\ Len(Requests(8)) = 1 /\ Goal(8) = "rejected"
    /\ Greets(Requests(9)[1], "operator", "rate-1")
    /\ Asks(Requests(9)[2], "read")
    /\ Asks(Requests(9)[3], "read")
    /\ Asks(Requests(9)[4], "read")
    /\ Asks(Requests(9)[5], "read")
    /\ Len(Requests(9)) = 5 /\ Goal(9) = "rate-limited"
    /\ Greets(Requests(10)[1], "viewer", "reconnect-1")
    /\ Asks(Requests(10)[2], "close")
    /\ Len(Requests(10)) = 2 /\ Goal(10) = "closed"
    /\ Greets(Requests(11)[1], "viewer", "reconnect-2")
    /\ Asks(Requests(11)[2], "read")
    /\ Len(Requests(11)) = 2 /\ Goal(11) = "allowed"
<1>0. "write" # "hello" /\ "read" # "hello" /\ "close" # "hello"
  OBVIOUS
<1>1. Greets(Requests(2)[1], "", "")
  <2>1. Requests(2)[1] = S!Hello("", "")
    BY ChecksAre, Zenon
  <2>2. Greets(S!Hello("", ""), "", "")
    BY AskedAre, Zenon
  <2> QED
    BY <2>1, <2>2, Zenon
<1>2. Len(Requests(2)) = 1 /\ Goal(2) = "denied"
  BY ChecksAre, Zenon DEF Goal
<1>3. Greets(Requests(3)[1], "expired", "expiry-1")
  <2>1. Requests(3)[1] = S!Hello("expired", "expiry-1")
    BY ChecksAre, Zenon
  <2>2. Greets(S!Hello("expired", "expiry-1"), "expired", "expiry-1")
    BY AskedAre, Zenon
  <2> QED
    BY <2>1, <2>2, Zenon
<1>4. Len(Requests(3)) = 1 /\ Goal(3) = "expired"
  BY ChecksAre, Zenon DEF Goal
<1>5. Greets(Requests(4)[1], "viewer", "role-1")
  <2>1. Requests(4)[1] = S!Hello("viewer", "role-1")
    BY ChecksAre, Zenon
  <2>2. Greets(S!Hello("viewer", "role-1"), "viewer", "role-1")
    BY AskedAre, Zenon
  <2> QED
    BY <2>1, <2>2, Zenon
<1>6. Asks(Requests(4)[2], "write")
  <2>1. Requests(4)[2] = S!Ask("write")
    BY ChecksAre, Zenon
  <2>2. Asks(S!Ask("write"), "write")
    BY <1>0, AskedAre, Zenon
  <2> QED
    BY <2>1, <2>2, Zenon
<1>7. Len(Requests(4)) = 2 /\ Goal(4) = "denied"
  BY ChecksAre, Zenon DEF Goal
<1>8. Asks(Requests(5)[1], "write")
  <2>1. Requests(5)[1] = S!Ask("write")
    BY ChecksAre, Zenon
  <2>2. Asks(S!Ask("write"), "write")
    BY <1>0, AskedAre, Zenon
  <2> QED
    BY <2>1, <2>2, Zenon
<1>9. Len(Requests(5)) = 1 /\ Goal(5) = "rejected"
  BY ChecksAre, Zenon DEF Goal
<1>10. Greets(Requests(6)[1], "viewer", "replay-1")
  <2>1. Requests(6)[1] = S!Hello("viewer", "replay-1")
    BY ChecksAre, Zenon
  <2>2. Greets(S!Hello("viewer", "replay-1"), "viewer", "replay-1")
    BY AskedAre, Zenon
  <2> QED
    BY <2>1, <2>2, Zenon
<1>11. Len(Requests(6)) = 1 /\ Goal(6) = "allowed"
  BY ChecksAre, Zenon DEF Goal
<1>12. Greets(Requests(7)[1], "viewer", "replay-1")
  <2>1. Requests(7)[1] = S!Hello("viewer", "replay-1")
    BY ChecksAre, Zenon
  <2>2. Greets(S!Hello("viewer", "replay-1"), "viewer", "replay-1")
    BY AskedAre, Zenon
  <2> QED
    BY <2>1, <2>2, Zenon
<1>13. Len(Requests(7)) = 1 /\ Goal(7) = "rejected"
  BY ChecksAre, Zenon DEF Goal
<1>14. Requests(8)[1].big = TRUE
  <2>1. Requests(8)[1] = [S!Hello("viewer", "size-1") EXCEPT !.big = TRUE]
    BY ChecksAre, Zenon
  <2>2. [S!Hello("viewer", "size-1") EXCEPT !.big = TRUE].big = TRUE
    BY AskedAre, Zenon
  <2> QED
    BY <2>1, <2>2, Zenon
<1>15. Len(Requests(8)) = 1 /\ Goal(8) = "rejected"
  BY ChecksAre, Zenon DEF Goal
<1>16. Greets(Requests(9)[1], "operator", "rate-1")
  <2>1. Requests(9)[1] = S!Hello("operator", "rate-1")
    BY ChecksAre, Zenon
  <2>2. Greets(S!Hello("operator", "rate-1"), "operator", "rate-1")
    BY AskedAre, Zenon
  <2> QED
    BY <2>1, <2>2, Zenon
<1>17. Asks(Requests(9)[2], "read")
  <2>1. Requests(9)[2] = S!Ask("read")
    BY ChecksAre, Zenon
  <2>2. Asks(S!Ask("read"), "read")
    BY <1>0, AskedAre, Zenon
  <2> QED
    BY <2>1, <2>2, Zenon
<1>18. Asks(Requests(9)[3], "read")
  <2>1. Requests(9)[3] = S!Ask("read")
    BY ChecksAre, Zenon
  <2>2. Asks(S!Ask("read"), "read")
    BY <1>0, AskedAre, Zenon
  <2> QED
    BY <2>1, <2>2, Zenon
<1>19. Asks(Requests(9)[4], "read")
  <2>1. Requests(9)[4] = S!Ask("read")
    BY ChecksAre, Zenon
  <2>2. Asks(S!Ask("read"), "read")
    BY <1>0, AskedAre, Zenon
  <2> QED
    BY <2>1, <2>2, Zenon
<1>20. Asks(Requests(9)[5], "read")
  <2>1. Requests(9)[5] = S!Ask("read")
    BY ChecksAre, Zenon
  <2>2. Asks(S!Ask("read"), "read")
    BY <1>0, AskedAre, Zenon
  <2> QED
    BY <2>1, <2>2, Zenon
<1>21. Len(Requests(9)) = 5 /\ Goal(9) = "rate-limited"
  BY ChecksAre, Zenon DEF Goal
<1>22. Greets(Requests(10)[1], "viewer", "reconnect-1")
  <2>1. Requests(10)[1] = S!Hello("viewer", "reconnect-1")
    BY ChecksAre, Zenon
  <2>2. Greets(S!Hello("viewer", "reconnect-1"), "viewer", "reconnect-1")
    BY AskedAre, Zenon
  <2> QED
    BY <2>1, <2>2, Zenon
<1>23. Asks(Requests(10)[2], "close")
  <2>1. Requests(10)[2] = S!Ask("close")
    BY ChecksAre, Zenon
  <2>2. Asks(S!Ask("close"), "close")
    BY <1>0, AskedAre, Zenon
  <2> QED
    BY <2>1, <2>2, Zenon
<1>24. Len(Requests(10)) = 2 /\ Goal(10) = "closed"
  BY ChecksAre, Zenon DEF Goal
<1>25. Greets(Requests(11)[1], "viewer", "reconnect-2")
  <2>1. Requests(11)[1] = S!Hello("viewer", "reconnect-2")
    BY ChecksAre, Zenon
  <2>2. Greets(S!Hello("viewer", "reconnect-2"), "viewer", "reconnect-2")
    BY AskedAre, Zenon
  <2> QED
    BY <2>1, <2>2, Zenon
<1>26. Asks(Requests(11)[2], "read")
  <2>1. Requests(11)[2] = S!Ask("read")
    BY ChecksAre, Zenon
  <2>2. Asks(S!Ask("read"), "read")
    BY <1>0, AskedAre, Zenon
  <2> QED
    BY <2>1, <2>2, Zenon
<1>27. Len(Requests(11)) = 2 /\ Goal(11) = "allowed"
  BY ChecksAre, Zenon DEF Goal
<1> QED
  BY <1>1, <1>2, <1>3, <1>4, <1>5, <1>6, <1>7, <1>8, <1>9, <1>10, <1>11, <1>12,
     <1>13, <1>14, <1>15, <1>16, <1>17, <1>18, <1>19, <1>20, <1>21, <1>22, <1>23, <1>24,
     <1>25, <1>26, <1>27, Zenon

(* A greeting, another request and a refusal at the limit, end to end.      *)
LEMMA GreetingAnswers ==
    ASSUME NEW c \in Numbers, served \in [Numbers -> Connection], NEW r, NEW x, NEW y,
           wire[c] = Req(r), S!Handle(c), Greets(r, x, y), ~(served[c].count > MaxMessages),
           served[c].state = "pre-auth"
    PROVE  /\ x = "" =>
                 Answers(c, "denied", "pre-auth", served[c].role, "leave", nonces)
           /\ x # "" /\ y # "" /\ y \in nonces =>
                 Answers(c, "rejected", "pre-auth", served[c].role, "leave", nonces)
           /\ x = "expired" /\ y # "" /\ y \notin nonces =>
                 Answers(c, "expired", "expired", served[c].role, "leave", nonces \cup {y})
           /\ x \in {"viewer", "operator"} /\ y # "" /\ y \notin nonces =>
                 Answers(c, "allowed", "authenticated", x, "receive", nonces \cup {y})
<1>1. r.op = "hello" /\ r.session = x /\ r.nonce = y /\ ~r.big
  BY Zenon DEF Greets
<1>2. S!HandleHello(c, r)
  BY <1>1, HandleIs, Zenon
<1> QED
  BY <1>1, <1>2, HelloAnswers, Zenon

LEMMA AskingAnswers ==
    ASSUME NEW c \in Numbers, served \in [Numbers -> Connection], NEW r, NEW x,
           wire[c] = Req(r), S!Handle(c), Asks(r, x), ~(served[c].count > MaxMessages)
    PROVE  LET s == served[c] IN
           /\ x = "close" => Answers(c, "closed", "closed", s.role, "leave", nonces)
           /\ x = "write" /\ s.state # "authenticated" =>
                 Answers(c, "rejected", s.state, s.role, "leave", nonces)
           /\ x = "write" /\ s.state = "authenticated" /\ s.role # "operator" =>
                 Answers(c, "denied", s.state, s.role, "receive", nonces)
           /\ x = "read" /\ s.state = "authenticated" =>
                 Answers(c, "allowed", s.state, s.role, "receive", nonces)
<1>1. r.op = x /\ r.op # "hello" /\ ~r.big
  BY Zenon DEF Asks
<1>2. S!HandleOther(c, r)
  BY <1>1, HandleIs, Zenon
<1> QED
  BY <1>1, <1>2, OtherAnswers, Zenon

LEMMA LimitAnswers ==
    ASSUME NEW c \in Numbers, served \in [Numbers -> Connection], NEW r,
           wire[c] = Req(r), S!Handle(c)
    PROVE  LET s == served[c] IN
           /\ r.big = TRUE => Answers(c, "rejected", s.state, s.role, "leave", nonces)
           /\ ~r.big /\ s.count > MaxMessages =>
                 Answers(c, "rate-limited", s.state, s.role, "leave", nonces)
<1>1. served[c].state \in SessionState /\ "leave" \in ConnectionPc
  BY DEF Connection, ConnectionPc
<1>2. /\ r.big = TRUE => /\ S!Reply(c, "rejected", served[c].state, "leave")
                         /\ nonces' = nonces
      /\ ~r.big /\ served[c].count > MaxMessages =>
            /\ S!Reply(c, "rate-limited", served[c].state, "leave")
            /\ nonces' = nonces
  BY HandleIs, Zenon
<1> QED
  BY <1>1, <1>2, ReplyIs, Zenon

Ready(s, c, k) ==
    /\ k = 1 => s.state = "pre-auth"
    /\ k # 1 => s.state = "authenticated" /\ s.role = Role(c)
Asked(c, k) == k \in 1..Len(Requests(c))

(* What the adapter answers to the k-th request of check c: what the check  *)
(* expects of the last one, and a session to go on with to those before it. *)
Serves(c, k) ==
    \E st, ro, where :
       /\ Answers(c, Expected(c, k), st, ro, where, Known(c + 1))
       /\ where \in {"receive", "leave"}
       /\ k # Len(Requests(c)) => where = "receive" /\ st = "authenticated" /\ ro = Role(c)

LEMMA ScriptAnswers ==
    ASSUME PeersAssumption, NEW c \in 2..11, NEW k, Asked(c, k),
           served \in [Numbers -> Connection], wire[c] = Req(Requests(c)[k]),
           served[c].count = k, Ready(served[c], c, k),
           nonces = IF k = 1 THEN Known(c) ELSE Known(c + 1), S!Handle(c)
    PROVE  Serves(c, k)
<1> DEFINE r == Requests(c)[k]
           s == served[c]
<1>0. c \in Numbers /\ MaxMessages = 4
  BY DEF Numbers, PeersAssumption
<1>1. /\ k = 1 => s.state = "pre-auth"
      /\ k # 1 => s.state = "authenticated" /\ s.role = Role(c)
  BY Zenon DEF Ready
<1>2. /\ k = 1 => nonces = Known(c)
      /\ k # 1 => nonces = Known(c + 1)
  OBVIOUS
<1> HIDE DEF r, s
<1>3. CASE c = 2 /\ k = 1
  <2>1. Greets(r, "", "")
    BY <1>3, ScriptIs, Zenon DEF r
  <2>2. nonces = Known(2) /\ Known(c + 1) = Known(3)
    BY <1>2, <1>3
  <2>3. Expected(c, k) = "denied" /\ k = Len(Requests(c))
    BY <1>3, ScriptIs, Zenon DEF Expected, Goal
  <2>4. ~(s.count > MaxMessages)
    BY <1>0, <1>3 DEF s
  <2>5. Answers(c, "denied", "pre-auth", s.role, "leave", Known(3))
    <3>1. nonces = Known(3)
      BY <2>2, KnownAre
    <3>2. s.state = "pre-auth"
      BY <1>1, <1>3
    <3>3. "" = ""
      OBVIOUS
    <3>4. Answers(c, "denied", "pre-auth", s.role, "leave", nonces)
      BY <1>0, <2>1, <2>4, <3>1, <3>2, <3>3, GreetingAnswers, Zenon DEF r, s
    <3> QED
      BY <3>1, <3>4, Zenon
  <2> QED
    BY <2>2, <2>3, <2>5, Zenon DEF Serves
<1>4. CASE c = 3 /\ k = 1
  <2>1. Greets(r, "expired", "expiry-1")
    BY <1>4, ScriptIs, Zenon DEF r
  <2>2. nonces = Known(3) /\ Known(c + 1) = Known(4)
    BY <1>2, <1>4
  <2>3. Expected(c, k) = "expired" /\ k = Len(Requests(c))
    BY <1>4, ScriptIs, Zenon DEF Expected, Goal
  <2>4. ~(s.count > MaxMessages)
    BY <1>0, <1>4 DEF s
  <2>5. Answers(c, "expired", "expired", s.role, "leave", Known(4))
    <3>1. "expiry-1" \notin nonces /\ nonces \cup {"expiry-1"} = Known(4)
      BY <2>2, KnownAre
    <3>2. s.state = "pre-auth"
      BY <1>1, <1>4
    <3>3. "expired" # "" /\ "expiry-1" # ""
      OBVIOUS
    <3>4. Answers(c, "expired", "expired", s.role, "leave", nonces \cup {"expiry-1"})
      BY <1>0, <2>1, <2>4, <3>1, <3>2, <3>3, GreetingAnswers, Zenon DEF r, s
    <3> QED
      BY <3>1, <3>4, Zenon
  <2> QED
    BY <2>2, <2>3, <2>5, Zenon DEF Serves
<1>5. CASE c = 4 /\ k = 1
  <2>1. Greets(r, "viewer", "role-1")
    BY <1>5, ScriptIs, Zenon DEF r
  <2>2. nonces = Known(4) /\ Known(c + 1) = Known(5)
    BY <1>2, <1>5
  <2>3. Expected(c, k) = "allowed" /\ k # Len(Requests(c))
    <3>1. k # Len(Requests(c))
      <4>1. Len(Requests(4)) = 2
        BY ScriptIs, Zenon
      <4> QED
        BY <4>1, <1>5
    <3> QED
      BY <3>1, Zenon DEF Expected
  <2>4. ~(s.count > MaxMessages)
    BY <1>0, <1>5 DEF s
  <2>5. Answers(c, "allowed", "authenticated", "viewer", "receive", Known(5))
    <3>1. "role-1" \notin nonces /\ nonces \cup {"role-1"} = Known(5)
      BY <2>2, KnownAre
    <3>2. s.state = "pre-auth"
      BY <1>1, <1>5
    <3>3. "viewer" # "" /\ "role-1" # "" /\ "viewer" \in {"viewer", "operator"}
      OBVIOUS
    <3>4. Answers(c, "allowed", "authenticated", "viewer", "receive", nonces \cup {"role-1"})
      BY <1>0, <2>1, <2>4, <3>1, <3>2, <3>3, GreetingAnswers, Zenon DEF r, s
    <3> QED
      BY <3>1, <3>4, Zenon
  <2>6. "viewer" = Role(c)
    BY <1>5 DEF Role
  <2> QED
    BY <2>2, <2>3, <2>5, <2>6, Zenon DEF Serves
<1>6. CASE c = 4 /\ k = 2
  <2>1. Asks(r, "write")
    BY <1>6, ScriptIs, Zenon DEF r
  <2>2. nonces = Known(5) /\ Known(c + 1) = Known(5)
    BY <1>2, <1>6
  <2>3. Expected(c, k) = "denied" /\ k = Len(Requests(c))
    BY <1>6, ScriptIs, Zenon DEF Expected, Goal
  <2>4. ~(s.count > MaxMessages)
    BY <1>0, <1>6 DEF s
  <2>5. Answers(c, "denied", s.state, s.role, "receive", Known(5))
    <3>1. nonces = Known(5)
      BY <2>2, KnownAre
    <3>2. s.state = "authenticated" /\ s.role # "operator"
      BY <1>1, <1>6 DEF Role
    <3>4. Answers(c, "denied", s.state, s.role, "receive", nonces)
      BY <1>0, <2>1, <2>4, <3>2, AskingAnswers, Zenon DEF r, s
    <3> QED
      BY <3>1, <3>4, Zenon
  <2> QED
    BY <2>2, <2>3, <2>5, Zenon DEF Serves
<1>7. CASE c = 5 /\ k = 1
  <2>1. Asks(r, "write")
    BY <1>7, ScriptIs, Zenon DEF r
  <2>2. nonces = Known(5) /\ Known(c + 1) = Known(6)
    BY <1>2, <1>7
  <2>3. Expected(c, k) = "rejected" /\ k = Len(Requests(c))
    BY <1>7, ScriptIs, Zenon DEF Expected, Goal
  <2>4. ~(s.count > MaxMessages)
    BY <1>0, <1>7 DEF s
  <2>5. Answers(c, "rejected", s.state, s.role, "leave", Known(6))
    <3>1. nonces = Known(6)
      BY <2>2, KnownAre
    <3>2. s.state # "authenticated"
      BY <1>1, <1>7 DEF Role
    <3>4. Answers(c, "rejected", s.state, s.role, "leave", nonces)
      BY <1>0, <2>1, <2>4, <3>2, AskingAnswers, Zenon DEF r, s
    <3> QED
      BY <3>1, <3>4, Zenon
  <2> QED
    BY <2>2, <2>3, <2>5, Zenon DEF Serves
<1>8. CASE c = 6 /\ k = 1
  <2>1. Greets(r, "viewer", "replay-1")
    BY <1>8, ScriptIs, Zenon DEF r
  <2>2. nonces = Known(6) /\ Known(c + 1) = Known(7)
    BY <1>2, <1>8
  <2>3. Expected(c, k) = "allowed" /\ k = Len(Requests(c))
    BY <1>8, ScriptIs, Zenon DEF Expected, Goal
  <2>4. ~(s.count > MaxMessages)
    BY <1>0, <1>8 DEF s
  <2>5. Answers(c, "allowed", "authenticated", "viewer", "receive", Known(7))
    <3>1. "replay-1" \notin nonces /\ nonces \cup {"replay-1"} = Known(7)
      BY <2>2, KnownAre
    <3>2. s.state = "pre-auth"
      BY <1>1, <1>8
    <3>3. "viewer" # "" /\ "replay-1" # "" /\ "viewer" \in {"viewer", "operator"}
      OBVIOUS
    <3>4. Answers(c, "allowed", "authenticated", "viewer", "receive", nonces \cup {"replay-1"})
      BY <1>0, <2>1, <2>4, <3>1, <3>2, <3>3, GreetingAnswers, Zenon DEF r, s
    <3> QED
      BY <3>1, <3>4, Zenon
  <2> QED
    BY <2>2, <2>3, <2>5, Zenon DEF Serves
<1>9. CASE c = 7 /\ k = 1
  <2>1. Greets(r, "viewer", "replay-1")
    BY <1>9, ScriptIs, Zenon DEF r
  <2>2. nonces = Known(7) /\ Known(c + 1) = Known(8)
    BY <1>2, <1>9
  <2>3. Expected(c, k) = "rejected" /\ k = Len(Requests(c))
    BY <1>9, ScriptIs, Zenon DEF Expected, Goal
  <2>4. ~(s.count > MaxMessages)
    BY <1>0, <1>9 DEF s
  <2>5. Answers(c, "rejected", "pre-auth", s.role, "leave", Known(8))
    <3>1. "replay-1" \in nonces /\ nonces = Known(8)
      BY <2>2, KnownAre
    <3>2. s.state = "pre-auth"
      BY <1>1, <1>9
    <3>3. "viewer" # "" /\ "replay-1" # ""
      OBVIOUS
    <3>4. Answers(c, "rejected", "pre-auth", s.role, "leave", nonces)
      BY <1>0, <2>1, <2>4, <3>1, <3>2, <3>3, GreetingAnswers, Zenon DEF r, s
    <3> QED
      BY <3>1, <3>4, Zenon
  <2> QED
    BY <2>2, <2>3, <2>5, Zenon DEF Serves
<1>10. CASE c = 8 /\ k = 1
  <2>1. r.big = TRUE
    BY <1>10, ScriptIs, Zenon DEF r
  <2>2. nonces = Known(8) /\ Known(c + 1) = Known(9)
    BY <1>2, <1>10
  <2>3. Expected(c, k) = "rejected" /\ k = Len(Requests(c))
    BY <1>10, ScriptIs, Zenon DEF Expected, Goal
  <2>5. Answers(c, "rejected", s.state, s.role, "leave", Known(9))
    <3>1. nonces = Known(9)
      BY <2>2, KnownAre
    <3>4. Answers(c, "rejected", s.state, s.role, "leave", nonces)
      BY <1>0, <2>1, LimitAnswers, Zenon DEF r, s
    <3> QED
      BY <3>1, <3>4, Zenon
  <2> QED
    BY <2>2, <2>3, <2>5, Zenon DEF Serves
<1>11. CASE c = 9 /\ k = 1
  <2>1. Greets(r, "operator", "rate-1")
    BY <1>11, ScriptIs, Zenon DEF r
  <2>2. nonces = Known(9) /\ Known(c + 1) = Known(10)
    BY <1>2, <1>11
  <2>3. Expected(c, k) = "allowed" /\ k # Len(Requests(c))
    <3>1. k # Len(Requests(c))
      <4>1. Len(Requests(9)) = 5
        BY ScriptIs, Zenon
      <4> QED
        BY <4>1, <1>11
    <3> QED
      BY <3>1, Zenon DEF Expected
  <2>4. ~(s.count > MaxMessages)
    BY <1>0, <1>11 DEF s
  <2>5. Answers(c, "allowed", "authenticated", "operator", "receive", Known(10))
    <3>1. "rate-1" \notin nonces /\ nonces \cup {"rate-1"} = Known(10)
      BY <2>2, KnownAre
    <3>2. s.state = "pre-auth"
      BY <1>1, <1>11
    <3>3. "operator" # "" /\ "rate-1" # "" /\ "operator" \in {"viewer", "operator"}
      OBVIOUS
    <3>4. Answers(c, "allowed", "authenticated", "operator", "receive", nonces \cup {"rate-1"})
      BY <1>0, <2>1, <2>4, <3>1, <3>2, <3>3, GreetingAnswers, Zenon DEF r, s
    <3> QED
      BY <3>1, <3>4, Zenon
  <2>6. "operator" = Role(c)
    BY <1>11 DEF Role
  <2> QED
    BY <2>2, <2>3, <2>5, <2>6, Zenon DEF Serves
<1>12. CASE c = 9 /\ k = 2
  <2>1. Asks(r, "read")
    BY <1>12, ScriptIs, Zenon DEF r
  <2>2. nonces = Known(10) /\ Known(c + 1) = Known(10)
    BY <1>2, <1>12
  <2>3. Expected(c, k) = "allowed" /\ k # Len(Requests(c))
    <3>1. k # Len(Requests(c))
      <4>1. Len(Requests(9)) = 5
        BY ScriptIs, Zenon
      <4> QED
        BY <4>1, <1>12
    <3> QED
      BY <3>1, Zenon DEF Expected
  <2>4. ~(s.count > MaxMessages)
    BY <1>0, <1>12 DEF s
  <2>5. Answers(c, "allowed", s.state, s.role, "receive", Known(10))
    <3>1. nonces = Known(10)
      BY <2>2, KnownAre
    <3>2. s.state = "authenticated"
      BY <1>1, <1>12 DEF Role
    <3>4. Answers(c, "allowed", s.state, s.role, "receive", nonces)
      BY <1>0, <2>1, <2>4, <3>2, AskingAnswers, Zenon DEF r, s
    <3> QED
      BY <3>1, <3>4, Zenon
  <2>6. s.state = "authenticated" /\ s.role = Role(c)
    BY <1>1, <1>12
  <2> QED
    BY <2>2, <2>3, <2>5, <2>6, Zenon DEF Serves
<1>13. CASE c = 9 /\ k = 3
  <2>1. Asks(r, "read")
    BY <1>13, ScriptIs, Zenon DEF r
  <2>2. nonces = Known(10) /\ Known(c + 1) = Known(10)
    BY <1>2, <1>13
  <2>3. Expected(c, k) = "allowed" /\ k # Len(Requests(c))
    <3>1. k # Len(Requests(c))
      <4>1. Len(Requests(9)) = 5
        BY ScriptIs, Zenon
      <4> QED
        BY <4>1, <1>13
    <3> QED
      BY <3>1, Zenon DEF Expected
  <2>4. ~(s.count > MaxMessages)
    BY <1>0, <1>13 DEF s
  <2>5. Answers(c, "allowed", s.state, s.role, "receive", Known(10))
    <3>1. nonces = Known(10)
      BY <2>2, KnownAre
    <3>2. s.state = "authenticated"
      BY <1>1, <1>13 DEF Role
    <3>4. Answers(c, "allowed", s.state, s.role, "receive", nonces)
      BY <1>0, <2>1, <2>4, <3>2, AskingAnswers, Zenon DEF r, s
    <3> QED
      BY <3>1, <3>4, Zenon
  <2>6. s.state = "authenticated" /\ s.role = Role(c)
    BY <1>1, <1>13
  <2> QED
    BY <2>2, <2>3, <2>5, <2>6, Zenon DEF Serves
<1>14. CASE c = 9 /\ k = 4
  <2>1. Asks(r, "read")
    BY <1>14, ScriptIs, Zenon DEF r
  <2>2. nonces = Known(10) /\ Known(c + 1) = Known(10)
    BY <1>2, <1>14
  <2>3. Expected(c, k) = "allowed" /\ k # Len(Requests(c))
    <3>1. k # Len(Requests(c))
      <4>1. Len(Requests(9)) = 5
        BY ScriptIs, Zenon
      <4> QED
        BY <4>1, <1>14
    <3> QED
      BY <3>1, Zenon DEF Expected
  <2>4. ~(s.count > MaxMessages)
    BY <1>0, <1>14 DEF s
  <2>5. Answers(c, "allowed", s.state, s.role, "receive", Known(10))
    <3>1. nonces = Known(10)
      BY <2>2, KnownAre
    <3>2. s.state = "authenticated"
      BY <1>1, <1>14 DEF Role
    <3>4. Answers(c, "allowed", s.state, s.role, "receive", nonces)
      BY <1>0, <2>1, <2>4, <3>2, AskingAnswers, Zenon DEF r, s
    <3> QED
      BY <3>1, <3>4, Zenon
  <2>6. s.state = "authenticated" /\ s.role = Role(c)
    BY <1>1, <1>14
  <2> QED
    BY <2>2, <2>3, <2>5, <2>6, Zenon DEF Serves
<1>15. CASE c = 9 /\ k = 5
  <2>1. Asks(r, "read")
    BY <1>15, ScriptIs, Zenon DEF r
  <2>2. nonces = Known(10) /\ Known(c + 1) = Known(10)
    BY <1>2, <1>15
  <2>3. Expected(c, k) = "rate-limited" /\ k = Len(Requests(c))
    BY <1>15, ScriptIs, Zenon DEF Expected, Goal
  <2>4. s.count > MaxMessages
    BY <1>0, <1>15 DEF s
  <2>5. Answers(c, "rate-limited", s.state, s.role, "leave", Known(10))
    <3>1. nonces = Known(10)
      BY <2>2, KnownAre
    <3>4. Answers(c, "rate-limited", s.state, s.role, "leave", nonces)
      BY <1>0, <2>1, <2>4, LimitAnswers, Zenon DEF Asks, r, s
    <3> QED
      BY <3>1, <3>4, Zenon
  <2> QED
    BY <2>2, <2>3, <2>5, Zenon DEF Serves
<1>16. CASE c = 10 /\ k = 1
  <2>1. Greets(r, "viewer", "reconnect-1")
    BY <1>16, ScriptIs, Zenon DEF r
  <2>2. nonces = Known(10) /\ Known(c + 1) = Known(11)
    BY <1>2, <1>16
  <2>3. Expected(c, k) = "allowed" /\ k # Len(Requests(c))
    <3>1. k # Len(Requests(c))
      <4>1. Len(Requests(10)) = 2
        BY ScriptIs, Zenon
      <4> QED
        BY <4>1, <1>16
    <3> QED
      BY <3>1, Zenon DEF Expected
  <2>4. ~(s.count > MaxMessages)
    BY <1>0, <1>16 DEF s
  <2>5. Answers(c, "allowed", "authenticated", "viewer", "receive", Known(11))
    <3>1. "reconnect-1" \notin nonces /\ nonces \cup {"reconnect-1"} = Known(11)
      BY <2>2, KnownAre
    <3>2. s.state = "pre-auth"
      BY <1>1, <1>16
    <3>3. "viewer" # "" /\ "reconnect-1" # "" /\ "viewer" \in {"viewer", "operator"}
      OBVIOUS
    <3>4. Answers(c, "allowed", "authenticated", "viewer", "receive", nonces \cup {"reconnect-1"})
      BY <1>0, <2>1, <2>4, <3>1, <3>2, <3>3, GreetingAnswers, Zenon DEF r, s
    <3> QED
      BY <3>1, <3>4, Zenon
  <2>6. "viewer" = Role(c)
    BY <1>16 DEF Role
  <2> QED
    BY <2>2, <2>3, <2>5, <2>6, Zenon DEF Serves
<1>17. CASE c = 10 /\ k = 2
  <2>1. Asks(r, "close")
    BY <1>17, ScriptIs, Zenon DEF r
  <2>2. nonces = Known(11) /\ Known(c + 1) = Known(11)
    BY <1>2, <1>17
  <2>3. Expected(c, k) = "closed" /\ k = Len(Requests(c))
    BY <1>17, ScriptIs, Zenon DEF Expected, Goal
  <2>4. ~(s.count > MaxMessages)
    BY <1>0, <1>17 DEF s
  <2>5. Answers(c, "closed", "closed", s.role, "leave", Known(11))
    <3>1. nonces = Known(11)
      BY <2>2, KnownAre
    <3>2. s.state = "authenticated"
      BY <1>1, <1>17 DEF Role
    <3>4. Answers(c, "closed", "closed", s.role, "leave", nonces)
      BY <1>0, <2>1, <2>4, <3>2, AskingAnswers, Zenon DEF r, s
    <3> QED
      BY <3>1, <3>4, Zenon
  <2> QED
    BY <2>2, <2>3, <2>5, Zenon DEF Serves
<1>18. CASE c = 11 /\ k = 1
  <2>1. Greets(r, "viewer", "reconnect-2")
    BY <1>18, ScriptIs, Zenon DEF r
  <2>2. nonces = Known(11) /\ Known(c + 1) = Known(12)
    BY <1>2, <1>18
  <2>3. Expected(c, k) = "allowed" /\ k # Len(Requests(c))
    <3>1. k # Len(Requests(c))
      <4>1. Len(Requests(11)) = 2
        BY ScriptIs, Zenon
      <4> QED
        BY <4>1, <1>18
    <3> QED
      BY <3>1, Zenon DEF Expected
  <2>4. ~(s.count > MaxMessages)
    BY <1>0, <1>18 DEF s
  <2>5. Answers(c, "allowed", "authenticated", "viewer", "receive", Known(12))
    <3>1. "reconnect-2" \notin nonces /\ nonces \cup {"reconnect-2"} = Known(12)
      BY <2>2, KnownAre
    <3>2. s.state = "pre-auth"
      BY <1>1, <1>18
    <3>3. "viewer" # "" /\ "reconnect-2" # "" /\ "viewer" \in {"viewer", "operator"}
      OBVIOUS
    <3>4. Answers(c, "allowed", "authenticated", "viewer", "receive", nonces \cup {"reconnect-2"})
      BY <1>0, <2>1, <2>4, <3>1, <3>2, <3>3, GreetingAnswers, Zenon DEF r, s
    <3> QED
      BY <3>1, <3>4, Zenon
  <2>6. "viewer" = Role(c)
    BY <1>18 DEF Role
  <2> QED
    BY <2>2, <2>3, <2>5, <2>6, Zenon DEF Serves
<1>19. CASE c = 11 /\ k = 2
  <2>1. Asks(r, "read")
    BY <1>19, ScriptIs, Zenon DEF r
  <2>2. nonces = Known(12) /\ Known(c + 1) = Known(12)
    BY <1>2, <1>19
  <2>3. Expected(c, k) = "allowed" /\ k = Len(Requests(c))
    BY <1>19, ScriptIs, Zenon DEF Expected, Goal
  <2>4. ~(s.count > MaxMessages)
    BY <1>0, <1>19 DEF s
  <2>5. Answers(c, "allowed", s.state, s.role, "receive", Known(12))
    <3>1. nonces = Known(12)
      BY <2>2, KnownAre
    <3>2. s.state = "authenticated"
      BY <1>1, <1>19 DEF Role
    <3>4. Answers(c, "allowed", s.state, s.role, "receive", nonces)
      BY <1>0, <2>1, <2>4, <3>2, AskingAnswers, Zenon DEF r, s
    <3> QED
      BY <3>1, <3>4, Zenon
  <2> QED
    BY <2>2, <2>3, <2>5, Zenon DEF Serves
<1>20. c = 2 \/ c = 3 \/ c = 4 \/ c = 5 \/ c = 6 \/ c = 7 \/ c = 8 \/ c = 9 \/ c = 10 \/ c = 11
  OBVIOUS
<1>21. c = 2 => k = 1
  <2>1. Len(Requests(2)) = 1
    BY ScriptIs, Zenon
  <2> QED
    BY <2>1 DEF Asked
<1>22. c = 3 => k = 1
  <2>1. Len(Requests(3)) = 1
    BY ScriptIs, Zenon
  <2> QED
    BY <2>1 DEF Asked
<1>23. c = 4 => k = 1 \/ k = 2
  <2>1. Len(Requests(4)) = 2
    BY ScriptIs, Zenon
  <2> QED
    BY <2>1 DEF Asked
<1>24. c = 5 => k = 1
  <2>1. Len(Requests(5)) = 1
    BY ScriptIs, Zenon
  <2> QED
    BY <2>1 DEF Asked
<1>25. c = 6 => k = 1
  <2>1. Len(Requests(6)) = 1
    BY ScriptIs, Zenon
  <2> QED
    BY <2>1 DEF Asked
<1>26. c = 7 => k = 1
  <2>1. Len(Requests(7)) = 1
    BY ScriptIs, Zenon
  <2> QED
    BY <2>1 DEF Asked
<1>27. c = 8 => k = 1
  <2>1. Len(Requests(8)) = 1
    BY ScriptIs, Zenon
  <2> QED
    BY <2>1 DEF Asked
<1>28. c = 9 => k = 1 \/ k = 2 \/ k = 3 \/ k = 4 \/ k = 5
  <2>1. Len(Requests(9)) = 5
    BY ScriptIs, Zenon
  <2> QED
    BY <2>1 DEF Asked
<1>29. c = 10 => k = 1 \/ k = 2
  <2>1. Len(Requests(10)) = 2
    BY ScriptIs, Zenon
  <2> QED
    BY <2>1 DEF Asked
<1>30. c = 11 => k = 1 \/ k = 2
  <2>1. Len(Requests(11)) = 2
    BY ScriptIs, Zenon
  <2> QED
    BY <2>1 DEF Asked
<1> QED
  BY <1>3, <1>4, <1>5, <1>6, <1>7, <1>8, <1>9, <1>10, <1>11, <1>12, <1>13, <1>14, <1>15, <1>16, <1>17, <1>18, <1>19,
     <1>20, <1>21, <1>22, <1>23, <1>24, <1>25, <1>26, <1>27, <1>28, <1>29, <1>30

-----------------------------------------------------------------------------
(* The state of the self-test.                                             *)

Stored(c, k) == IF k = 1 THEN Known(c) ELSE Known(c + 1)
Signals == {"dial", "send", "receive", "settle", "reported"}

SignalingType ==
    /\ accept \in BOOLEAN /\ sExpired \in BOOLEAN
    /\ at \in 1..12 /\ client \in Signals
    /\ client \in {"settle", "reported"} <=> at = 12
    /\ client \in {"send", "receive"} => at # 1 /\ Asked(at, step)
    /\ client = "dial" => step = 1
    /\ checks \in Seq(BOOLEAN) /\ Len(checks) = at - 1
    /\ served \in [Numbers -> Connection]
    /\ wire = [c \in Numbers |-> wire[c]]
    /\ report.status \in {"none", "pass", "fail"}
    /\ report.status # "none" <=> client = "reported"

(* Which connections are open, and that the counter says so.                *)
Unopened(c) == c > at \/ (c = at /\ client = "dial")
OpenInv ==
    /\ \A c \in Numbers : Unopened(c) => served[c].pc = "none"
    /\ open = Cardinality(Opened)
    /\ report.status = "pass" => open = 0

(* The negative control fails at its first check.                           *)
ControlInv ==
    /\ accept /\ at > 1 => checks[1] = FALSE
    /\ accept => report.status # "pass"

(* Connections before, at and after the check at hand, of the right adapter *)
(* in time.                                                                 *)
Past(c) == served[c].pc # "handle" /\ (wire[c] = <<>> \/ wire[c] = Closed)
Fresh(c) == wire[c] = <<>> /\ served[c].state = "pre-auth" /\ served[c].count = 0
Sending(c) ==
    /\ wire[c] = <<>> /\ served[c].pc = "receive" /\ served[c].count = step - 1
    /\ Ready(served[c], c, step) /\ nonces = Stored(c, step)
Waiting(c) ==
    /\ wire[c] = Req(Requests(c)[step])
    /\ \/ served[c].pc = "receive" /\ served[c].count = step - 1
       \/ served[c].pc = "handle" /\ served[c].count = step
    /\ Ready(served[c], c, step) /\ nonces = Stored(c, step)
Answered(c) ==
    /\ wire[c] = Resp(Expected(c, step)) /\ served[c].pc # "handle"
    /\ nonces = Known(c + 1)
    /\ step # Len(Requests(c)) =>
          /\ served[c].pc = "receive" /\ served[c].count = step
          /\ served[c].state = "authenticated" /\ served[c].role = Role(c)

ScriptInv ==
    /\ \A i \in 1..Len(checks) : checks[i] = TRUE
    /\ \A c \in Numbers : c < at => Past(c)
    /\ \A c \in Numbers : Unopened(c) => Fresh(c)
    /\ client \in {"dial", "settle", "reported"} => nonces = Known(at)
    /\ client = "send" => Sending(at)
    /\ client = "receive" => Waiting(at) \/ Answered(at)

SignalingInv ==
    /\ SignalingType /\ OpenInv /\ ControlInv
    /\ ~accept /\ ~sExpired => ScriptInv

LEMMA OriginsAre ==
    /\ Requests(1) = <<>> /\ S!Checks[1].origin = "foreign" /\ Goal(1) = "handshake-rejected"
    /\ \A c \in 2..11 : S!Checks[c].origin = "allowed" /\ Len(Requests(c)) \in Nat \ {0}
                        /\ Requests(c) # <<>>
<1>1. Requests(1) = <<>> /\ S!Checks[1].origin = "foreign" /\ Goal(1) = "handshake-rejected"
  BY ChecksAre, Zenon DEF Goal
<1>2. ASSUME NEW c \in 2..11 PROVE S!Checks[c].origin = "allowed"
  <2>1. c = 2 \/ c = 3 \/ c = 4 \/ c = 5 \/ c = 6 \/ c = 7 \/ c = 8 \/ c = 9 \/ c = 10 \/ c = 11
    OBVIOUS
  <2> QED
    BY <2>1, ChecksAre, Zenon
<1>3. ASSUME NEW c \in 2..11 PROVE Len(Requests(c)) \in Nat \ {0}
  <2>1. /\ 1 \in Nat \ {0} /\ 2 \in Nat \ {0} /\ 5 \in Nat \ {0}
        /\ \/ c \in {2, 3, 5, 6, 7, 8}
           \/ c \in {4, 10, 11}
           \/ c = 9
    OBVIOUS
  <2>2. c \in {2, 3, 5, 6, 7, 8} => Len(Requests(c)) = 1
    BY ScriptIs, Zenon
  <2>3. c \in {4, 10, 11} => Len(Requests(c)) = 2
    BY ScriptIs, Zenon
  <2>4. c = 9 => Len(Requests(c)) = 5
    BY ScriptIs, Zenon
  <2> QED
    BY <2>1, <2>2, <2>3, <2>4, Zenon
<1>4. \A s : Len(s) \in Nat \ {0} => s # <<>>
  <2>1. Len(<<>>) = 0
    OBVIOUS
  <2> QED
    BY <2>1
<1> QED
  BY <1>1, <1>2, <1>3, <1>4, Zenon

(* What the client's steps do, in the words of the script.                  *)
LEMMA RecordIs ==
    ASSUME NEW o, S!Record(o)
    PROVE  /\ checks' = Append(checks, o = Goal(at)) /\ at' = at + 1 /\ step' = 1
           /\ client' = IF at = 11 THEN "settle" ELSE "dial"
BY ChecksAre, ZenonT(40) DEF S!Record, Goal

LEMMA DialIs ==
    ASSUME S!Dial, at \in 1..11
    PROVE  /\ client = "dial" /\ UNCHANGED <<accept, sExpired, nonces, report>>
           /\ \/ /\ UNCHANGED <<open, served, wire>>
                 /\ \/ sExpired /\ S!Record("dial-error")
                    \/ ~sExpired /\ ~accept /\ at = 1 /\ S!Record("handshake-rejected")
              \/ /\ ~sExpired /\ open' = open + 1 /\ served' = [served EXCEPT ![at].pc = "receive"]
                 /\ \/ at = 1 /\ accept /\ S!Record("connected")
                       /\ wire' = [wire EXCEPT ![1] = Closed]
                    \/ at # 1 /\ client' = "send" /\ UNCHANGED <<at, step, checks, wire>>
<1>1. client = "dial" /\ UNCHANGED <<accept, sExpired, nonces, report>>
  BY Zenon DEF S!Dial
<1>2. CASE sExpired
  BY <1>1, <1>2, Zenon DEF S!Dial
<1>3. CASE ~sExpired /\ at = 1
  <2>1. Requests(1) = <<>> /\ (S!Admits(S!Checks[1].origin) <=> accept)
    <3>1. "foreign" # "allowed"
      OBVIOUS
    <3> QED
      BY <3>1, OriginsAre, Zenon DEF S!Admits
  <2> QED
    BY <1>1, <1>3, <2>1, Zenon DEF S!Dial, Requests, Closed
<1>4. CASE ~sExpired /\ at # 1
  <2>1. at \in 2..11
    BY <1>4
  <2>2. Requests(at) # <<>> /\ S!Admits(S!Checks[at].origin)
    BY <2>1, OriginsAre, Zenon DEF S!Admits
  <2> QED
    BY <1>1, <1>4, <2>2, Zenon DEF S!Dial, Requests
<1> QED
  BY <1>2, <1>3, <1>4, Zenon

LEMMA SendIs ==
    ASSUME S!Send
    PROVE  /\ client = "send" /\ client' = "receive"
           /\ wire' = [wire EXCEPT ![at] = Req(Requests(at)[step])]
           /\ UNCHANGED <<accept, sExpired, at, step, checks, served, nonces, open, report>>
BY Zenon DEF S!Send, Requests, Req, S!adapter

LEMMA ReceiveIs ==
    ASSUME S!Receive
    PROVE  /\ client = "receive" /\ UNCHANGED <<accept, sExpired, served, nonces, open, report>>
           /\ wire[at] # <<>> /\ wire[at][1] = "response"
           /\ \/ /\ step < Len(Requests(at)) /\ step' = step + 1 /\ client' = "send"
                 /\ wire' = [wire EXCEPT ![at] = <<>>] /\ UNCHANGED <<at, checks>>
              \/ /\ ~(step < Len(Requests(at))) /\ S!Record(wire[at][2])
                 /\ wire' = [wire EXCEPT ![at] = Closed]
BY Zenon DEF S!Receive, Requests, Closed, S!adapter

LEMMA SettleIs ==
    ASSUME S!Settle
    PROVE  /\ client = "settle" /\ client' = "reported"
           /\ report'.status = IF open = 0 /\ \A i \in DOMAIN checks : checks[i]
                               THEN "pass" ELSE "fail"
           /\ UNCHANGED <<accept, sExpired, at, step, checks, wire, served, nonces, open>>
<1> DEFINE good == \A i \in DOMAIN checks : checks[i]
<1>1. report' = [status |-> IF open = 0 /\ good THEN "pass" ELSE "fail", open |-> open]
  BY Zenon DEF S!Settle
<1> HIDE DEF good
<1>2. report'.status = IF open = 0 /\ good THEN "pass" ELSE "fail"
  BY <1>1
<1> QED
  BY <1>2, Zenon DEF S!Settle, S!adapter, good

(* The steps of a goroutine, whatever it was asked.                         *)
LEMMA HangupIs ==
    ASSUME NEW c \in Numbers, S!Hangup(c)
    PROVE  /\ served[c].pc = "receive" /\ served' = [served EXCEPT ![c].pc = "leave"]
           /\ wire[c] = Closed
           /\ UNCHANGED <<accept, sExpired, at, step, client, checks, wire, nonces, open, report>>
BY Zenon DEF S!Hangup, S!adapter, Closed

LEMMA LeaveIs ==
    ASSUME NEW c \in Numbers, S!Leave(c)
    PROVE  /\ served[c].pc = "leave" /\ served' = [served EXCEPT ![c].pc = "gone"]
           /\ open' = open - 1
           /\ UNCHANGED <<accept, sExpired, at, step, client, checks, wire, nonces, report>>
BY Zenon DEF S!Leave

LEMMA CountIs ==
    ASSUME NEW c \in Numbers, S!Count(c)
    PROVE  /\ served[c].pc = "receive" /\ wire[c] # <<>> /\ wire[c][1] = "request"
           /\ served' = [served EXCEPT ![c].count = @ + 1, ![c].pc = "handle"]
           /\ UNCHANGED <<accept, sExpired, at, step, client, checks, wire, nonces, open, report>>
BY Zenon DEF S!Count

(* Only connection c is answered, and it stays open.                        *)
Answering(c) ==
    /\ \E out : wire' = [wire EXCEPT ![c] = out]
    /\ served' \in [Numbers -> Connection] /\ served'[c].pc \in {"receive", "leave"}
    /\ \A d \in Numbers \ {c} : served'[d] = served[d]

LEMMA ReplyKeeps ==
    ASSUME NEW c \in Numbers, served \in [Numbers -> Connection], NEW o,
           NEW st \in SessionState, NEW where \in {"receive", "leave"},
           S!Reply(c, o, st, where)
    PROVE  Answering(c)
<1>1. served[c] \in Connection
  OBVIOUS
<1>2. /\ wire' = [wire EXCEPT ![c] = <<"response", o>>]
      /\ served' = [served EXCEPT ![c].state = st, ![c].pc = where]
  BY Zenon DEF S!Reply
<1>3. /\ served' \in [Numbers -> Connection] /\ served'[c].pc \in {"receive", "leave"}
      /\ \A d \in Numbers \ {c} : served'[d] = served[d]
  BY <1>1, <1>2 DEF Connection, ConnectionPc
<1> QED
  BY <1>2, <1>3, Zenon DEF Answering

LEMMA HandleKeeps ==
    ASSUME NEW c \in Numbers, served \in [Numbers -> Connection], S!Handle(c)
    PROVE  /\ served[c].pc = "handle"
           /\ UNCHANGED <<accept, sExpired, at, step, client, checks, open, report>>
           /\ Answering(c)
<1> DEFINE r == wire[c][2]
           s == served[c]
<1>1. /\ s.pc = "handle"
      /\ UNCHANGED <<accept, sExpired, at, step, client, checks, open, report>>
  BY Zenon DEF S!Handle
<1>2. /\ s.state \in SessionState /\ {"expired", "closed"} \subseteq SessionState
  BY DEF Connection, SessionState
<1>3. \/ S!Reply(c, "rejected", s.state, "leave")
      \/ S!Reply(c, "rate-limited", s.state, "leave")
      \/ S!HandleHello(c, r)
      \/ S!HandleOther(c, r)
  BY Zenon DEF S!Handle
<1>4. ASSUME S!HandleHello(c, r)
      PROVE  \/ \E o : S!Reply(c, o, s.state, "leave")
             \/ S!Reply(c, "expired", "expired", "leave")
             \/ /\ r.session \in {"viewer", "operator"}
                /\ wire' = [wire EXCEPT ![c] = <<"response", "allowed">>]
                /\ served' = [served EXCEPT ![c].state = "authenticated", ![c].role = r.session,
                                            ![c].pc = "receive"]
  <2>1. CASE s.state # "pre-auth"
    BY <1>4, <2>1, Zenon DEF S!HandleHello
  <2>2. CASE s.state = "pre-auth" /\ (r.session = "" \/ r.nonce = "")
    BY <1>4, <2>2, Zenon DEF S!HandleHello
  <2>3. CASE s.state = "pre-auth" /\ r.session # "" /\ r.nonce # ""
    <3>1. CASE r.nonce \in nonces
      BY <1>4, <2>3, <3>1, Zenon DEF S!HandleHello
    <3>2. CASE r.nonce \notin nonces /\ r.session = "expired"
      BY <1>4, <2>3, <3>2, Zenon DEF S!HandleHello
    <3>3. CASE r.nonce \notin nonces /\ r.session \in {"viewer", "operator"}
      BY <1>4, <2>3, <3>3, Zenon DEF S!HandleHello
    <3>4. CASE r.nonce \notin nonces /\ r.session \notin {"viewer", "operator", "expired"}
      BY <1>4, <2>3, <3>4, Zenon DEF S!HandleHello
    <3> QED
      BY <3>1, <3>2, <3>3, <3>4, Zenon
  <2> QED
    BY <2>1, <2>2, <2>3, Zenon
<1>5. ASSUME S!HandleOther(c, r)
      PROVE  \/ \E o : S!Reply(c, o, s.state, "leave") \/ S!Reply(c, o, s.state, "receive")
             \/ S!Reply(c, "closed", "closed", "leave")
  <2>1. \/ S!Reply(c, "closed", "closed", "leave")
        \/ S!Reply(c, "rejected", s.state, "leave")
        \/ S!Reply(c, "denied", s.state, "receive")
        \/ S!Reply(c, "allowed", s.state, "receive")
    BY <1>5 DEF S!HandleOther
  <2> QED
    BY <2>1, Zenon
<1>6. CASE /\ r.session \in {"viewer", "operator"}
           /\ wire' = [wire EXCEPT ![c] = <<"response", "allowed">>]
           /\ served' = [served EXCEPT ![c].state = "authenticated", ![c].role = r.session,
                                       ![c].pc = "receive"]
  <2> DEFINE ro == r.session
  <2>1. ro \in RoleName /\ served[c] \in Connection
    <3>1. ro = "viewer" \/ ro = "operator"
      BY <1>6, Zenon
    <3>2. "viewer" \in RoleName /\ "operator" \in RoleName
      BY DEF RoleName
    <3> QED
      BY <3>1, <3>2, Zenon
  <2>2. served' = [served EXCEPT ![c].state = "authenticated", ![c].role = ro, ![c].pc = "receive"]
    BY <1>6
  <2> HIDE DEF ro
  <2>3. /\ served' \in [Numbers -> Connection] /\ served'[c].pc \in {"receive", "leave"}
        /\ \A d \in Numbers \ {c} : served'[d] = served[d]
    BY <2>1, <2>2 DEF Connection, ConnectionPc, SessionState
  <2> QED
    BY <1>1, <1>6, <2>3, Zenon DEF Answering
<1>7. CASE \E o : \/ S!Reply(c, o, s.state, "leave") \/ S!Reply(c, o, s.state, "receive")
                  \/ S!Reply(c, o, "expired", "leave") \/ S!Reply(c, o, "closed", "leave")
  <2>1. "leave" \in {"receive", "leave"} /\ "receive" \in {"receive", "leave"}
    OBVIOUS
  <2> HIDE DEF r
  <2>2. "expired" \in SessionState /\ "closed" \in SessionState
    BY <1>2
  <2>3. PICK o : \/ S!Reply(c, o, s.state, "leave") \/ S!Reply(c, o, s.state, "receive")
                 \/ S!Reply(c, o, "expired", "leave") \/ S!Reply(c, o, "closed", "leave")
    BY <1>7, Zenon
  <2>4. \E st \in SessionState, where \in {"receive", "leave"} : S!Reply(c, o, st, where)
    BY <1>2, <2>1, <2>2, <2>3, Zenon
  <2>5. PICK st \in SessionState, where \in {"receive", "leave"} : S!Reply(c, o, st, where)
    BY <2>4, Zenon
  <2>6. Answering(c)
    BY <2>5, ReplyKeeps, Zenon
  <2> QED
    BY <1>1, <2>6, Zenon
<1> HIDE DEF r, s
<1> QED
  BY <1>3, <1>4, <1>5, <1>6, <1>7, Zenon

(* Recording a check, writing on a wire, and counting the open connections. *)
LEMMA RecordKeeps ==
    ASSUME NEW o, S!Record(o), at \in 1..11, checks \in Seq(BOOLEAN), Len(checks) = at - 1
    PROVE  /\ checks' \in Seq(BOOLEAN) /\ Len(checks') = at /\ at' = at + 1 /\ step' = 1
           /\ client' \in {"dial", "settle"} /\ (client' = "settle" <=> at = 11)
           /\ \A i \in 1..Len(checks) : checks'[i] = checks[i]
           /\ checks'[at] = (o = Goal(at))
<1> DEFINE good == o = Goal(at)
<1>1. good \in BOOLEAN
  BY Zenon
<1>2. /\ checks' = Append(checks, good) /\ at' = at + 1 /\ step' = 1
      /\ client' = IF at = 11 THEN "settle" ELSE "dial"
  BY RecordIs, Zenon
<1> HIDE DEF good
<1>3. /\ checks' \in Seq(BOOLEAN) /\ Len(checks') = at
      /\ \A i \in 1..Len(checks) : checks'[i] = checks[i]
      /\ checks'[at] = good
  BY <1>1, <1>2
<1>4. client' \in {"dial", "settle"} /\ (client' = "settle" <=> at = 11)
  BY <1>2
<1> QED
  BY <1>2, <1>3, <1>4, Zenon DEF good

LEMMA WireIs ==
    ASSUME wire = [d \in Numbers |-> wire[d]], NEW c \in Numbers, NEW x,
           wire' = [wire EXCEPT ![c] = x]
    PROVE  /\ wire' = [d \in Numbers |-> wire'[d]] /\ wire'[c] = x
           /\ \A d \in Numbers \ {c} : wire'[d] = wire[d]
OBVIOUS

LEMMA ServedIs ==
    ASSUME served \in [Numbers -> Connection], NEW c \in Numbers, NEW x \in ConnectionPc,
           served' = [served EXCEPT ![c].pc = x]
    PROVE  /\ served' \in [Numbers -> Connection] /\ served'[c].pc = x
           /\ served'[c].state = served[c].state /\ served'[c].role = served[c].role
           /\ served'[c].count = served[c].count
           /\ \A d \in Numbers \ {c} : served'[d] = served[d]
<1>1. served[c] \in Connection
  OBVIOUS
<1> QED
  BY <1>1 DEF Connection

LEMMA OpenedIs ==
    ASSUME NEW c \in Numbers, \A d \in Numbers \ {c} : served'[d] = served[d]
    PROVE  /\ Cardinality(Opened) \in Nat
           /\ Cardinality(Opened) = 0 => Opened = {}
           /\ served[c].pc \notin Living /\ served'[c].pc \in Living =>
                 Cardinality(Opened') = Cardinality(Opened) + 1
           /\ served[c].pc \in Living /\ served'[c].pc \notin Living =>
                 Cardinality(Opened') = Cardinality(Opened) - 1
           /\ (served[c].pc \in Living <=> served'[c].pc \in Living) => Opened' = Opened
<1>1. IsFiniteSet(Opened)
  <2>1. IsFiniteSet(1..11)
    <3>1. 1 \in Int /\ 11 \in Int
      OBVIOUS
    <3> QED
      BY <3>1, FS_Interval, Zenon
  <2> QED
    BY <2>1, FS_Subset DEF Opened, Numbers
<1>2. /\ Cardinality(Opened) \in Nat
      /\ Cardinality(Opened) = 0 => Opened = {}
  BY <1>1, FS_CardinalityType, FS_EmptySet
<1>3. ASSUME served[c].pc \notin Living, served'[c].pc \in Living
      PROVE  Cardinality(Opened') = Cardinality(Opened) + 1
  <2>1. Opened' = Opened \cup {c} /\ c \notin Opened
    BY <1>3 DEF Opened
  <2> QED
    BY <1>1, <2>1, FS_AddElement
<1>4. ASSUME served[c].pc \in Living, served'[c].pc \notin Living
      PROVE  Cardinality(Opened') = Cardinality(Opened) - 1
  <2>1. Opened' = Opened \ {c} /\ c \in Opened
    BY <1>4 DEF Opened
  <2> QED
    BY <1>1, <2>1, FS_RemoveElement
<1>5. (served[c].pc \in Living <=> served'[c].pc \in Living) => Opened' = Opened
  BY DEF Opened
<1> QED
  BY <1>2, <1>3, <1>4, <1>5

(* The part of the invariant that holds of both adapters, step by step.     *)
BothInv == SignalingType /\ OpenInv /\ ControlInv

LEMMA DialKeeps ==
    ASSUME BothInv, S!Dial
    PROVE  BothInv'
<1> USE DEF BothInv, Signals
<1>1. at \in 1..11 /\ at \in Numbers /\ client = "dial"
  <2>1. client = "dial"
    BY Zenon DEF S!Dial
  <2> QED
    BY <2>1 DEF SignalingType, Numbers
<1>2. /\ UNCHANGED <<accept, sExpired, nonces, report>>
      /\ \/ /\ UNCHANGED <<open, served, wire>>
            /\ \/ sExpired /\ S!Record("dial-error")
               \/ ~sExpired /\ ~accept /\ at = 1 /\ S!Record("handshake-rejected")
         \/ /\ ~sExpired /\ open' = open + 1 /\ served' = [served EXCEPT ![at].pc = "receive"]
            /\ \/ at = 1 /\ accept /\ S!Record("connected")
                  /\ wire' = [wire EXCEPT ![1] = Closed]
               \/ at # 1 /\ client' = "send" /\ UNCHANGED <<at, step, checks, wire>>
  BY <1>1, DialIs, Zenon
<1>3. ASSUME NEW o, S!Record(o), at = 1 /\ accept => o # "handshake-rejected"
      PROVE  /\ checks' \in Seq(BOOLEAN) /\ Len(checks') = at' - 1 /\ at' = at + 1 /\ at' \in 1..12
             /\ step' = 1 /\ client' \in {"dial", "settle"} /\ (client' = "settle" <=> at' = 12)
             /\ accept' /\ at' > 1 => checks'[1] = FALSE
             /\ \A c \in Numbers : Unopened(c)' => Unopened(c) /\ c # at
  <2>1. /\ checks' \in Seq(BOOLEAN) /\ Len(checks') = at /\ at' = at + 1 /\ step' = 1
        /\ client' \in {"dial", "settle"} /\ (client' = "settle" <=> at = 11)
        /\ \A i \in 1..Len(checks) : checks'[i] = checks[i]
        /\ checks'[at] = (o = Goal(at))
    BY <1>1, <1>3, RecordKeeps, Zenon DEF SignalingType
  <2>2. accept' /\ at' > 1 => checks'[1] = FALSE
    <3>1. CASE at = 1
      <4>1. accept => ~(o = Goal(at))
        BY <1>3, <3>1, OriginsAre, Zenon
      <4>2. accept => checks'[1] = FALSE
        BY <2>1, <3>1, <4>1
      <4> QED
        BY <4>2, <1>2
    <3>2. CASE at > 1
      BY <1>1, <1>2, <2>1, <3>2 DEF SignalingType, ControlInv
    <3>3. at = 1 \/ at > 1
      BY <1>1
    <3> QED
      BY <3>1, <3>2, <3>3, Zenon
  <2>3. \A c \in Numbers : Unopened(c)' => Unopened(c) /\ c # at
    BY <1>1, <2>1 DEF Unopened, Numbers
  <2> QED
    BY <1>1, <2>1, <2>2, <2>3
<1>4. CASE /\ UNCHANGED <<open, served, wire>>
           /\ \/ sExpired /\ S!Record("dial-error")
              \/ ~sExpired /\ ~accept /\ at = 1 /\ S!Record("handshake-rejected")
  <2>1. PICK o : S!Record(o) /\ (at = 1 /\ accept => o # "handshake-rejected")
    BY <1>4
  <2>2. SignalingType'
    BY <1>1, <1>2, <1>3, <1>4, <2>1 DEF SignalingType
  <2>3. OpenInv'
    BY <1>1, <1>2, <1>3, <1>4, <2>1 DEF OpenInv, Opened
  <2>4. ControlInv'
    BY <1>1, <1>2, <1>3, <2>1 DEF ControlInv
  <2> QED
    BY <2>2, <2>3, <2>4
<1>5. CASE /\ ~sExpired /\ open' = open + 1 /\ served' = [served EXCEPT ![at].pc = "receive"]
           /\ \/ at = 1 /\ accept /\ S!Record("connected")
                 /\ wire' = [wire EXCEPT ![1] = Closed]
              \/ at # 1 /\ client' = "send" /\ UNCHANGED <<at, step, checks, wire>>
  <2>1. /\ served' \in [Numbers -> Connection] /\ served'[at].pc = "receive"
        /\ \A d \in Numbers \ {at} : served'[d] = served[d]
    <3>1. "receive" \in ConnectionPc
      BY DEF ConnectionPc
    <3> QED
      BY <1>1, <1>5, <3>1, ServedIs, Zenon DEF SignalingType
  <2>2. served[at].pc = "none"
    BY <1>1 DEF OpenInv, Unopened
  <2>3. open' = Cardinality(Opened')
    <3>1. served[at].pc \notin Living /\ served'[at].pc \in Living
      BY <2>1, <2>2 DEF Living
    <3>2. Cardinality(Opened') = Cardinality(Opened) + 1
      BY <1>1, <2>1, <3>1, OpenedIs, Zenon
    <3> QED
      BY <1>5, <3>2 DEF OpenInv
  <2>4. report'.status # "pass"
    BY <1>1, <1>2 DEF SignalingType
  <2>5. CASE at = 1 /\ accept /\ S!Record("connected") /\ wire' = [wire EXCEPT ![1] = Closed]
    <3>1. wire' = [d \in Numbers |-> wire'[d]]
      BY <1>1, <2>5, WireIs DEF SignalingType
    <3>2. /\ checks' \in Seq(BOOLEAN) /\ Len(checks') = at' - 1 /\ at' = at + 1 /\ at' \in 1..12
          /\ step' = 1 /\ client' \in {"dial", "settle"} /\ (client' = "settle" <=> at' = 12)
          /\ accept' /\ at' > 1 => checks'[1] = FALSE
          /\ \A c \in Numbers : Unopened(c)' => Unopened(c) /\ c # at
      BY <1>3, <2>5
    <3>3. SignalingType'
      BY <1>1, <1>2, <2>1, <3>1, <3>2 DEF SignalingType
    <3>4. OpenInv'
      BY <2>1, <2>3, <2>4, <3>2 DEF OpenInv
    <3>5. ControlInv'
      BY <2>4, <3>2 DEF ControlInv
    <3> QED
      BY <3>3, <3>4, <3>5
  <2>6. CASE at # 1 /\ client' = "send" /\ UNCHANGED <<at, step, checks, wire>>
    <3>1. Asked(at, step)
      <4>1. at \in 2..11 /\ step = 1
        BY <1>1, <2>6 DEF SignalingType
      <4>2. Len(Requests(at)) \in Nat \ {0}
        BY <4>1, OriginsAre, Zenon
      <4> QED
        BY <4>1, <4>2 DEF Asked
    <3>2. SignalingType'
      BY <1>1, <1>2, <2>1, <2>6, <3>1 DEF SignalingType, Asked
    <3>3. \A c \in Numbers : Unopened(c)' => Unopened(c) /\ c # at
      BY <1>1, <2>6 DEF Unopened, Numbers
    <3>4. OpenInv'
      BY <2>1, <2>3, <2>4, <3>3 DEF OpenInv
    <3>5. ControlInv'
      BY <1>2, <2>4, <2>6 DEF ControlInv
    <3> QED
      BY <3>2, <3>4, <3>5
  <2> QED
    BY <1>5, <2>5, <2>6
<1> QED
  BY <1>2, <1>4, <1>5

LEMMA SendKeeps ==
    ASSUME BothInv, S!Send
    PROVE  BothInv'
<1> USE DEF BothInv, Signals
<1>1. /\ client = "send" /\ client' = "receive"
      /\ wire' = [wire EXCEPT ![at] = Req(Requests(at)[step])]
      /\ UNCHANGED <<accept, sExpired, at, step, checks, served, nonces, open, report>>
  BY SendIs, Zenon
<1>2. at \in Numbers
  BY <1>1 DEF SignalingType, Numbers
<1>3. wire' = [d \in Numbers |-> wire'[d]]
  BY <1>1, <1>2, WireIs, Zenon DEF SignalingType
<1>4. SignalingType'
  BY <1>1, <1>3 DEF SignalingType, Asked
<1>5. OpenInv' /\ ControlInv'
  BY <1>1 DEF OpenInv, ControlInv, Opened, Unopened
<1> QED
  BY <1>4, <1>5

LEMMA ReceiveKeeps ==
    ASSUME BothInv, S!Receive
    PROVE  BothInv'
<1> USE DEF BothInv, Signals
<1>1. /\ client = "receive" /\ UNCHANGED <<accept, sExpired, served, nonces, open, report>>
      /\ \/ /\ step < Len(Requests(at)) /\ step' = step + 1 /\ client' = "send"
            /\ wire' = [wire EXCEPT ![at] = <<>>] /\ UNCHANGED <<at, checks>>
         \/ S!Record(wire[at][2]) /\ wire' = [wire EXCEPT ![at] = Closed]
  BY ReceiveIs, Zenon
<1>2. at \in 2..11 /\ at \in Numbers /\ at \in 1..11 /\ Asked(at, step)
  BY <1>1 DEF SignalingType, Numbers
<1>3. wire' = [d \in Numbers |-> wire'[d]]
  BY <1>1, <1>2, WireIs, Zenon DEF SignalingType
<1>4. CASE /\ step < Len(Requests(at)) /\ step' = step + 1 /\ client' = "send" /\ UNCHANGED <<at, checks>>
  <2>1. Asked(at, step')
    <3>1. Len(Requests(at)) \in Nat
      BY <1>2, OriginsAre, Zenon
    <3> QED
      BY <1>2, <1>4, <3>1 DEF Asked
  <2>2. SignalingType'
    BY <1>1, <1>2, <1>3, <1>4, <2>1 DEF SignalingType, Asked
  <2>3. OpenInv' /\ ControlInv'
    BY <1>1, <1>4 DEF OpenInv, ControlInv, Opened, Unopened
  <2> QED
    BY <2>2, <2>3
<1>5. CASE S!Record(wire[at][2])
  <2> DEFINE o == wire[at][2]
  <2>1. S!Record(o)
    BY <1>5
  <2> HIDE DEF o
  <2>2. /\ checks' \in Seq(BOOLEAN) /\ Len(checks') = at /\ at' = at + 1 /\ step' = 1
        /\ client' \in {"dial", "settle"} /\ (client' = "settle" <=> at = 11)
        /\ \A i \in 1..Len(checks) : checks'[i] = checks[i]
    BY <1>2, <2>1, RecordKeeps, Zenon DEF SignalingType
  <2>3. SignalingType'
    BY <1>1, <1>2, <1>3, <2>2, SMTT(30) DEF SignalingType
  <2>4. OpenInv'
    BY <1>1, <1>2, <2>2, SMTT(30) DEF OpenInv, Opened, Unopened, Numbers, SignalingType
  <2>5. ControlInv'
    BY <1>1, <1>2, <2>2 DEF ControlInv, SignalingType
  <2> QED
    BY <2>3, <2>4, <2>5
<1> QED
  BY <1>1, <1>4, <1>5

LEMMA SettleKeeps ==
    ASSUME BothInv, S!Settle
    PROVE  BothInv'
<1> USE DEF BothInv, Signals
<1> DEFINE good == \A i \in DOMAIN checks : checks[i]
<1>1. /\ client = "settle" /\ client' = "reported"
      /\ report'.status = IF open = 0 /\ good THEN "pass" ELSE "fail"
      /\ UNCHANGED <<accept, sExpired, at, step, checks, wire, served, nonces, open>>
  BY SettleIs, Zenon
<1>2. at = 12 /\ Len(checks) = 11 /\ DOMAIN checks = 1..11
  BY <1>1 DEF SignalingType
<1>3. accept => ~good
  BY <1>2 DEF ControlInv
<1> HIDE DEF good
<1>4. SignalingType'
  BY <1>1 DEF SignalingType, Asked
<1>5. OpenInv'
  BY <1>1, <1>2 DEF OpenInv, Opened, Unopened, Numbers
<1>6. ControlInv'
  BY <1>1, <1>3 DEF ControlInv
<1> QED
  BY <1>4, <1>5, <1>6

LEMMA GoroutineKeeps ==
    ASSUME BothInv, NEW c \in Numbers, S!Serve(c)
    PROVE  BothInv'
<1> USE DEF BothInv
<1>0. served \in [Numbers -> Connection] /\ wire = [d \in Numbers |-> wire[d]]
      /\ {"leave", "gone", "receive", "handle"} \subseteq ConnectionPc
  BY DEF SignalingType, ConnectionPc
<1>1. ASSUME UNCHANGED <<accept, sExpired, at, step, client, checks, report>>,
             wire' = [d \in Numbers |-> wire'[d]], served' \in [Numbers -> Connection]
      PROVE  SignalingType' /\ ControlInv'
  BY <1>1 DEF SignalingType, ControlInv, Asked
<1>2. ASSUME UNCHANGED <<at, client, open, report>>, served[c].pc \in Living, served'[c].pc \in Living,
             \A d \in Numbers \ {c} : served'[d] = served[d]
      PROVE  OpenInv'
  <2>1. Opened' = Opened
    BY <1>2, OpenedIs, Zenon
  <2>2. ASSUME NEW d \in Numbers, Unopened(d)' PROVE served'[d].pc = "none"
    <3>1. Unopened(d) /\ served[d].pc = "none"
      BY <1>2, <2>2 DEF OpenInv, Unopened
    <3>2. d # c
      BY <1>2, <3>1 DEF Living
    <3> QED
      BY <1>2, <3>1, <3>2
  <2> QED
    BY <1>2, <2>1, <2>2 DEF OpenInv
<1>3. CASE S!Hangup(c)
  <2>1. /\ served[c].pc = "receive" /\ served' = [served EXCEPT ![c].pc = "leave"]
        /\ UNCHANGED <<accept, sExpired, at, step, client, checks, wire, open, report>>
    BY <1>3, HangupIs, Zenon
  <2>2. /\ served' \in [Numbers -> Connection] /\ served'[c].pc = "leave"
        /\ \A d \in Numbers \ {c} : served'[d] = served[d]
    BY <1>0, <2>1, ServedIs
  <2> QED
    BY <1>0, <1>1, <1>2, <2>1, <2>2 DEF Living
<1>4. CASE S!Count(c)
  <2>1. /\ served[c].pc = "receive"
        /\ served' = [served EXCEPT ![c].count = @ + 1, ![c].pc = "handle"]
        /\ UNCHANGED <<accept, sExpired, at, step, client, checks, wire, open, report>>
    BY <1>4, CountIs, Zenon
  <2>2. /\ served' \in [Numbers -> Connection] /\ served'[c].pc = "handle"
        /\ \A d \in Numbers \ {c} : served'[d] = served[d]
    <3>1. served[c] \in Connection
      BY <1>0
    <3> QED
      BY <1>0, <2>1, <3>1 DEF Connection
  <2> QED
    BY <1>0, <1>1, <1>2, <2>1, <2>2 DEF Living
<1>5. CASE S!Handle(c)
  <2>1. /\ served[c].pc = "handle" /\ Answering(c)
        /\ UNCHANGED <<accept, sExpired, at, step, client, checks, open, report>>
    BY <1>0, <1>5, HandleKeeps, Zenon
  <2>2. PICK out : wire' = [wire EXCEPT ![c] = out]
    BY <2>1, Zenon DEF Answering
  <2>3. wire' = [d \in Numbers |-> wire'[d]]
    BY <1>0, <2>2, WireIs, Zenon
  <2>4. /\ served' \in [Numbers -> Connection] /\ served'[c].pc \in {"receive", "leave"}
        /\ \A d \in Numbers \ {c} : served'[d] = served[d]
    BY <2>1, Zenon DEF Answering
  <2>5. served[c].pc \in Living /\ served'[c].pc \in Living
    BY <2>1, <2>4 DEF Living
  <2> QED
    BY <1>1, <1>2, <2>1, <2>3, <2>4, <2>5
<1>6. CASE S!Leave(c)
  <2>1. /\ served[c].pc = "leave" /\ served' = [served EXCEPT ![c].pc = "gone"]
        /\ open' = open - 1
        /\ UNCHANGED <<accept, sExpired, at, step, client, checks, wire, report>>
    BY <1>6, LeaveIs, Zenon
  <2>2. /\ served' \in [Numbers -> Connection] /\ served'[c].pc = "gone"
        /\ \A d \in Numbers \ {c} : served'[d] = served[d]
    BY <1>0, <2>1, ServedIs
  <2>3. Cardinality(Opened') = Cardinality(Opened) - 1 /\ Cardinality(Opened) # 0
    <3>1. served[c].pc \in Living /\ served'[c].pc \notin Living /\ c \in Opened
      BY <2>1, <2>2 DEF Living, Opened
    <3> QED
      BY <2>2, <3>1, OpenedIs
  <2>4. OpenInv'
    <3>1. \A d \in Numbers : Unopened(d)' => served'[d].pc = "none"
      BY <2>1, <2>2 DEF OpenInv, Unopened
    <3> QED
      BY <2>1, <2>3, <3>1 DEF OpenInv
  <2> QED
    BY <1>0, <1>1, <2>1, <2>2, <2>4
<1> QED
  BY <1>3, <1>4, <1>5, <1>6, Zenon DEF S!Serve

-----------------------------------------------------------------------------
(* The right adapter in time, step by step.                                *)
RightInv == BothInv /\ ScriptInv /\ ~accept /\ ~sExpired

LEMMA KnownFirst == Known(1) = Known(2)
BY KnownAre, Zenon

LEMMA DialFollows ==
    ASSUME RightInv, S!Dial
    PROVE  ScriptInv'
<1> USE DEF RightInv, BothInv
<1>1. at \in 1..11 /\ at \in Numbers /\ client = "dial" /\ step = 1
  <2>1. client = "dial"
    BY Zenon DEF S!Dial
  <2> QED
    BY <2>1 DEF SignalingType, Numbers
<1>2. /\ nonces' = nonces /\ nonces = Known(at)
      /\ \/ at = 1 /\ S!Record("handshake-rejected") /\ UNCHANGED <<open, served, wire>>
         \/ /\ at # 1 /\ client' = "send" /\ UNCHANGED <<at, step, checks, wire>>
            /\ served' = [served EXCEPT ![at].pc = "receive"]
  BY <1>1, DialIs, Zenon DEF ScriptInv
<1>3. served[at].pc = "none" /\ Fresh(at)
  BY <1>1 DEF OpenInv, ScriptInv, Unopened
<1>4. CASE at = 1 /\ S!Record("handshake-rejected") /\ UNCHANGED <<open, served, wire>>
  <2>1. /\ Len(checks') = at /\ at' = at + 1 /\ step' = 1 /\ client' = "dial"
        /\ checks'[at] = TRUE
    <3>1. "handshake-rejected" = Goal(at)
      BY <1>4, OriginsAre, Zenon
    <3>2. /\ Len(checks') = at /\ at' = at + 1 /\ step' = 1
          /\ client' \in {"dial", "settle"} /\ (client' = "settle" <=> at = 11)
          /\ checks'[at] = ("handshake-rejected" = Goal(at))
      BY <1>1, <1>4, RecordKeeps, Zenon DEF SignalingType
    <3>3. checks'[at] = TRUE
      BY <3>1, <3>2, Zenon
    <3> QED
      BY <1>4, <3>2, <3>3
  <2>2. \A i \in 1..Len(checks') : checks'[i] = TRUE
    BY <1>4, <2>1
  <2>3. \A c \in Numbers : c < at' => Past(c)'
    BY <1>1, <1>3, <1>4, <2>1 DEF Past, Fresh, Numbers
  <2>4. \A c \in Numbers : Unopened(c)' => Fresh(c)'
    BY <1>1, <1>4, <2>1 DEF ScriptInv, Unopened, Fresh, Numbers
  <2>5. nonces' = Known(at')
    BY <1>2, <1>4, <2>1, KnownFirst
  <2> QED
    BY <2>1, <2>2, <2>3, <2>4, <2>5 DEF ScriptInv
<1>5. CASE /\ at # 1 /\ client' = "send" /\ UNCHANGED <<at, step, checks, wire>>
           /\ served' = [served EXCEPT ![at].pc = "receive"]
  <2>1. /\ served'[at].pc = "receive" /\ served'[at].state = served[at].state
        /\ served'[at].count = served[at].count
        /\ \A d \in Numbers \ {at} : served'[d] = served[d]
    <3>1. "receive" \in ConnectionPc
      BY DEF ConnectionPc
    <3> QED
      BY <1>1, <1>5, <3>1, ServedIs DEF SignalingType
  <2>2. Sending(at)'
    <3>1. Ready(served'[at], at, 1) /\ served'[at].count = 0 /\ wire'[at] = <<>>
      BY <1>3, <1>5, <2>1 DEF Fresh, Ready
    <3>2. nonces' = Stored(at, 1)
      BY <1>2 DEF Stored
    <3> QED
      BY <1>1, <1>5, <2>1, <3>1, <3>2 DEF Sending
  <2>3. \A c \in Numbers : c < at' => Past(c)'
    BY <1>1, <1>5, <2>1 DEF ScriptInv, Past, Numbers
  <2>4. \A c \in Numbers : Unopened(c)' => Fresh(c)'
    BY <1>1, <1>5, <2>1 DEF ScriptInv, Unopened, Fresh, Numbers
  <2> QED
    BY <1>5, <2>2, <2>3, <2>4 DEF ScriptInv
<1> QED
  BY <1>2, <1>4, <1>5

LEMMA SendFollows ==
    ASSUME RightInv, S!Send
    PROVE  ScriptInv'
<1> USE DEF RightInv, BothInv
<1>1. /\ client = "send" /\ client' = "receive"
      /\ wire' = [wire EXCEPT ![at] = Req(Requests(at)[step])]
      /\ UNCHANGED <<accept, sExpired, at, step, checks, served, nonces, open, report>>
  BY SendIs, Zenon
<1>2. at \in Numbers /\ at \in 2..11
  BY <1>1 DEF SignalingType, Numbers
<1>3. /\ wire'[at] = Req(Requests(at)[step])
      /\ \A d \in Numbers \ {at} : wire'[d] = wire[d]
  BY <1>1, <1>2, WireIs, Zenon DEF SignalingType
<1>4. Sending(at)
  BY <1>1 DEF ScriptInv
<1>5. Waiting(at)'
  BY <1>1, <1>3, <1>4 DEF Sending, Waiting
<1>6. \A c \in Numbers : c < at' => Past(c)'
  BY <1>1, <1>2, <1>3 DEF ScriptInv, Past, Numbers
<1>7. \A c \in Numbers : Unopened(c)' => Fresh(c)'
  BY <1>1, <1>2, <1>3 DEF ScriptInv, Unopened, Fresh, Numbers
<1> QED
  BY <1>1, <1>5, <1>6, <1>7 DEF ScriptInv

LEMMA ReceiveFollows ==
    ASSUME RightInv, S!Receive
    PROVE  ScriptInv'
<1> USE DEF RightInv, BothInv
<1>1. /\ client = "receive" /\ UNCHANGED <<accept, sExpired, served, nonces, open, report>>
      /\ wire[at][1] = "response"
      /\ \/ /\ step < Len(Requests(at)) /\ step' = step + 1 /\ client' = "send"
            /\ wire' = [wire EXCEPT ![at] = <<>>] /\ UNCHANGED <<at, checks>>
         \/ /\ ~(step < Len(Requests(at))) /\ S!Record(wire[at][2])
            /\ wire' = [wire EXCEPT ![at] = Closed]
  BY ReceiveIs, Zenon
<1>2. at \in Numbers /\ at \in 2..11 /\ at \in 1..11 /\ Asked(at, step)
  BY <1>1 DEF SignalingType, Numbers
<1>3. Len(Requests(at)) \in Nat \ {0} /\ step \in 1..Len(Requests(at))
  BY <1>2, OriginsAre, Zenon DEF Asked
<1>4. Answered(at)
  <2>1. ~Waiting(at)
    <3>1. "request" # "response"
      OBVIOUS
    <3> QED
      BY <1>1, <3>1, MessagesAre, Zenon DEF Waiting
  <2> QED
    BY <1>1, <2>1 DEF ScriptInv
<1>5. CASE /\ step < Len(Requests(at)) /\ step' = step + 1 /\ client' = "send"
           /\ wire' = [wire EXCEPT ![at] = <<>>] /\ UNCHANGED <<at, checks>>
  <2>1. wire'[at] = <<>> /\ \A d \in Numbers \ {at} : wire'[d] = wire[d]
    BY <1>2, <1>5, WireIs, Zenon DEF SignalingType
  <2>2. /\ served[at].pc = "receive" /\ served[at].count = step
        /\ served[at].state = "authenticated" /\ served[at].role = Role(at)
        /\ nonces = Known(at + 1)
    BY <1>3, <1>4, <1>5 DEF Answered
  <2>3. Ready(served[at], at, step + 1) /\ nonces = Stored(at, step + 1)
    <3>1. step + 1 # 1
      BY <1>3
    <3> QED
      BY <2>2, <3>1, Zenon DEF Ready, Stored
  <2>4. Sending(at)'
    <3>1. step' - 1 = step
      BY <1>3, <1>5
    <3> QED
      BY <1>1, <1>5, <2>1, <2>2, <2>3, <3>1 DEF Sending
  <2>5. \A c \in Numbers : c < at' => Past(c)'
    BY <1>1, <1>2, <1>5, <2>1 DEF ScriptInv, Past, Numbers
  <2>6. \A c \in Numbers : Unopened(c)' => Fresh(c)'
    <3>1. ASSUME NEW c \in Numbers, Unopened(c)' PROVE Unopened(c) /\ c # at
      BY <1>2, <1>5, <3>1 DEF Unopened, Numbers
    <3>2. ASSUME NEW c \in Numbers, Fresh(c), c # at PROVE Fresh(c)'
      BY <1>1, <2>1, <3>2, Zenon DEF Fresh
    <3> QED
      BY <3>1, <3>2, Zenon DEF ScriptInv
  <2> QED
    BY <1>5, <2>4, <2>5, <2>6 DEF ScriptInv
<1>6. CASE /\ ~(step < Len(Requests(at))) /\ S!Record(wire[at][2])
           /\ wire' = [wire EXCEPT ![at] = Closed]
  <2>1. wire'[at] = Closed /\ \A d \in Numbers \ {at} : wire'[d] = wire[d]
    BY <1>2, <1>6, WireIs, Zenon DEF SignalingType
  <2>2. step = Len(Requests(at))
    BY <1>3, <1>6
  <2>3. wire[at][2] = Goal(at)
    <3>1. wire[at] = Resp(Expected(at, step)) /\ Expected(at, step) = Goal(at)
      BY <1>4, <2>2, Zenon DEF Answered, Expected, Goal
    <3> QED
      BY <3>1, MessagesAre, Zenon
  <2> DEFINE o == wire[at][2]
  <2>4. S!Record(o) /\ o = Goal(at)
    BY <1>6, <2>3
  <2> HIDE DEF o
  <2>5. /\ checks' \in Seq(BOOLEAN) /\ Len(checks') = at /\ at' = at + 1 /\ step' = 1
        /\ client' \in {"dial", "settle"} /\ (client' = "settle" <=> at = 11)
        /\ \A i \in 1..Len(checks) : checks'[i] = checks[i]
        /\ checks'[at] = (o = Goal(at))
    BY <1>2, <2>4, RecordKeeps, Zenon DEF SignalingType
  <2>6. checks'[at] = TRUE
    BY <2>4, <2>5, Zenon
  <2>7. \A i \in 1..Len(checks') : checks'[i] = TRUE
    <3>1. Len(checks) = at - 1 /\ \A i \in 1..Len(checks) : checks[i] = TRUE
      BY DEF SignalingType, ScriptInv
    <3> QED
      BY <1>2, <2>5, <2>6, <3>1
  <2>8. \A c \in Numbers : c < at' => Past(c)'
    <3>1. ASSUME NEW c \in Numbers, c = at PROVE Past(c)'
      BY <1>1, <1>4, <2>1, <3>1, Zenon DEF Past, Answered
    <3>2. ASSUME NEW c \in Numbers, Past(c), c # at PROVE Past(c)'
      BY <1>1, <2>1, <3>2, Zenon DEF Past
    <3>3. \A c \in Numbers : c < at' => c = at \/ c < at
      BY <1>2, <2>5 DEF Numbers
    <3> QED
      BY <1>2, <3>1, <3>2, <3>3, Zenon DEF ScriptInv
  <2>9. \A c \in Numbers : Unopened(c)' => Fresh(c)'
    <3>1. ASSUME NEW c \in Numbers, Unopened(c)' PROVE Unopened(c) /\ c # at
      BY <1>2, <2>5, <3>1 DEF Unopened, Numbers
    <3>2. ASSUME NEW c \in Numbers, Fresh(c), c # at PROVE Fresh(c)'
      BY <1>1, <2>1, <3>2, Zenon DEF Fresh
    <3> QED
      BY <3>1, <3>2, Zenon DEF ScriptInv
  <2>10. nonces' = Known(at')
    BY <1>1, <1>4, <2>5 DEF Answered
  <2> QED
    BY <2>5, <2>7, <2>8, <2>9, <2>10 DEF ScriptInv
<1> QED
  BY <1>1, <1>5, <1>6

LEMMA SettleFollows ==
    ASSUME RightInv, S!Settle
    PROVE  ScriptInv'
<1>1. /\ client = "settle" /\ client' = "reported"
      /\ UNCHANGED <<accept, sExpired, at, step, checks, wire, served, nonces, open>>
  BY SettleIs, Zenon
<1>2. at = 12
  BY <1>1 DEF RightInv, BothInv, SignalingType
<1> QED
  BY <1>1, <1>2 DEF RightInv, ScriptInv, Past, Unopened, Fresh, Numbers

(* A step of a goroutine leaves the other connections alone.                *)
LEMMA OthersFollow ==
    ASSUME RightInv, NEW c \in Numbers, UNCHANGED <<at, step, client, checks>>,
           \A d \in Numbers \ {c} : wire'[d] = wire[d] /\ served'[d] = served[d]
    PROVE  /\ c < at => (Past(c)' /\ nonces' = nonces => ScriptInv')
           /\ c = at /\ client = "receive" => (Waiting(c)' \/ Answered(c)' => ScriptInv')
<1> USE DEF RightInv
<1>1. \A d \in Numbers \ {c} : d < at => Past(d)'
  BY DEF ScriptInv, Past
<1>2. \A d \in Numbers \ {c} : Unopened(d)' => Fresh(d)'
  BY DEF ScriptInv, Unopened, Fresh
<1>3. ASSUME c < at, Past(c)', nonces' = nonces
      PROVE  ScriptInv'
  <2>0. at \in 1..12 /\ c \in 1..11 /\ at # c
    BY <1>3 DEF BothInv, SignalingType, Numbers
  <2>1. ASSUME client = "send" PROVE Sending(at)'
    <3>1. at \in Numbers \ {c}
      BY <2>0, <2>1 DEF BothInv, SignalingType, Numbers
    <3> QED
      BY <1>3, <2>1, <3>1 DEF ScriptInv, Sending
  <2>2. ASSUME client = "receive" PROVE Waiting(at)' \/ Answered(at)'
    <3>1. at \in Numbers \ {c}
      BY <2>0, <2>2 DEF BothInv, SignalingType, Numbers
    <3>2. wire'[at] = wire[at] /\ served'[at] = served[at]
      BY <3>1
    <3>3. Waiting(at) \/ Answered(at)
      BY <2>2 DEF ScriptInv
    <3>4. at' = at /\ step' = step /\ nonces' = nonces
      BY <1>3
    <3> QED
      BY <3>2, <3>3, <3>4, Zenon DEF Waiting, Answered
  <2>3. ~Unopened(c)'
    BY <1>3, <2>0 DEF Unopened
  <2>4. \A d \in Numbers : d < at' => Past(d)'
    BY <1>1, <1>3, Zenon
  <2>5. \A d \in Numbers : Unopened(d)' => Fresh(d)'
    BY <1>2, <2>3, Zenon
  <2> QED
    BY <1>3, <2>1, <2>2, <2>4, <2>5 DEF ScriptInv
<1>4. ASSUME c = at, client = "receive", Waiting(c)' \/ Answered(c)'
      PROVE  ScriptInv'
  <2>1. ~(c < at) /\ ~Unopened(c)'
    BY <1>4 DEF Unopened, Numbers
  <2>2. \A d \in Numbers : d < at' => Past(d)'
    BY <1>1, <2>1, Zenon
  <2>3. \A d \in Numbers : Unopened(d)' => Fresh(d)'
    BY <1>2, <2>1, Zenon
  <2>4. Waiting(at)' \/ Answered(at)'
    BY <1>4, Zenon DEF Waiting, Answered
  <2> QED
    BY <1>4, <2>2, <2>3, <2>4 DEF ScriptInv
<1> QED
  BY <1>3, <1>4

(* Where a connection is that its goroutine can still serve.                *)
LEMMA ServedWhere ==
    ASSUME RightInv, NEW c \in Numbers, served[c].pc \in Living
    PROVE  \/ c < at /\ Past(c)
           \/ c = at /\ client = "send" /\ wire[c] = <<>> /\ served[c].pc = "receive"
           \/ c = at /\ client = "receive" /\ (Waiting(c) \/ Answered(c))
<1> USE DEF RightInv, BothInv
<1>1. ~Unopened(c)
  BY DEF OpenInv, Living
<1>2. c < at \/ (c = at /\ client # "dial")
  BY <1>1 DEF SignalingType, Unopened, Numbers
<1>3. c = at => client \in {"dial", "send", "receive"}
  BY DEF SignalingType, Numbers, Signals
<1> QED
  BY <1>2, <1>3 DEF ScriptInv, Sending

LEMMA GoroutineFollows ==
    ASSUME PeersAssumption, RightInv, NEW c \in Numbers, S!Serve(c)
    PROVE  ScriptInv'
<1> USE DEF RightInv, BothInv
<1>0. /\ served \in [Numbers -> Connection] /\ wire = [d \in Numbers |-> wire[d]]
      /\ "leave" \in ConnectionPc /\ "gone" \in ConnectionPc
      /\ "receive" \in Living /\ "handle" \in Living /\ "leave" \in Living
  BY DEF SignalingType, ConnectionPc, Living
<1>m. "request" # "response" /\ "request" # "closed"
  OBVIOUS
<1>1. CASE S!Hangup(c)
  <2>1. /\ served[c].pc = "receive" /\ wire[c] = Closed
        /\ served' = [served EXCEPT ![c].pc = "leave"]
        /\ UNCHANGED <<at, step, client, checks, wire, nonces>>
    BY <1>1, HangupIs, Zenon
  <2>2. /\ served'[c].pc = "leave" /\ \A d \in Numbers \ {c} : served'[d] = served[d]
    BY <1>0, <2>1, ServedIs
  <2>3. c < at /\ Past(c)
    <3>1. Closed # <<>> /\ (\A r : Closed # Req(r)) /\ \A o : Closed # Resp(o)
      BY MessagesAre, Zenon
    <3> QED
      BY <1>0, <2>1, <3>1, ServedWhere, Zenon DEF Waiting, Answered
  <2>4. Past(c)'
    <3>1. served'[c].pc # "handle"
      BY <2>2
    <3> QED
      BY <2>1, <2>3, <3>1, Zenon DEF Past
  <2> QED
    BY <2>1, <2>2, <2>3, <2>4, OthersFollow
<1>2. CASE S!Count(c)
  <2>1. /\ served[c].pc = "receive" /\ wire[c] # <<>> /\ wire[c][1] = "request"
        /\ served' = [served EXCEPT ![c].count = @ + 1, ![c].pc = "handle"]
        /\ UNCHANGED <<at, step, client, checks, wire, nonces>>
    BY <1>2, CountIs, Zenon
  <2>2. /\ served'[c].pc = "handle" /\ served'[c].count = served[c].count + 1
        /\ served'[c].state = served[c].state /\ served'[c].role = served[c].role
        /\ \A d \in Numbers \ {c} : served'[d] = served[d]
    <3>1. served[c] \in Connection
      BY <1>0
    <3> QED
      BY <1>0, <2>1, <3>1 DEF Connection
  <2>3. c = at /\ client = "receive" /\ Waiting(c)
    <3>1. ~Past(c)
      BY <1>m, <2>1, MessagesAre, Zenon DEF Past
    <3>2. ~Answered(c)
      BY <1>m, <2>1, MessagesAre, Zenon DEF Answered
    <3> QED
      BY <1>0, <2>1, <3>1, <3>2, ServedWhere, Zenon
  <2>4. Waiting(c)'
    <3>1. served[c].count = step - 1
      BY <2>1, <2>3 DEF Waiting
    <3>2. step - 1 + 1 = step
      BY <2>3 DEF SignalingType, Asked
    <3>3. served'[c].count = step
      BY <2>2, <3>1, <3>2
    <3>4. Ready(served'[c], c, step)
      BY <2>2, <2>3, Zenon DEF Ready, Waiting
    <3> QED
      BY <2>1, <2>2, <2>3, <3>3, <3>4, Zenon DEF Waiting
  <2> QED
    BY <2>1, <2>2, <2>3, <2>4, OthersFollow
<1>3. CASE S!Handle(c)
  <2>1. /\ served[c].pc = "handle" /\ Answering(c)
        /\ UNCHANGED <<at, client, checks, step>>
    BY <1>0, <1>3, HandleKeeps, Zenon DEF S!Handle
  <2>2. c = at /\ client = "receive" /\ Waiting(c)
    <3>1. ~Past(c) /\ ~Answered(c) /\ served[c].pc # "receive"
      BY <2>1 DEF Past, Answered
    <3> QED
      BY <1>0, <2>1, <3>1, ServedWhere, Zenon
  <2>3. wire[c] = Req(Requests(c)[step]) /\ served[c].count = step /\ Ready(served[c], c, step)
        /\ nonces = Stored(c, step)
    BY <2>1, <2>2 DEF Waiting
  <2>4. c \in 2..11 /\ Asked(c, step)
    BY <2>2 DEF SignalingType, Numbers
  <2>5. Serves(c, step)
    BY <1>0, <1>3, <2>3, <2>4, ScriptAnswers, Zenon DEF Stored
  <2>6. PICK st, ro, where :
              /\ Answers(c, Expected(c, step), st, ro, where, Known(c + 1))
              /\ where \in {"receive", "leave"}
              /\ step # Len(Requests(c)) =>
                    where = "receive" /\ st = "authenticated" /\ ro = Role(c)
    BY <2>5, Zenon DEF Serves
  <2>7. /\ wire' = [wire EXCEPT ![c] = Resp(Expected(c, step))]
        /\ \A d \in Numbers \ {c} : served'[d] = served[d]
        /\ served'[c].pc = where /\ served'[c].state = st /\ served'[c].role = ro
        /\ served'[c].count = served[c].count /\ nonces' = Known(c + 1)
    BY <2>6, Zenon DEF Answers
  <2>8. /\ wire'[c] = Resp(Expected(c, step)) /\ \A d \in Numbers \ {c} : wire'[d] = wire[d]
    BY <1>0, <2>7, WireIs, Zenon
  <2>9. Answered(c)'
    <3>1. where # "handle"
      BY <2>6
    <3> QED
      BY <2>1, <2>3, <2>6, <2>7, <2>8, <3>1, Zenon DEF Answered
  <2> QED
    BY <2>1, <2>2, <2>7, <2>8, <2>9, OthersFollow
<1>4. CASE S!Leave(c)
  <2>1. /\ served[c].pc = "leave" /\ served' = [served EXCEPT ![c].pc = "gone"]
        /\ UNCHANGED <<at, step, client, checks, wire, nonces>>
    BY <1>4, LeaveIs, Zenon
  <2>2. /\ served'[c].pc = "gone" /\ \A d \in Numbers \ {c} : served'[d] = served[d]
    BY <1>0, <2>1, ServedIs
  <2>3. served'[c].pc # "handle" /\ served[c].pc # "receive" /\ served[c].pc # "handle"
    BY <2>1, <2>2
  <2>4. \/ c < at /\ Past(c)
        \/ c = at /\ client = "receive" /\ Answered(c)
    BY <1>0, <2>1, <2>3, ServedWhere, Zenon DEF Waiting
  <2>5. Past(c) => Past(c)'
    BY <2>1, <2>3, Zenon DEF Past
  <2>6. Answered(c) => Answered(c)'
    BY <2>1, <2>3, Zenon DEF Answered
  <2> QED
    BY <2>1, <2>2, <2>4, <2>5, <2>6, OthersFollow
<1> QED
  BY <1>1, <1>2, <1>3, <1>4, Zenon DEF S!Serve

-----------------------------------------------------------------------------
(* The self-test as a whole.                                               *)
LEMMA SignalingStarts == PeersAssumption /\ S!Init => SignalingInv
<1> SUFFICES ASSUME PeersAssumption, S!Init PROVE SignalingInv
  OBVIOUS
<1> DEFINE rest == [pc |-> "none", state |-> "pre-auth", role |-> "", count |-> 0]
           blank == [status |-> "none", open |-> 0]
<1>1. /\ accept \in AcceptForeign /\ sExpired = FALSE
      /\ at = 1 /\ step = 1 /\ client = "dial" /\ checks = <<>>
      /\ wire = [c \in Numbers |-> <<>>] /\ served = [c \in Numbers |-> rest]
      /\ nonces = {} /\ open = 0 /\ report = blank
  BY ChecksAre, Zenon DEF S!Init
<1>2. /\ rest \in Connection /\ rest.pc = "none" /\ rest.state = "pre-auth" /\ rest.count = 0
  BY DEF Connection, ConnectionPc, SessionState, RoleName
<1>3. blank.status = "none"
  OBVIOUS
<1> HIDE DEF rest, blank
<1>4. accept \in BOOLEAN
  BY <1>1 DEF PeersAssumption
<1>5. SignalingType
  <2>1. wire = [c \in Numbers |-> wire[c]]
    BY <1>1
  <2>2. served \in [Numbers -> Connection]
    BY <1>1, <1>2
  <2>3. checks \in Seq(BOOLEAN) /\ Len(checks) = at - 1
    BY <1>1
  <2>4. at = 1 /\ step = 1 /\ client = "dial" /\ sExpired = FALSE /\ report.status = "none"
    BY <1>1, <1>3, Zenon
  <2>5. accept \in BOOLEAN /\ sExpired \in BOOLEAN
    BY <1>4, <2>4, Zenon
  <2>6. at \in 1..12 /\ at # 12
    BY <2>4
  <2>7. /\ client \in Signals /\ client \notin {"settle", "reported"}
        /\ client \notin {"send", "receive"} /\ client # "reported"
    BY <2>4 DEF Signals
  <2>8. report.status \in {"none", "pass", "fail"} /\ report.status = "none"
    BY <2>4, Zenon
  <2> QED
    BY <2>1, <2>2, <2>3, <2>4, <2>5, <2>6, <2>7, <2>8, Zenon DEF SignalingType
<1>6. OpenInv
  <2>1. Opened = {} /\ Cardinality({}) = 0
    <3>1. Opened = {}
      BY <1>1, <1>2 DEF Opened, Living
    <3> QED
      BY <3>1, FS_EmptySet
  <2> QED
    BY <1>1, <1>2, <1>3, <2>1 DEF OpenInv
<1>7. ControlInv
  BY <1>1, <1>3 DEF ControlInv
<1>8. ScriptInv
  <2>1. nonces = Known(at)
    BY <1>1, KnownAre, Zenon
  <2>2. \A c \in Numbers : ~(c < at)
    BY <1>1 DEF Numbers
  <2>3. \A c \in Numbers : Fresh(c)
    BY <1>1, <1>2 DEF Fresh
  <2>4. \A i \in 1..Len(checks) : checks[i] = TRUE
    BY <1>1
  <2> QED
    BY <1>1, <2>1, <2>2, <2>3, <2>4 DEF ScriptInv
<1> QED
  BY <1>5, <1>6, <1>7, <1>8 DEF SignalingInv

LEMMA SignalingGoesOn == PeersAssumption /\ SignalingInv /\ [Next]_vars => SignalingInv'
<1> SUFFICES ASSUME PeersAssumption, SignalingInv, [Next]_vars PROVE SignalingInv'
  OBVIOUS
<1>1. CASE UNCHANGED signaling
  <2>1. UNCHANGED <<accept, sExpired, at, step, client, checks, wire, served, nonces, open, report>>
    BY <1>1, Zenon DEF signaling
  <2> QED
    BY <2>1 DEF SignalingInv, SignalingType, OpenInv, ControlInv, ScriptInv, Opened, Unopened,
                Past, Fresh, Sending, Waiting, Answered, Asked
<1>2. BothInv
  BY DEF SignalingInv, BothInv
<1>3. ASSUME BothInv', UNCHANGED <<accept, sExpired>>, RightInv => ScriptInv'
      PROVE  SignalingInv'
  BY <1>2, <1>3 DEF SignalingInv, BothInv, RightInv
<1>4. ASSUME S!Client PROVE SignalingInv'
  <2>1. CASE S!Dial
    BY <1>2, <1>3, <2>1, DialKeeps, DialFollows, Zenon DEF S!Dial
  <2>2. CASE S!Send
    BY <1>2, <1>3, <2>2, SendKeeps, SendFollows, Zenon DEF S!Send
  <2>3. CASE S!Receive
    BY <1>2, <1>3, <2>3, ReceiveKeeps, ReceiveFollows, Zenon DEF S!Receive
  <2>4. CASE S!Settle
    BY <1>2, <1>3, <2>4, SettleKeeps, SettleFollows, Zenon DEF S!Settle
  <2> QED
    BY <1>4, <2>1, <2>2, <2>3, <2>4, Zenon DEF S!Client
<1>5. ASSUME NEW c \in Numbers, S!Serve(c) PROVE SignalingInv'
  <2>1. UNCHANGED <<accept, sExpired>>
    BY <1>5, Zenon DEF S!Serve, S!Hangup, S!Count, S!Handle, S!Leave
  <2> QED
    BY <1>2, <1>3, <1>5, <2>1, GoroutineKeeps, GoroutineFollows, Zenon
<1>6. ASSUME S!Expire PROVE SignalingInv'
  <2>1. /\ sExpired' = TRUE
        /\ UNCHANGED <<accept, at, step, client, checks, wire, served, nonces, open, report>>
    BY <1>6, Zenon DEF S!Expire, S!adapter
  <2>2. BothInv'
    BY <1>2, <2>1 DEF BothInv, SignalingType, OpenInv, ControlInv, Opened, Unopened, Asked
  <2> QED
    BY <2>1, <2>2 DEF SignalingInv, BothInv
<1>7. \/ UNCHANGED signaling
      \/ S!Client
      \/ S!Expire
      \/ \E c \in Numbers : S!Serve(c)
  BY ChecksAre, Zenon DEF Next, vars, SignalingClient, SignalingServes, SignalingExpires,
                          CallRunner, CallGoroutine, CallLoses, CallExpires
<1> QED
  BY <1>1, <1>4, <1>5, <1>6, <1>7, Zenon

LEMMA VerdictFollows == SignalingInv => VerdictIsTheAdapters
<1> SUFFICES ASSUME SignalingInv PROVE VerdictIsTheAdapters
  OBVIOUS
<1> USE DEF SignalingInv
<1>1. accept /\ client = "reported" => report.status = "fail"
  BY DEF SignalingType, ControlInv
<1>2. ~accept /\ ~sExpired => \A i \in DOMAIN checks : checks[i]
  BY DEF SignalingType, ScriptInv
<1>3. {c \in DOMAIN S!Checks : served[c].pc \in {"receive", "handle", "leave"}} = Opened
  BY ChecksAre, Zenon DEF Opened, Living
<1>4. \A set : S!Cardinality(set) = Cardinality(set)
  BY Zenon DEF Cardinality, S!Cardinality, IsFiniteSet, S!IsFiniteSet
<1>5. open = Cardinality(Opened) /\ (report.status = "pass" => open = 0)
  BY DEF OpenInv
<1> QED
  BY <1>1, <1>2, <1>3, <1>4, <1>5, Zenon
     DEF VerdictIsTheAdapters, S!VerdictIsTheAdapters, S!PassMeansDisconnected

(* The verdict of the signaling self-test is the adapter's: within the      *)
(* deadline the adapter that refuses a foreign origin passes every one of  *)
(* the eleven checks, however late the goroutines of earlier connections   *)
(* end, and the one that admits it never passes.  The counter of open      *)
(* connections is the number of goroutines that serve one, and a report    *)
(* says pass only when there is none.                                       *)
THEOREM VerdictStaysTheAdapters == FairSpec => []VerdictIsTheAdapters
<1>1. Init => SignalingInv
  BY SignalingStarts, PeersAssumption DEF Init
<1>2. SignalingInv /\ [Next]_vars => SignalingInv'
  BY SignalingGoesOn, PeersAssumption
<1>3. SignalingInv => VerdictIsTheAdapters
  BY VerdictFollows
<1> QED
  BY <1>1, <1>2, <1>3, PTL DEF FairSpec
=============================================================================
