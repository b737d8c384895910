------------------------------ MODULE MCLiveMcp ------------------------------
(* Small instances of LiveMcp.                                             *)
EXTENDS LiveMcp, TLC

CONSTANTS r1, r2, r3, s1, s2, probe, reissued, look, k1, k2

(* "probe" is a preflight grant, "reissued" a one-call grant that repeats  *)
(* its nonce, "look" a prepare grant with a nonce of its own.              *)
MCKeyOf == probe :> k1 @@ reissued :> k1 @@ look :> k2
MCActionOf == probe :> "preflight_target" @@ reissued :> "execute_one_call"
              @@ look :> "prepare_assessment"
MCNotBefore == probe :> 2 @@ reissued :> 0 @@ look :> 1
MCExpiresAt == probe :> 3 @@ reissued :> 2 @@ look :> 3

(* Two calls, each in a server of its own.                                 *)
MCHostApart == r1 :> s1 @@ r2 :> s2

(* Three calls: r1 and r3 compete for one gate, r2 comes from elsewhere.   *)
MCHostShared == r1 :> s1 @@ r2 :> s2 @@ r3 :> s1
MCCallKeyOf == probe :> k1 @@ reissued :> k1
MCCallActionOf == probe :> "execute_one_call" @@ reissued :> "execute_one_call"
MCCallNotBefore == probe :> 0 @@ reissued :> 0
MCCallExpiresAt == probe :> 1 @@ reissued :> 1
=============================================================================
