-------------------------- MODULE AuthorityLedger --------------------------
(***************************************************************************)
(* What a signed live-MCP capability promises, with none of the machinery  *)
(* that keeps the promise: the authority named by an (issuer, nonce) pair  *)
(* is spent at most once, by one request, and only the request that spent  *)
(* it may turn it into network traffic, at most once.                      *)
(* LiveMcp is shown to implement this module.                              *)
(***************************************************************************)
CONSTANTS Key,      \* the (issuer, nonce) pairs a grant can name
          Request,  \* the tool calls clients make
          NoRequest \* no request has spent the key yet

VARIABLES holder,   \* holder[k]: the request that spent k, or NoRequest
          uses      \* uses[k]: the requests that sent traffic on k's authority

ledgerVars == <<holder, uses>>

LedgerInit ==
    /\ holder = [k \in Key |-> NoRequest]
    /\ uses = [k \in Key |-> {}]

Spend(k, r) ==
    /\ holder[k] = NoRequest
    /\ holder' = [holder EXCEPT ![k] = r]
    /\ UNCHANGED uses

Use(k) ==
    /\ holder[k] # NoRequest
    /\ uses[k] = {}
    /\ uses' = [uses EXCEPT ![k] = {holder[k]}]
    /\ UNCHANGED holder

LedgerNext == \E k \in Key : Use(k) \/ \E r \in Request : Spend(k, r)

LedgerSpec == LedgerInit /\ [][LedgerNext]_ledgerVars
=============================================================================
