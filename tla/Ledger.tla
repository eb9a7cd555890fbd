------------------------------- MODULE Ledger -------------------------------
(***************************************************************************)
(* What the wallet service promises: "Balance mutations are modeled as     *)
(* transactional ledger movements" (README.md).  An operation moves all    *)
(* its legs at once, over active users' wallets, or it does nothing; no    *)
(* part of a wallet ever falls below zero.                                 *)
(***************************************************************************)
EXTENDS Movements

VARIABLES accounts, active

ledgerVars == <<accounts, active>>

LedgerInit ==
  /\ accounts = Opening
  /\ active = [u \in Users |-> TRUE]

(* The wallets after all the legs of an operation. *)
AfterAll(op) ==
  [w \in Wallets |->
     FoldLeft(LAMBDA account, leg : IF leg.wallet = w THEN Moved(account, leg)
                                    ELSE account,
              accounts[w], op.legs)]

(* One operation; one that changes nothing is a stuttering step. *)
Move ==
  \E op \in Asked :
    /\ accounts' # accounts
    /\ \A u \in Range(op.users) : active[u]
    /\ accounts' = AfterAll(op)
    /\ \A w \in Wallets : accounts'[w].available >= 0 /\ accounts'[w].locked >= 0
    /\ UNCHANGED active

(* An operator freezes or closes the account of a user, or reopens it. *)
SetStatus ==
  \E u \in Users :
    /\ active' = [active EXCEPT ![u] = ~@]
    /\ UNCHANGED accounts

LedgerSpec == LedgerInit /\ [][Move \/ SetStatus]_ledgerVars
=============================================================================
