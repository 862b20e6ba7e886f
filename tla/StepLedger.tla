----------------------------- MODULE StepLedger -----------------------------
(***************************************************************************)
(* What the dispatch layer promises, without clocks, processes or SQL: a    *)
(* step is granted to one worker at a time, every grant opens a new epoch,  *)
(* and only the worker that holds the grant of the current epoch can commit *)
(* a result for it, once.  A grant may be withdrawn without a result, and a *)
(* later grant may supersede one that is still open.                        *)
(*                                                                         *)
(* This is the contract of worker_agent/dispatch/base.py (claim, complete,  *)
(* release); StepDispatch implements it with a PostgreSQL table.            *)
(***************************************************************************)
EXTENDS Naturals, Sequences

CONSTANTS
  Worker,   \* worker identities (WORKER_ID)
  Step,     \* step identities
  NoOne     \* "nobody holds the step"

VARIABLES
  holder,   \* holder[s]: the worker the current epoch of s is granted to
  epoch,    \* epoch[s]: how many grants s has had
  ledger    \* ledger[s]: the committed results of s, oldest first

ledgerVars == <<holder, epoch, ledger>>

Entry == [epoch : Nat, by : Worker]

LedgerInit ==
  /\ holder = [s \in Step |-> NoOne]
  /\ epoch  = [s \in Step |-> 0]
  /\ ledger = [s \in Step |-> <<>>]

\* A new epoch of s is granted to w, whoever held the one before.
Grant(s, w) ==
  /\ holder' = [holder EXCEPT ![s] = w]
  /\ epoch'  = [epoch EXCEPT ![s] = epoch[s] + 1]
  /\ UNCHANGED ledger

\* The holder commits the result of the current epoch and gives the step up.
Commit(s, w) ==
  /\ holder[s] = w
  /\ ledger' = [ledger EXCEPT ![s] =
                  Append(ledger[s], [epoch |-> epoch[s], by |-> w])]
  /\ holder' = [holder EXCEPT ![s] = NoOne]
  /\ UNCHANGED epoch

\* The grant ends without a result.
Withdraw(s) ==
  /\ holder' = [holder EXCEPT ![s] = NoOne]
  /\ UNCHANGED <<epoch, ledger>>

LedgerNext ==
  \E s \in Step :
    \/ \E w \in Worker : Grant(s, w) \/ Commit(s, w)
    \/ Withdraw(s)

LedgerSpec == LedgerInit /\ [][LedgerNext]_ledgerVars
=============================================================================
