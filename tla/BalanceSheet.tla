---------------------------- MODULE BalanceSheet ----------------------------
(***************************************************************************)
(* The balance sheet of a ZeroUnderwriterLock                              *)
(* (contracts/underwriter/ZeroUnderwriterLock.sol, ZeroLib.BalanceSheet):  *)
(* what the lock of an underwriter has lent, what was repaid through it    *)
(* and the reserve ratio it should hold.  These are the pure operators;    *)
(* the controller calls them when it lends and when it is repaid.          *)
(*                                                                         *)
(* Amounts are natural numbers; Unit stands for the 1 ether of the code's  *)
(* fixed-point arithmetic and LockWord for 2^128, the width of the first   *)
(* two fields.                                                             *)
(***************************************************************************)
EXTENDS Integers

CONSTANTS
    Unit,       \* the fixed-point scale, 1 ether in the code
    LockWord    \* 2^128: loaned and required are uint128

ASSUME SheetAssumption ==
    /\ Unit \in Nat \ {0}
    /\ LockWord \in Nat \ {0}

Word == 0 .. (LockWord - 1)

Sheet == [loaned : Word, required : Word, repaid : Nat]

EmptySheet == [loaned |-> 0, required |-> 0, repaid |-> 0]

\* Debt of the lock, never negative: over-repayment counts as no debt.
Owed(s) == IF s.loaned >= s.repaid THEN s.loaned - s.repaid ELSE 0

\* The required ratio turned back into an amount.
Adjusted(s) == (s.required * Owed(s)) \div Unit

(***************************************************************************)
(* trackOut(module, amount): reserve is the module's                       *)
(* computeReserveRequirement(amount).  The division by the new debt        *)
(* reverts when there is none.                                             *)
(***************************************************************************)
\* Bug variant: the debt is accumulated instead of the loans.
TrackOutOnDebt(s, amount, reserve) ==
    [s EXCEPT !.loaned = (Owed(s) + amount) % LockWord]

TrackOutDefined(s, amount) == Owed(s) + amount > 0

TrackOut(s, amount, reserve) ==
    [s EXCEPT !.loaned   = (@ + amount) % LockWord,
              !.required = (Adjusted(s) + (reserve * Unit) \div (Owed(s) + amount))
                               % LockWord]

(***************************************************************************)
(* trackIn(amount).  When the amount pays exactly what is owed and the     *)
(* adjusted requirement is not below it, the code divides by zero and      *)
(* reverts.                                                                *)
(***************************************************************************)
Covers(s, amount) == Owed(s) < amount \/ Adjusted(s) < amount

TrackInDefined(s, amount) == Covers(s, amount) \/ Owed(s) > amount

TrackIn(s, amount) ==
    [s EXCEPT !.required = IF Covers(s, amount) THEN 0
                           ELSE (((Adjusted(s) - amount) * Unit) \div (Owed(s) - amount))
                                    % LockWord,
              !.repaid   = @ + amount]
=============================================================================
