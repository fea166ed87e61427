----------------------- MODULE ZeroController_accounts -----------------------
(***************************************************************************)
(* The accounts of the loan desk balance, for every set of modules,        *)
(* underwriters, executors and deposits: what the modules hold covers      *)
(* their records, a quick module never lends past its capacity, and the    *)
(* locks carry exactly what was lent and what was paid back.               *)
(***************************************************************************)
EXTENDS ZeroController_proofs, FiniteSums

-----------------------------------------------------------------------------
(* Records.  A record set anew moves what a module's records add up to by  *)
(* the difference, and no other module's.                                  *)

LEMMA QuantitiesNat ==
    ASSUME TypeOK, NEW m \in Modules
    PROVE  \A n \in Nonces : Quantities(m)[n] \in Nat
  BY RecordType DEF Quantities

LEMMA RecordedNat ==
    ASSUME TypeOK, NEW m \in Modules
    PROVE  Recorded(m) \in Nat
  BY QuantitiesNat, SumNat, DeskAssumption DEF Recorded

LEMMA RecordMoves ==
    ASSUME TypeOK, TypeOK', NEW m \in Modules, NEW n \in Nonces, NEW rec \in Record,
           SetRecord(m, n, rec)
    PROVE  /\ Recorded(m)' + outstanding[m][n].qty = Recorded(m) + rec.qty
           /\ \A k \in Modules : k # m => Recorded(k)' = Recorded(k)
<1>1. \A k \in Modules : \A i \in Nonces : Quantities(k)[i] \in Nat /\ Quantities(k)'[i] \in Nat
  <2>1. \A k \in Modules, i \in Nonces :
           outstanding[k][i].qty \in Nat /\ outstanding'[k][i].qty \in Nat
    BY DEF TypeOK, Record
  <2> QED BY <2>1 DEF Quantities
<1>2. /\ outstanding'[m][n] = rec
      /\ \A k \in Modules, i \in Nonces :
           (k # m \/ i # n) => outstanding'[k][i] = outstanding[k][i]
  BY SetRecordEffect
<1>3. IsFiniteSet(Nonces)
  BY DeskAssumption
<1>4. Recorded(m)' + outstanding[m][n].qty = Recorded(m) + rec.qty
  <2> DEFINE old == Quantities(m)
             new == Quantities(m)'
  <2>1. \A i \in Nonces : old[i] \in Nat /\ new[i] \in Nat
    BY <1>1
  <2>2. \A i \in Nonces \ {n} : old[i] = new[i]
    BY <1>2 DEF Quantities
  <2>3. old[n] = outstanding[m][n].qty /\ new[n] = rec.qty
    BY <1>2 DEF Quantities
  <2>4. /\ Recorded(m) = SumFunctionOnSet(old, Nonces)
        /\ Recorded(m)' = SumFunctionOnSet(new, Nonces)
    BY DEF Recorded
  <2> HIDE DEF old, new
  <2>5. SumFunctionOnSet(new, Nonces) + old[n] = SumFunctionOnSet(old, Nonces) + new[n]
    BY <1>3, <2>1, <2>2, SumChange
  <2> QED BY <2>3, <2>4, <2>5
<1>5. ASSUME NEW k \in Modules, k # m
      PROVE  Recorded(k)' = Recorded(k)
  <2> DEFINE old == Quantities(k)
             new == Quantities(k)'
  <2>1. \A i \in Nonces : new[i] = old[i]
    BY <1>2, <1>5 DEF Quantities
  <2>2. /\ Recorded(k) = SumFunctionOnSet(old, Nonces)
        /\ Recorded(k)' = SumFunctionOnSet(new, Nonces)
    BY DEF Recorded
  <2> HIDE DEF old, new
  <2> QED BY <1>3, <2>1, <2>2, SumSame
<1> QED BY <1>4, <1>5

-----------------------------------------------------------------------------
(* Custody.  Both invariants are inductive together with TypeOK.           *)

CustodyInv == ModuleCustody /\ CapacityBounded

\* A step that moves one converting module's record and tokens together, or
\* takes at least as much off a quick module's capacity as its record grows by.
LEMMA OneRecordMoves ==
    ASSUME TypeOK, TypeOK', CustodyInv, NEW m \in Modules, NEW n \in Nonces,
           NEW rec \in Record, SetRecord(m, n, rec),
           m \in Modules \ QuickModules =>
              /\ held'[m] + outstanding[m][n].qty >= held[m] + rec.qty
              /\ \A k \in Modules : k # m => held'[k] = held[k]
              /\ UNCHANGED capacity,
           m \in QuickModules =>
              /\ capacity'[m] + rec.qty <= capacity[m] + outstanding[m][n].qty
              /\ \A k \in QuickModules : k # m => capacity'[k] = capacity[k]
              /\ UNCHANGED held
    PROVE  CustodyInv'
<1>1. /\ Recorded(m)' + outstanding[m][n].qty = Recorded(m) + rec.qty
      /\ \A k \in Modules : k # m => Recorded(k)' = Recorded(k)
  BY RecordMoves
<1>2. \A k \in Modules : Recorded(k) \in Nat
  BY RecordedNat
<1>3. Recorded(m)' \in Nat
  <2>1. \A i \in Nonces : Quantities(m)'[i] \in Nat
    BY DEF Quantities, TypeOK, Record
  <2>2. SumFunctionOnSet(Quantities(m)', Nonces) \in Nat
    BY <2>1, SumNat, DeskAssumption
  <2> QED BY <2>2 DEF Recorded
<1>4. outstanding[m][n].qty \in Nat /\ rec.qty \in Nat
  BY RecordType DEF Record
<1>5. /\ \A k \in Modules : held[k] \in Nat /\ held'[k] \in Nat
      /\ \A k \in QuickModules : capacity[k] \in Nat /\ capacity'[k] \in Nat
      /\ Capacity \in Nat /\ QuickModules \subseteq Modules
  BY DeskAssumption DEF TypeOK
<1>6. ASSUME NEW k \in Modules \ QuickModules
      PROVE  held'[k] >= Recorded(k)'
  <2>1. held[k] >= Recorded(k)
    BY DEF CustodyInv, ModuleCustody
  <2>2. CASE k = m
    BY <1>1, <1>2, <1>3, <1>4, <1>5, <2>1, <2>2
  <2>3. CASE k # m
    <3>1. held'[k] = held[k]
      BY <2>3
    <3> QED BY <1>1, <2>1, <2>3, <3>1
  <2> QED BY <2>2, <2>3
<1>7. ASSUME NEW k \in QuickModules
      PROVE  capacity'[k] + Recorded(k)' <= Capacity
  <2>1. capacity[k] + Recorded(k) <= Capacity
    BY DEF CustodyInv, CapacityBounded
  <2>2. CASE k = m
    BY <1>1, <1>2, <1>3, <1>4, <1>5, <2>1, <2>2
  <2>3. CASE k # m
    <3>1. capacity'[k] = capacity[k]
      BY <2>3
    <3> QED BY <1>1, <1>5, <2>1, <2>3, <3>1
  <2> QED BY <2>2, <2>3
<1> QED BY <1>6, <1>7 DEF CustodyInv, ModuleCustody, CapacityBounded

LEMMA LoanKeepsCustody ==
    ASSUME TypeOK, TypeOK', CustodyInv, NEW r \in Requests, NEW u \in Underwriters, Loan(r, u)
    PROVE  CustodyInv'
<1>1. PICK sent \in Nat : ReceiveLoan(r, sent) \/ QuickReceiveLoan(r, sent)
  BY LoanParts
<1>2. r.module \in Modules /\ r.nonce \in Nonces
  BY RequestType
<1>3. outstanding[r.module][r.nonce].qty \in Nat
  BY <1>2, RecordType
<1>4. CASE ReceiveLoan(r, sent)
  <2>1. PICK loss \in Slippages :
            /\ loss <= sent
            /\ SetRecord(r.module, r.nonce,
                         [qty |-> sent - loss, when |-> BlockTimestamp(block)])
            /\ held' = [held EXCEPT ![r.module] = @ + (sent - loss)]
    BY <1>4 DEF ReceiveLoan
  <2>2. sent - loss \in Nat
    BY <1>1, <2>1, DeskAssumption
  <2> DEFINE rec == [qty |-> sent - loss, when |-> BlockTimestamp(block)]
  <2>3. rec \in Record /\ rec.qty = sent - loss
    BY <2>2, TimestampNat DEF Record
  <2>4. /\ held'[r.module] + outstanding[r.module][r.nonce].qty >= held[r.module] + rec.qty
        /\ \A k \in Modules : k # r.module => held'[k] = held[k]
    BY <1>2, <1>3, <2>1, <2>2, <2>3 DEF TypeOK
  <2>5. UNCHANGED capacity /\ r.module \notin QuickModules
    BY <1>4 DEF ReceiveLoan
  <2> HIDE DEF rec
  <2> QED BY <1>2, <2>1, <2>3, <2>4, <2>5, OneRecordMoves DEF rec
<1>5. CASE QuickReceiveLoan(r, sent)
  <2> DEFINE rec == [qty |-> sent, when |-> block]
  <2>1. /\ r.module \in QuickModules /\ capacity[r.module] >= sent
        /\ SetRecord(r.module, r.nonce, rec)
        /\ capacity' = [capacity EXCEPT ![r.module] = @ - sent]
        /\ UNCHANGED held
    BY <1>5 DEF QuickReceiveLoan
  <2>2. rec \in Record /\ rec.qty = sent
    BY <1>1 DEF Record, TypeOK
  <2>3. /\ capacity'[r.module] + rec.qty
             <= capacity[r.module] + outstanding[r.module][r.nonce].qty
        /\ \A k \in QuickModules : k # r.module => capacity'[k] = capacity[k]
    BY <1>1, <1>3, <2>1, <2>2 DEF TypeOK
  <2> HIDE DEF rec
  <2> QED BY <1>2, <2>1, <2>2, <2>3, OneRecordMoves
<1> QED BY <1>1, <1>4, <1>5

LEMMA RepayKeepsCustody ==
    ASSUME TypeOK, TypeOK', CustodyInv, NEW caller \in Underwriters, NEW u \in Underwriters,
           NEW r \in Requests, NEW dep \in deposits, Repay(caller, r, u, dep)
    PROVE  CustodyInv'
<1>1. r.module \in Modules /\ r.nonce \in Nonces
  BY RequestType
<1>2. outstanding[r.module][r.nonce].qty \in Nat
  BY <1>1, RecordType
<1>3. NoRecord \in Record /\ NoRecord.qty = 0
  BY NoRecordType DEF NoRecord
<1>4. CASE RepayLoan(r)
  <2>1. /\ r.module \notin QuickModules
        /\ held[r.module] >= outstanding[r.module][r.nonce].qty
        /\ held' = [held EXCEPT ![r.module] = @ - outstanding[r.module][r.nonce].qty]
        /\ SetRecord(r.module, r.nonce, NoRecord)
        /\ UNCHANGED capacity
    BY <1>4 DEF RepayLoan
  <2>2. /\ held'[r.module] + outstanding[r.module][r.nonce].qty >= held[r.module] + NoRecord.qty
        /\ \A k \in Modules : k # r.module => held'[k] = held[k]
    BY <1>1, <1>2, <1>3, <2>1 DEF TypeOK
  <2> QED BY <1>1, <1>3, <2>1, <2>2, OneRecordMoves
<1>5. CASE QuickRepayLoan(r)
  <2>1. /\ r.module \in QuickModules
        /\ capacity' = [capacity EXCEPT ![r.module] = @ + outstanding[r.module][r.nonce].qty]
        /\ SetRecord(r.module, r.nonce, NoRecord)
        /\ UNCHANGED held
    BY <1>5 DEF QuickRepayLoan
  <2>2. /\ capacity'[r.module] + NoRecord.qty
             <= capacity[r.module] + outstanding[r.module][r.nonce].qty
        /\ \A k \in QuickModules : k # r.module => capacity'[k] = capacity[k]
    BY <1>1, <1>2, <1>3, <2>1 DEF TypeOK
  <2> QED BY <1>1, <1>3, <2>1, <2>2, OneRecordMoves
<1> QED BY <1>4, <1>5 DEF Repay

LEMMA DefaultKeepsCustody ==
    ASSUME TypeOK, TypeOK', CustodyInv, NEW m \in Modules, NEW n \in Nonces,
           \/ m \in Modules \ QuickModules /\ DefaultLoan(m, n)
           \/ m \in QuickModules /\ QuickDefaultLoan(m, n)
    PROVE  CustodyInv'
<1>1. outstanding[m][n].qty \in Nat
  BY RecordType
<1>2. NoRecord \in Record /\ NoRecord.qty = 0
  BY NoRecordType DEF NoRecord
<1>3. CASE m \in Modules \ QuickModules /\ DefaultLoan(m, n)
  <2>1. /\ held[m] >= outstanding[m][n].qty
        /\ held' = [held EXCEPT ![m] = @ - outstanding[m][n].qty]
        /\ SetRecord(m, n, NoRecord)
        /\ UNCHANGED capacity
    BY <1>3 DEF DefaultLoan
  <2>2. /\ held'[m] + outstanding[m][n].qty >= held[m] + NoRecord.qty
        /\ \A k \in Modules : k # m => held'[k] = held[k]
    BY <1>1, <1>2, <2>1 DEF TypeOK
  <2> QED BY <1>2, <1>3, <2>1, <2>2, OneRecordMoves
<1>4. CASE m \in QuickModules /\ QuickDefaultLoan(m, n)
  <2>1. /\ capacity[m] >= outstanding[m][n].qty
        /\ capacity' = [capacity EXCEPT ![m] = @ - outstanding[m][n].qty]
        /\ SetRecord(m, n, NoRecord)
        /\ UNCHANGED held
    BY <1>4 DEF QuickDefaultLoan
  <2>2. /\ capacity'[m] + NoRecord.qty <= capacity[m] + outstanding[m][n].qty
        /\ \A k \in QuickModules : k # m => capacity'[k] = capacity[k]
    BY <1>1, <1>2, <1>4, <2>1 DEF TypeOK
  <2> QED BY <1>2, <1>4, <2>1, <2>2, OneRecordMoves
<1> QED BY <1>3, <1>4

LEMMA CustodyInit == Init => CustodyInv
<1> SUFFICES ASSUME Init PROVE CustodyInv
  OBVIOUS
<1>1. \A m \in Modules : \A n \in Nonces : Quantities(m)[n] = 0
  BY DEF Init, Quantities, NoRecord
<1>2. \A m \in Modules : Recorded(m) = 0
  BY <1>1, SumZero, DeskAssumption DEF Recorded
<1> QED BY <1>2, DeskAssumption DEF Init, CustodyInv, ModuleCustody, CapacityBounded

LEMMA CustodyStep == TypeOK /\ TypeOK' /\ CustodyInv /\ [Next]_vars => CustodyInv'
<1> SUFFICES ASSUME TypeOK, TypeOK', CustodyInv, [Next]_vars PROVE CustodyInv'
  OBVIOUS
<1>1. CASE \E r \in Requests, u \in Underwriters : Loan(r, u)
  BY <1>1, LoanKeepsCustody
<1>2. CASE \E caller, u \in Underwriters, r \in Requests, dep \in deposits :
              Repay(caller, r, u, dep)
  BY <1>2, RepayKeepsCustody
<1>3. CASE \E m \in Modules \ QuickModules, n \in Nonces : DefaultLoan(m, n)
  BY <1>3, DefaultKeepsCustody
<1>4. CASE \E m \in QuickModules, n \in Nonces : QuickDefaultLoan(m, n)
  BY <1>4, DefaultKeepsCustody, DeskAssumption
<1>5. CASE UNCHANGED <<outstanding, held, capacity>>
  BY <1>5 DEF CustodyInv, ModuleCustody, CapacityBounded, Recorded, Quantities
<1> QED
  BY <1>1, <1>2, <1>3, <1>4, <1>5
     DEF Next, vars, Mint, ApproveModule, SetFee, SetBaseFeeByAsset, SetGasParameters,
         SetParams, FallbackMint, Meta, Burn, Earn, Deposit, MineBlock

\* A converting module holds at least what its records promise, whatever
\* records reused nonces overwrite: repayLoan and defaultLoan never fail for
\* want of tokens.
THEOREM ModulesKeepCustody == Spec => []ModuleCustody
<1>1. CustodyInv => ModuleCustody
  BY DEF CustodyInv
<1> QED
  BY <1>1, TypeInit, TypeStep, CustodyInit, CustodyStep, PTL DEF Spec

\* A quick module's capacity and what it has out never exceed its limit
\* together, whatever repayments, defaults and reused nonces come.
THEOREM CapacityIsBounded == Spec => []CapacityBounded
<1>1. CustodyInv => CapacityBounded
  BY DEF CustodyInv
<1> QED
  BY <1>1, TypeInit, TypeStep, CustodyInit, CustodyStep, PTL DEF Spec

-----------------------------------------------------------------------------
(* What was lent.  The loans of an underwriter are finitely many, one more *)
(* with every loan, and no other call changes them.                        *)

LentInv ==
    /\ \A u \in Underwriters : IsFiniteSet(LentBy(u))
    /\ SheetMatchesLoans

TrackedAmounts == [d \in Digests |-> Tracked(d.amount)]

LEMMA TrackedAmountsNat == \A d \in Digests : TrackedAmounts[d] \in Nat
<1> SUFFICES ASSUME NEW d \in Digests PROVE TrackedAmounts[d] \in Nat
  OBVIOUS
<1>1. d.amount \in Nat
  BY RequestType DEF Digests, Digest
<1> QED BY <1>1, TrackedNat DEF TrackedAmounts

\* The loans of every underwriter and what their locks have out are the same.
LEMMA LentStays ==
    ASSUME LentInv, \A u \in Underwriters : sheet'[u].loaned = sheet[u].loaned,
           \A u \in Underwriters : LentBy(u)' = LentBy(u)
    PROVE  LentInv'
  BY DEF LentInv, SheetMatchesLoans

LEMMA LoanKeepsLent ==
    ASSUME TypeOK, LentInv, NEW r \in Requests, NEW u \in Underwriters, Loan(r, u)
    PROVE  LentInv'
<1> DEFINE d == Digest(r, u)
           amount == Tracked(r.amount)
           reserve == ReserveRequirement(r.module, amount)
<1>1. d \in Digests /\ d.amount = r.amount
  BY DigestInDigests DEF Digest
<1>2. /\ loanStatus'[d] = [underwriter |-> u, status |-> "UNPAID"]
      /\ \A e \in Digests : e # d => loanStatus'[e] = loanStatus[e]
      /\ loanStatus[d].status = "UNINITIALIZED"
  BY <1>1 DEF Loan, TypeOK
<1>3. LentBy(u)' = LentBy(u) \union {d} /\ d \notin LentBy(u)
  <2>1. \A e \in Digests : e # d => (e \in LentBy(u)' <=> e \in LentBy(u))
    BY <1>2 DEF LentBy, Unpaid
  <2>2. d \in LentBy(u)' /\ d \notin LentBy(u)
    BY <1>1, <1>2 DEF LentBy, Unpaid
  <2>3. LentBy(u) \subseteq Digests /\ LentBy(u)' \subseteq Digests
    BY DEF LentBy
  <2> QED BY <2>1, <2>2, <2>3
<1>4. ASSUME NEW v \in Underwriters, v # u
      PROVE  LentBy(v)' = LentBy(v) /\ sheet'[v] = sheet[v]
  <2>1. \A e \in Digests : e \in LentBy(v)' <=> e \in LentBy(v)
    BY <1>1, <1>2, <1>4 DEF LentBy, Unpaid
  <2>2. LentBy(v) \subseteq Digests /\ LentBy(v)' \subseteq Digests
    BY DEF LentBy
  <2> QED BY <1>4, <2>1, <2>2 DEF Loan, TypeOK
<1>5. sheet'[u].loaned = (sheet[u].loaned + amount) % LockWord
  <2>1. sheet[u] \in Sheet
    BY DEF TypeOK
  <2>2. sheet'[u] = TrackOut(sheet[u], amount, reserve)
    BY DEF Loan, TypeOK
  <2> QED BY <2>1, <2>2 DEF TrackOut, Sheet
<1> DEFINE sum == SumFunctionOnSet(TrackedAmounts, LentBy(u))
           sumNext == SumFunctionOnSet(TrackedAmounts, LentBy(u) \union {d})
<1>6. IsFiniteSet(LentBy(u)) /\ sheet[u].loaned = sum % LockWord
  BY DEF LentInv, SheetMatchesLoans, TrackedAmounts
<1>7. amount \in Nat /\ TrackedAmounts[d] = amount
  BY <1>1, RequestType, TrackedNat DEF TrackedAmounts
<1>8. LentBy(u) \subseteq Digests
  BY DEF LentBy
<1>9. sum \in Nat
  BY <1>6, <1>8, TrackedAmountsNat, SumNat
<1>10. sumNext = amount + sum
  <2>1. \A e \in LentBy(u) \union {d} : TrackedAmounts[e] \in Nat
    BY <1>1, <1>8, TrackedAmountsNat
  <2> HIDE DEF d
  <2> QED BY <1>3, <1>6, <1>7, <2>1, SumAdd
<1> HIDE DEF sum, amount, sumNext
<1>11. ((sum % LockWord) + amount) % LockWord = (sum + amount) % LockWord
  BY <1>7, <1>9, ModOfMod, SheetAssumption
<1>12. sheet'[u].loaned = sumNext % LockWord
  BY <1>5, <1>6, <1>7, <1>9, <1>10, <1>11
<1>13. IsFiniteSet(LentBy(u) \union {d})
  BY <1>6, FS_AddElement
<1>14. ASSUME NEW v \in Underwriters
       PROVE  /\ IsFiniteSet(LentBy(v)')
              /\ sheet'[v].loaned = SumFunctionOnSet(TrackedAmounts, LentBy(v)') % LockWord
  <2>1. CASE v = u
    BY <1>3, <1>12, <1>13, <2>1 DEF sumNext
  <2>2. CASE v # u
    BY <1>4, <2>2 DEF LentInv, SheetMatchesLoans, TrackedAmounts
  <2> QED BY <2>1, <2>2
<1> QED BY <1>14 DEF LentInv, SheetMatchesLoans, TrackedAmounts

LEMMA LentInit == Init => LentInv
<1> SUFFICES ASSUME Init PROVE LentInv
  OBVIOUS
<1>1. \A u \in Underwriters : LentBy(u) = {}
  BY DEF Init, LentBy, Unpaid, NoLoan
<1>2. \A u \in Underwriters : sheet[u].loaned = 0
  BY DEF Init, EmptySheet
<1>3. SumFunctionOnSet(TrackedAmounts, {}) % LockWord = 0
  BY SumEmpty, SheetAssumption
<1> QED
  BY <1>1, <1>2, <1>3, FS_EmptySet DEF LentInv, SheetMatchesLoans, TrackedAmounts

LEMMA LentStep == TypeOK /\ LentInv /\ [Next]_vars => LentInv'
<1> SUFFICES ASSUME TypeOK, LentInv, [Next]_vars PROVE LentInv'
  OBVIOUS
<1>1. CASE \E r \in Requests, u \in Underwriters : Loan(r, u)
  BY <1>1, LoanKeepsLent
<1>2. ASSUME NEW r \in Requests, NEW u \in Underwriters, NEW dep \in deposits,
             FallbackMint(r, u, dep)
      PROVE  LentInv'
  <2>1. \A v \in Underwriters : LentBy(v)' = LentBy(v)
    <3>1. \A e \in Digests : /\ Unpaid(e)' <=> Unpaid(e)
                             /\ Unpaid(e) => loanStatus'[e] = loanStatus[e]
      BY <1>2, FallbackKeepsStatus
    <3> QED BY <3>1 DEF LentBy
  <2> QED BY <1>2, <2>1, LentStays DEF FallbackMint
<1>3. ASSUME UNCHANGED loanStatus, \A u \in Underwriters : sheet'[u].loaned = sheet[u].loaned
      PROVE  LentInv'
  <2>1. \A v \in Underwriters : LentBy(v)' = LentBy(v)
    BY <1>3 DEF LentBy, Unpaid
  <2> QED BY <1>3, <2>1, LentStays
<1>4. \A amount : \A caller \in Underwriters :
       sheet' = [sheet EXCEPT ![caller] = TrackIn(@, amount)]
         => \A u \in Underwriters : sheet'[u].loaned = sheet[u].loaned
  BY DEF TrackIn, TypeOK, Sheet
<1>5. CASE \E caller, u \in Underwriters, r \in Requests, dep \in deposits :
              Repay(caller, r, u, dep)
  <2>1. PICK caller \in Underwriters :
          /\ loanStatus' = loanStatus
          /\ \E amount : sheet' = [sheet EXCEPT ![caller] = TrackIn(@, amount)]
    BY <1>5 DEF Repay
  <2> QED BY <1>3, <1>4, <2>1
<1>6. CASE \E caller \in Underwriters, e \in Executors : Meta(caller, e)
  <2>1. PICK caller \in Underwriters, e \in Executors : Meta(caller, e)
    BY <1>6
  <2>2. PICK gas \in Nat : \E gasInRen, cost \in Worth(gas) :
               MetaDoes(caller, e, gas, gasInRen, cost)
    BY <2>1, MetaParts
  <2>3. PICK gasInRen, cost \in Worth(gas) : MetaDoes(caller, e, gas, gasInRen, cost)
    BY <2>2
  <2>4. loanStatus' = loanStatus
    BY <2>1 DEF Meta
  <2>5. sheet' = [sheet EXCEPT ![caller] = TrackIn(@, AddFee(gasInRen))]
    BY <2>3 DEF MetaDoes
  <2> QED BY <1>3, <1>4, <2>4, <2>5
<1>7. CASE UNCHANGED <<loanStatus, sheet>>
  BY <1>3, <1>7
<1> QED
  BY <1>1, <1>2, <1>5, <1>6, <1>7
     DEF Next, vars, Mint, ApproveModule, SetFee, SetBaseFeeByAsset, SetGasParameters,
         SetParams, Burn, DefaultLoan, QuickDefaultLoan, Earn, Deposit, MineBlock

\* A lock has out exactly the loans its underwriter made, each digest once,
\* truncated to the lock's width: trackOut and the status agree for ever.
THEOREM SheetsMatchLoans == Spec => []SheetMatchesLoans
<1>1. LentInv => SheetMatchesLoans
  BY DEF LentInv
<1> QED
  BY <1>1, TypeInit, TypeStep, LentInit, LentStep, PTL DEF Spec

-----------------------------------------------------------------------------
(* What was repaid.  A deposit counts once because no two share an nHash   *)
(* and an nHash is spent only after its deposit was confirmed; what meta   *)
(* charged is what the executors have less than at the start.              *)

DepositsDistinct == \A dep, other \in deposits : dep.id = other.id => dep = other

ClaimsAreDeposits ==
    \A i \in DepositIds : claim[i] # "none" => \E dep \in deposits : dep.id = i

PursesOnlyDrawn == \A e \in Executors : purse[e] <= ExecutorFunds

RepaidInv ==
    /\ IsFiniteSet(deposits)
    /\ DepositsDistinct
    /\ ClaimsAreDeposits
    /\ PursesOnlyDrawn
    /\ RepaidMatchesMints

Repaid == [u \in Underwriters |-> sheet[u].repaid]

DepositAmount == [dep \in deposits |-> dep.amount]

SpentBy == [e \in Executors |-> Spent(e)]

LEMMA RepaidSums ==
    RepaidMatchesMints <=>
        SumFunctionOnSet(Repaid, Underwriters)
          = SumFunctionOnSet(DepositAmount, ClaimedDeposits({"repay"}))
              + SumFunctionOnSet(SpentBy, Executors)
  BY DEF RepaidMatchesMints, SumFunction, Repaid, DepositAmount, SpentBy

LEMMA RepaidTypes ==
    ASSUME TypeOK, RepaidInv
    PROVE  /\ \A u \in Underwriters : Repaid[u] \in Nat
           /\ \A dep \in deposits : DepositAmount[dep] \in Nat /\ dep.id \in DepositIds
           /\ \A e \in Executors : SpentBy[e] \in Nat
           /\ ClaimedDeposits({"repay"}) \subseteq deposits
           /\ IsFiniteSet(ClaimedDeposits({"repay"}))
<1>1. \A u \in Underwriters : Repaid[u] \in Nat
  BY OwedNat DEF TypeOK, Repaid
<1>2. \A dep \in deposits : DepositAmount[dep] \in Nat /\ dep.id \in DepositIds
  BY DeskAssumption DEF TypeOK, DepositSet, DepositAmount
<1>3. \A e \in Executors : SpentBy[e] \in Nat
  BY DeskAssumption DEF TypeOK, RepaidInv, PursesOnlyDrawn, SpentBy, Spent
<1>4. ClaimedDeposits({"repay"}) \subseteq deposits
  BY DEF ClaimedDeposits
<1>5. IsFiniteSet(ClaimedDeposits({"repay"}))
  BY <1>4, FS_Subset DEF RepaidInv
<1> QED BY <1>1, <1>2, <1>3, <1>4, <1>5

LEMMA SumsOfRepaid ==
    ASSUME TypeOK, RepaidInv
    PROVE  /\ SumFunctionOnSet(Repaid, Underwriters) \in Nat
           /\ SumFunctionOnSet(DepositAmount, ClaimedDeposits({"repay"})) \in Nat
           /\ SumFunctionOnSet(SpentBy, Executors) \in Nat
<1>1. SumFunctionOnSet(Repaid, Underwriters) \in Nat
  BY RepaidTypes, SumNat, DeskAssumption
<1>2. SumFunctionOnSet(DepositAmount, ClaimedDeposits({"repay"})) \in Nat
  BY RepaidTypes, SumNat
<1>3. SumFunctionOnSet(SpentBy, Executors) \in Nat
  BY RepaidTypes, SumNat, DeskAssumption
<1> QED BY <1>1, <1>2, <1>3

\* A credit to one lock adds to what is repaid over all locks.
LEMMA CreditAdds ==
    ASSUME TypeOK, RepaidInv, NEW caller \in Underwriters, NEW amount \in Nat,
           sheet' = [sheet EXCEPT ![caller] = TrackIn(@, amount)]
    PROVE  SumFunctionOnSet(Repaid', Underwriters)
             = SumFunctionOnSet(Repaid, Underwriters) + amount
<1> DEFINE old == Repaid
           new == Repaid'
<1>1. \A u \in Underwriters : old[u] \in Nat
  BY RepaidTypes
<1>2. \A u \in Underwriters : sheet[u] \in Sheet
  BY DEF TypeOK
<1>3. \A u \in Underwriters : u # caller => new[u] = old[u]
  BY DEF Repaid, TypeOK
<1>4. new[caller] = old[caller] + amount
  BY <1>2 DEF Repaid, TypeOK, TrackIn, Sheet
<1>5. \A u \in Underwriters : new[u] \in Nat
  BY <1>1, <1>3, <1>4
<1>6. SumFunctionOnSet(old, Underwriters) \in Nat
  BY SumsOfRepaid
<1>7. IsFiniteSet(Underwriters)
  BY DeskAssumption
<1>8. SumFunctionOnSet(new, Underwriters) \in Nat
  <2> HIDE DEF new
  <2> QED BY <1>5, <1>7, SumNat
<1> HIDE DEF old, new
<1>9. SumFunctionOnSet(new, Underwriters) + old[caller]
        = SumFunctionOnSet(old, Underwriters) + new[caller]
  BY <1>1, <1>3, <1>5, <1>7, SumChange
<1>10. SumFunctionOnSet(new, Underwriters) = SumFunctionOnSet(old, Underwriters) + amount
  BY <1>1, <1>4, <1>6, <1>8, <1>9
<1> QED BY <1>10 DEF old, new

LEMMA RepayKeepsRepaid ==
    ASSUME TypeOK, RepaidInv, NEW caller \in Underwriters, NEW u \in Underwriters,
           NEW r \in Requests, NEW dep \in deposits, Repay(caller, r, u, dep)
    PROVE  RepaidInv'
<1>1. dep.amount \in Nat /\ dep.id \in DepositIds
  BY MintedNat DEF Repay
<1>2. /\ sheet' = [sheet EXCEPT ![caller] = TrackIn(@, dep.amount)]
      /\ claim[dep.id] = "none"
      /\ claim' = [claim EXCEPT ![dep.id] = "repay"]
      /\ UNCHANGED <<deposits, purse>>
  BY DEF Repay, GatewayMint
<1>3. /\ claim'[dep.id] = "repay"
      /\ \A i \in DepositIds : i # dep.id => claim'[i] = claim[i]
  BY <1>1, <1>2 DEF TypeOK
<1>4. /\ ClaimedDeposits({"repay"})' = ClaimedDeposits({"repay"}) \union {dep}
      /\ dep \notin ClaimedDeposits({"repay"})
  <2>1. \A other \in deposits : other # dep => claim'[other.id] = claim[other.id]
    BY <1>3, RepaidTypes DEF RepaidInv, DepositsDistinct
  <2> QED BY <1>2, <1>3, <2>1 DEF ClaimedDeposits
<1>5. SumFunctionOnSet(Repaid', Underwriters)
        = SumFunctionOnSet(Repaid, Underwriters) + dep.amount
  BY <1>1, <1>2, CreditAdds
<1>6. DepositAmount' = DepositAmount /\ SpentBy' = SpentBy
  BY <1>2 DEF DepositAmount, SpentBy, Spent
<1>7. SumFunctionOnSet(DepositAmount, ClaimedDeposits({"repay"}) \union {dep})
        = dep.amount + SumFunctionOnSet(DepositAmount, ClaimedDeposits({"repay"}))
  <2>1. \A other \in ClaimedDeposits({"repay"}) \union {dep} : DepositAmount[other] \in Nat
    BY RepaidTypes
  <2>2. DepositAmount[dep] = dep.amount
    BY DEF DepositAmount
  <2> QED BY <1>4, <2>1, <2>2, RepaidTypes, SumAdd
<1>8. RepaidMatchesMints'
  <2>1. /\ SumFunctionOnSet(Repaid, Underwriters) \in Nat
        /\ SumFunctionOnSet(DepositAmount, ClaimedDeposits({"repay"})) \in Nat
        /\ SumFunctionOnSet(SpentBy, Executors) \in Nat
    BY SumsOfRepaid
  <2>2. SumFunctionOnSet(Repaid, Underwriters)
          = SumFunctionOnSet(DepositAmount, ClaimedDeposits({"repay"}))
              + SumFunctionOnSet(SpentBy, Executors)
    BY RepaidSums DEF RepaidInv
  <2>3. SumFunctionOnSet(Repaid', Underwriters)
          = SumFunctionOnSet(DepositAmount', ClaimedDeposits({"repay"})')
              + SumFunctionOnSet(SpentBy', Executors)
    <3>1. SumFunctionOnSet(DepositAmount', ClaimedDeposits({"repay"})')
            = SumFunctionOnSet(DepositAmount, ClaimedDeposits({"repay"}) \union {dep})
      BY <1>4, <1>6
    <3>2. SumFunctionOnSet(SpentBy', Executors) = SumFunctionOnSet(SpentBy, Executors)
      BY <1>6
    <3> QED BY <1>1, <1>5, <1>7, <2>1, <2>2, <3>1, <3>2
  <2> QED
    BY <2>3 DEF RepaidMatchesMints, SumFunction, Repaid, DepositAmount, SpentBy
<1>9. ClaimsAreDeposits'
  <2> SUFFICES ASSUME NEW i \in DepositIds, claim'[i] # "none"
               PROVE  \E other \in deposits : other.id = i
    BY <1>2 DEF ClaimsAreDeposits
  <2> QED BY <1>3 DEF RepaidInv, ClaimsAreDeposits
<1> QED
  BY <1>2, <1>8, <1>9 DEF RepaidInv, DepositsDistinct, PursesOnlyDrawn

LEMMA MetaKeepsRepaid ==
    ASSUME TypeOK, RepaidInv, NEW caller \in Underwriters, NEW e \in Executors,
           Meta(caller, e)
    PROVE  RepaidInv'
<1>1. PICK gas \in Nat, gasInRen \in Nat :
         /\ sheet' = [sheet EXCEPT ![caller] = TrackIn(@, AddFee(gasInRen))]
         /\ purse[e] >= RepayMeta(e, gasInRen)
         /\ purse' = [purse EXCEPT ![e] = @ - RepayMeta(e, gasInRen)]
  <2>1. PICK gas \in Nat : \E gasInRen, cost \in Worth(gas) :
           MetaDoes(caller, e, gas, gasInRen, cost)
    BY MetaParts
  <2>2. PICK gasInRen, cost \in Worth(gas) : MetaDoes(caller, e, gas, gasInRen, cost)
    BY <2>1
  <2> QED BY <2>2, WorthBound DEF MetaDoes
<1> DEFINE charge == AddFee(gasInRen)
<1>2. charge \in Nat /\ RepayMeta(e, gasInRen) = charge
  BY AddFeeBound DEF RepayMeta
<1>3. UNCHANGED <<deposits, claim>>
  BY DEF Meta
<1>4. SumFunctionOnSet(Repaid', Underwriters)
        = SumFunctionOnSet(Repaid, Underwriters) + charge
  BY <1>1, <1>2, CreditAdds
<1> HIDE DEF charge
<1>5. /\ \A x \in Executors : purse[x] \in Nat /\ purse[x] <= ExecutorFunds
      /\ ExecutorFunds \in Nat
  BY DeskAssumption DEF TypeOK, RepaidInv, PursesOnlyDrawn
<1>6. /\ purse'[e] = purse[e] - charge /\ purse[e] >= charge
      /\ \A x \in Executors : x # e => purse'[x] = purse[x]
  BY <1>1, <1>2 DEF TypeOK
<1>7. PursesOnlyDrawn'
  BY <1>2, <1>5, <1>6 DEF PursesOnlyDrawn
<1> DEFINE old == SpentBy
           new == SpentBy'
<1>8. /\ \A x \in Executors : x # e => new[x] = old[x]
      /\ new[e] = old[e] + charge
  BY <1>2, <1>5, <1>6 DEF SpentBy, Spent
<1>9. \A x \in Executors : old[x] \in Nat
  BY RepaidTypes
<1>10. \A x \in Executors : new[x] \in Nat
  BY <1>2, <1>8, <1>9
<1> HIDE DEF old, new
<1>11. SumFunctionOnSet(new, Executors) + old[e] = SumFunctionOnSet(old, Executors) + new[e]
  BY <1>8, <1>9, <1>10, SumChange, DeskAssumption
<1>12. SumFunctionOnSet(new, Executors) \in Nat
  BY <1>10, SumNat, DeskAssumption
<1>13. SumFunctionOnSet(old, Executors) \in Nat
  BY SumsOfRepaid DEF old
<1>14. SumFunctionOnSet(new, Executors) = SumFunctionOnSet(old, Executors) + charge
  BY <1>2, <1>8, <1>9, <1>10, <1>11, <1>12, <1>13
<1>15. /\ DepositAmount' = DepositAmount
       /\ ClaimedDeposits({"repay"})' = ClaimedDeposits({"repay"})
  BY <1>3 DEF DepositAmount, ClaimedDeposits
<1>16. RepaidMatchesMints'
  <2>1. /\ SumFunctionOnSet(Repaid, Underwriters) \in Nat
        /\ SumFunctionOnSet(DepositAmount, ClaimedDeposits({"repay"})) \in Nat
        /\ SumFunctionOnSet(SpentBy, Executors) \in Nat
    BY SumsOfRepaid
  <2>2. SumFunctionOnSet(Repaid, Underwriters)
          = SumFunctionOnSet(DepositAmount, ClaimedDeposits({"repay"}))
              + SumFunctionOnSet(SpentBy, Executors)
    BY RepaidSums DEF RepaidInv
  <2>3. SumFunctionOnSet(SpentBy', Executors) = SumFunctionOnSet(SpentBy, Executors) + charge
    BY <1>14 DEF old, new
  <2>4. SumFunctionOnSet(Repaid', Underwriters)
          = SumFunctionOnSet(DepositAmount', ClaimedDeposits({"repay"})')
              + SumFunctionOnSet(SpentBy', Executors)
    BY <1>2, <1>4, <1>15, <2>1, <2>2, <2>3
  <2> QED
    BY <2>4 DEF RepaidMatchesMints, SumFunction, Repaid, DepositAmount, SpentBy
<1> QED
  BY <1>3, <1>7, <1>16 DEF RepaidInv, DepositsDistinct, ClaimsAreDeposits

\* A new deposit is not claimed yet, so it adds to no sum.
LEMMA DepositKeepsRepaid ==
    ASSUME TypeOK, RepaidInv, NEW dep \in DepositSet, Deposit(dep)
    PROVE  RepaidInv'
<1>1. /\ \A other \in deposits : other.id # dep.id
      /\ deposits' = deposits \union {dep}
      /\ UNCHANGED <<claim, sheet, purse>>
  BY DEF Deposit
<1>2. dep.id \in DepositIds
  BY DEF DepositSet
<1>3. claim[dep.id] = "none"
  BY <1>1, <1>2 DEF RepaidInv, ClaimsAreDeposits
<1>4. ClaimedDeposits({"repay"})' = ClaimedDeposits({"repay"})
  BY <1>1, <1>3 DEF ClaimedDeposits
<1>5. Repaid' = Repaid /\ SpentBy' = SpentBy
  BY <1>1 DEF Repaid, SpentBy, Spent
<1> DEFINE old == DepositAmount
           new == DepositAmount'
           claimed == ClaimedDeposits({"repay"})
<1>6. \A other \in claimed : new[other] = old[other]
  BY <1>1, RepaidTypes DEF DepositAmount
<1>7. IsFiniteSet(claimed)
  BY RepaidTypes
<1>8. SumFunctionOnSet(new, claimed) = SumFunctionOnSet(old, claimed)
  <2> HIDE DEF old, new, claimed
  <2> QED BY <1>6, <1>7, SumSame
<1>9. RepaidMatchesMints'
  <2>1. SumFunctionOnSet(Repaid', Underwriters)
          = SumFunctionOnSet(DepositAmount', ClaimedDeposits({"repay"})')
              + SumFunctionOnSet(SpentBy', Executors)
    BY <1>4, <1>5, <1>8, RepaidSums DEF RepaidInv
  <2> QED
    BY <2>1 DEF RepaidMatchesMints, SumFunction, Repaid, DepositAmount, SpentBy
<1>10. IsFiniteSet(deposits')
  BY <1>1, FS_AddElement DEF RepaidInv
<1>11. DepositsDistinct' /\ ClaimsAreDeposits' /\ PursesOnlyDrawn'
  BY <1>1 DEF RepaidInv, DepositsDistinct, ClaimsAreDeposits, PursesOnlyDrawn
<1> QED BY <1>9, <1>10, <1>11 DEF RepaidInv

\* A fallback mint claims a deposit that repay can then no longer claim.
LEMMA FallbackKeepsRepaid ==
    ASSUME TypeOK, RepaidInv, NEW r \in Requests, NEW u \in Underwriters,
           NEW dep \in deposits, FallbackMint(r, u, dep)
    PROVE  RepaidInv'
<1>1. dep.id \in DepositIds
  BY RepaidTypes
<1>2. /\ claim[dep.id] = "none"
      /\ claim' = [claim EXCEPT ![dep.id] = "fallback"]
      /\ UNCHANGED <<deposits, sheet, purse>>
  BY DEF FallbackMint, GatewayMint
<1>3. /\ claim'[dep.id] = "fallback"
      /\ \A i \in DepositIds : i # dep.id => claim'[i] = claim[i]
  BY <1>1, <1>2 DEF TypeOK
<1>4. ClaimedDeposits({"repay"})' = ClaimedDeposits({"repay"})
  BY <1>2, <1>3, RepaidTypes DEF ClaimedDeposits
<1>5. ClaimsAreDeposits'
  <2> SUFFICES ASSUME NEW i \in DepositIds, claim'[i] # "none"
               PROVE  \E other \in deposits : other.id = i
    BY <1>2 DEF ClaimsAreDeposits
  <2> QED BY <1>3 DEF RepaidInv, ClaimsAreDeposits
<1> QED
  BY <1>2, <1>4, <1>5
     DEF RepaidInv, DepositsDistinct, PursesOnlyDrawn, RepaidMatchesMints, Spent

LEMMA RepaidInit == Init => RepaidInv
<1> SUFFICES ASSUME Init PROVE RepaidInv
  OBVIOUS
<1>1. \A u \in Underwriters : Repaid[u] = 0
  BY DEF Init, Repaid, EmptySheet
<1>2. \A e \in Executors : SpentBy[e] = 0
  BY DeskAssumption DEF Init, SpentBy, Spent
<1>3. ClaimedDeposits({"repay"}) = {}
  BY DEF Init, ClaimedDeposits
<1>4. /\ SumFunctionOnSet(Repaid, Underwriters) = 0
      /\ SumFunctionOnSet(SpentBy, Executors) = 0
  BY <1>1, <1>2, SumZero, DeskAssumption
<1>5. RepaidMatchesMints
  BY <1>3, <1>4, SumEmpty, RepaidSums
<1>6. IsFiniteSet(deposits) /\ DepositsDistinct
  BY FS_EmptySet DEF Init, DepositsDistinct
<1> QED
  BY <1>5, <1>6, DeskAssumption
     DEF Init, RepaidInv, ClaimsAreDeposits, PursesOnlyDrawn

LEMMA RepaidStep == TypeOK /\ RepaidInv /\ [Next]_vars => RepaidInv'
<1> SUFFICES ASSUME TypeOK, RepaidInv, [Next]_vars PROVE RepaidInv'
  OBVIOUS
<1>1. CASE \E caller, u \in Underwriters, r \in Requests, dep \in deposits :
              Repay(caller, r, u, dep)
  BY <1>1, RepayKeepsRepaid
<1>2. CASE \E r \in Requests, u \in Underwriters, dep \in deposits : FallbackMint(r, u, dep)
  BY <1>2, FallbackKeepsRepaid
<1>3. CASE \E caller \in Underwriters, e \in Executors : Meta(caller, e)
  BY <1>3, MetaKeepsRepaid
<1>4. CASE \E dep \in DepositSet : Deposit(dep)
  BY <1>4, DepositKeepsRepaid
<1>5. ASSUME UNCHANGED <<deposits, claim, purse>>, Repaid' = Repaid
      PROVE  RepaidInv'
  <2>1. RepaidMatchesMints'
    BY <1>5 DEF RepaidInv, RepaidMatchesMints, Repaid, ClaimedDeposits, Spent
  <2> QED
    BY <1>5, <2>1 DEF RepaidInv, DepositsDistinct, ClaimsAreDeposits, PursesOnlyDrawn
<1>6. ASSUME NEW r \in Requests, NEW u \in Underwriters, Loan(r, u)
      PROVE  RepaidInv'
  <2>1. Repaid' = Repaid
    BY <1>6 DEF Loan, Repaid, TrackOut, TypeOK, Sheet
  <2>2. UNCHANGED <<deposits, claim, purse>>
    BY <1>6 DEF Loan
  <2> QED BY <1>5, <2>1, <2>2
<1>7. CASE UNCHANGED <<deposits, claim, purse, sheet>>
  BY <1>5, <1>7 DEF Repaid
<1> QED
  BY <1>1, <1>2, <1>3, <1>4, <1>6, <1>7
     DEF Next, vars, Mint, ApproveModule, SetFee, SetBaseFeeByAsset, SetGasParameters,
         SetParams, Burn, DefaultLoan, QuickDefaultLoan, Earn, MineBlock

\* Over all locks, what is tracked in as repaid is what repay minted and meta
\* charged, whoever calls repay for whom.
THEOREM RepaidIsMinted == Spec => []RepaidMatchesMints
<1>1. RepaidInv => RepaidMatchesMints
  BY DEF RepaidInv
<1> QED
  BY <1>1, TypeInit, TypeStep, RepaidInit, RepaidStep, PTL DEF Spec

-----------------------------------------------------------------------------
(* Settlement.  A converting module records a timestamp and defaultLoan    *)
(* compares it with a block number, so while timestamps are ahead of block *)
(* numbers no record expires.                                              *)

TimestampsAhead == MaxBlock < Genesis

\* No swap loses everything it is given, whatever governance charges, the
\* estimate of the gas and what the strategy's withdrawal pays.
SwapsReturnSome ==
    \A p \in ParamsType, r \in Requests, amount \in Nat, loss \in Slippages :
        \A gas \in Worth(p.txGas) :
            /\ r.module \notin QuickModules
            /\ amount = (r.amount * (Unit - p.fee)) \div Unit - p.baseFee - gas
            => loss \notin Worth(amount) \union {amount}

TimeInv ==
    /\ block <= MaxBlock
    /\ \A m \in Modules \ QuickModules, n \in Nonces :
          Active(m, n) => outstanding[m][n].when >= Genesis

\* Records that are cleared or left alone carry no earlier time.
LEMMA ClearedTimes ==
    ASSUME TypeOK, TimeInv, UNCHANGED block,
           \/ UNCHANGED outstanding
           \/ \E m \in Modules, n \in Nonces : SetRecord(m, n, NoRecord)
    PROVE  TimeInv'
<1>1. CASE UNCHANGED outstanding
  BY <1>1 DEF TimeInv, Active
<1>2. ASSUME NEW m \in Modules, NEW n \in Nonces, SetRecord(m, n, NoRecord)
      PROVE  TimeInv'
  <2>1. \A k \in Modules, i \in Nonces :
           Active(k, i)' => Active(k, i) /\ outstanding'[k][i] = outstanding[k][i]
    BY <1>2, SetRecordEffect DEF Active, NoRecord
  <2> QED BY <2>1 DEF TimeInv
<1> QED BY <1>1, <1>2

\* What a loan does to the records of converting modules.
LEMMA LoanRecords ==
    ASSUME TypeOK, SwapsReturnSome, NEW r \in Requests, NEW u \in Underwriters, Loan(r, u)
    PROVE  \A m \in Modules \ QuickModules, n \in Nonces :
              \/ outstanding'[m][n] = outstanding[m][n]
              \/ Active(m, n)' /\ outstanding'[m][n].when >= Genesis
<1>1. PICK sent \in Nat :
         /\ ReceiveLoan(r, sent) \/ QuickReceiveLoan(r, sent)
         /\ r.module \notin QuickModules => \A loss \in Slippages : loss # sent
  <2>1. PICK gas \in Worth(params.txGas) :
           LoanCovered(r.amount, gas) /\ Lend(r, DeductFee(r.amount, gas))
    BY DEF Loan
  <2> DEFINE amount == DeductFee(r.amount, gas)
  <2>2. amount \in Nat
    BY <2>1, SentNat
  <2>3. amount = (r.amount * (Unit - params.fee)) \div Unit - params.baseFee - gas
    BY DEF DeductFee, FeeOn
  <2> HIDE DEF amount
  <2>4. PICK sent \in Sent(r.module, amount) : ReceiveLoan(r, sent) \/ QuickReceiveLoan(r, sent)
    BY <2>1 DEF Lend, amount
  <2>5. sent \in Worth(amount) \union {amount}
    BY <2>4 DEF Sent
  <2>6. sent \in Nat
    BY <2>2, <2>5, WorthBound
  <2>7. params \in ParamsType
    BY DEF TypeOK
  <2>8. r.module \notin QuickModules => \A loss \in Slippages : loss # sent
    BY <2>2, <2>3, <2>5, <2>7 DEF SwapsReturnSome
  <2> QED BY <2>4, <2>6, <2>8
<1>2. r.module \in Modules /\ r.nonce \in Nonces
  BY RequestType
<1>3. CASE ReceiveLoan(r, sent)
  <2>1. PICK loss \in Slippages :
            /\ loss <= sent
            /\ SetRecord(r.module, r.nonce,
                         [qty |-> sent - loss, when |-> BlockTimestamp(block)])
    BY <1>3 DEF ReceiveLoan
  <2>2. sent - loss # 0
    BY <1>1, <1>3, <2>1, DeskAssumption DEF ReceiveLoan
  <2>3. BlockTimestamp(block) >= Genesis
    <3>1. BlockSeconds * block \in Nat
      BY MulNat, DeskAssumption DEF TypeOK
    <3> QED BY <3>1, DeskAssumption DEF BlockTimestamp
  <2> DEFINE rec == [qty |-> sent - loss, when |-> BlockTimestamp(block)]
  <2>4. rec.qty # 0 /\ rec.when >= Genesis
    BY <2>2, <2>3
  <2>5. SetRecord(r.module, r.nonce, rec)
    BY <2>1
  <2> HIDE DEF rec
  <2>6. /\ outstanding'[r.module][r.nonce] = rec
        /\ \A k \in Modules, i \in Nonces :
             (k # r.module \/ i # r.nonce) => outstanding'[k][i] = outstanding[k][i]
    BY <1>2, <2>5, SetRecordEffect
  <2> QED BY <2>4, <2>6 DEF Active
<1>4. CASE QuickReceiveLoan(r, sent)
  <2>1. r.module \in QuickModules /\ \E rec : SetRecord(r.module, r.nonce, rec)
    BY <1>4 DEF QuickReceiveLoan
  <2>2. \A k \in Modules, i \in Nonces :
             (k # r.module \/ i # r.nonce) => outstanding'[k][i] = outstanding[k][i]
    BY <1>2, <2>1, SetRecordEffect
  <2> QED BY <2>1, <2>2
<1> QED BY <1>1, <1>3, <1>4

LEMMA TimeInit == Init => TimeInv
  BY DeskAssumption DEF Init, TimeInv, Active, NoRecord

LEMMA TimeStep ==
    ASSUME SwapsReturnSome
    PROVE  TypeOK /\ TimeInv /\ [Next]_vars => TimeInv'
<1> SUFFICES ASSUME TypeOK, TimeInv, [Next]_vars PROVE TimeInv'
  OBVIOUS
<1>1. CASE \E r \in Requests, u \in Underwriters : Loan(r, u)
  <2>1. PICK r \in Requests, u \in Underwriters : Loan(r, u)
    BY <1>1
  <2>2. UNCHANGED block
    BY <2>1 DEF Loan
  <2>3. \A m \in Modules \ QuickModules, n \in Nonces :
              \/ outstanding'[m][n] = outstanding[m][n]
              \/ Active(m, n)' /\ outstanding'[m][n].when >= Genesis
    BY <2>1, LoanRecords
  <2> QED BY <2>2, <2>3 DEF TimeInv, Active
<1>2. ASSUME NEW caller \in Underwriters, NEW u \in Underwriters, NEW r \in Requests,
             NEW dep \in deposits, Repay(caller, r, u, dep)
      PROVE  TimeInv'
  <2>1. SetRecord(r.module, r.nonce, NoRecord) /\ UNCHANGED block
    BY <1>2 DEF Repay, RepayLoan, QuickRepayLoan
  <2> QED BY <2>1, RequestType, ClearedTimes
<1>3. ASSUME NEW m \in Modules, NEW n \in Nonces, DefaultLoan(m, n) \/ QuickDefaultLoan(m, n)
      PROVE  TimeInv'
  <2>1. SetRecord(m, n, NoRecord) /\ UNCHANGED block
    BY <1>3 DEF DefaultLoan, QuickDefaultLoan
  <2> QED BY <2>1, ClearedTimes
<1>4. CASE MineBlock
  BY <1>4, DeskAssumption DEF MineBlock, TimeInv, Active, TypeOK
<1>5. CASE UNCHANGED <<outstanding, block>>
  BY <1>5, ClearedTimes
<1> QED
  BY <1>1, <1>2, <1>3, <1>4, <1>5, DeskAssumption
     DEF Next, vars, Mint, ApproveModule, SetFee, SetBaseFeeByAsset, SetGasParameters,
         SetParams, FallbackMint, Meta, Burn, Earn, Deposit

\* Where timestamps are ahead of block numbers and swaps return something, a
\* converting module's record is never defaulted: only a repay that mints a
\* deposit, or a new loan on the same nonce, takes it away.
THEOREM RecordsWaitForRepay ==
    ASSUME TimestampsAhead, SwapsReturnSome
    PROVE  Spec => SettledOnlyByRepay
<1> DEFINE Settled(m, n) ==
             Active(m, n) /\ ~ Active(m, n)' =>
                \E dep \in deposits : claim[dep.id] = "none" /\ claim'[dep.id] = "repay"
<1>1. ASSUME TypeOK, TimeInv, [Next]_vars
      PROVE  [\A m \in Modules \ QuickModules, n \in Nonces : Settled(m, n)]_vars
  <2> SUFFICES ASSUME Next, NEW m \in Modules \ QuickModules, NEW n \in Nonces,
                      Active(m, n), ~ Active(m, n)'
               PROVE  \E dep \in deposits : claim[dep.id] = "none" /\ claim'[dep.id] = "repay"
    BY <1>1
  <2>1. ASSUME NEW r \in Requests, NEW u \in Underwriters, Loan(r, u)
        PROVE  FALSE
    BY <1>1, <2>1, LoanRecords DEF Active
  <2>2. ASSUME NEW caller \in Underwriters, NEW u \in Underwriters, NEW r \in Requests,
               NEW dep \in deposits, Repay(caller, r, u, dep)
        PROVE  claim[dep.id] = "none" /\ claim'[dep.id] = "repay"
    <3>1. dep.id \in DepositIds
      BY <1>1 DEF TypeOK, DepositSet
    <3> QED BY <1>1, <2>2, <3>1 DEF Repay, GatewayMint, TypeOK
  <2>3. ASSUME NEW k \in Modules \ QuickModules, NEW i \in Nonces, DefaultLoan(k, i)
        PROVE  FALSE
    <3>1. Active(k, i) /\ block >= outstanding[k][i].when + BlockTimeout[k]
      BY <2>3 DEF DefaultLoan, Expired, Active
    <3>2. outstanding[k][i].when >= Genesis /\ block <= MaxBlock
      BY <1>1, <3>1 DEF TimeInv
    <3>3. /\ outstanding[k][i].when \in Nat /\ BlockTimeout[k] \in Nat /\ block \in Nat
          /\ MaxBlock \in Nat /\ Genesis \in Nat
      BY <1>1, RecordType, DeskAssumption DEF TypeOK
    <3> QED BY <3>1, <3>2, <3>3 DEF TimestampsAhead
  <2>4. ASSUME NEW k \in QuickModules, NEW i \in Nonces, QuickDefaultLoan(k, i)
        PROVE  FALSE
    <3>1. k \in Modules /\ k # m /\ SetRecord(k, i, NoRecord)
      BY <2>4, DeskAssumption DEF QuickDefaultLoan
    <3>2. outstanding'[m][n] = outstanding[m][n]
      BY <1>1, <3>1, SetRecordEffect, NoRecordType
    <3> QED BY <3>2 DEF Active
  <2>5. CASE UNCHANGED outstanding
    BY <2>5 DEF Active
  <2> QED
    BY <2>1, <2>2, <2>3, <2>4, <2>5
       DEF Next, Mint, ApproveModule, SetFee, SetBaseFeeByAsset, SetGasParameters,
           SetParams, FallbackMint, Meta, Burn, Earn, Deposit, MineBlock
<1> QED
  BY <1>1, TypeInit, TypeStep, TimeInit, TimeStep, PTL DEF Spec, SettledOnlyByRepay
=============================================================================
