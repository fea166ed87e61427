----------------------- MODULE ZeroController_proofs -----------------------
(***************************************************************************)
(* Theorems about the loan desk of ZeroController.tla, for every set of    *)
(* users, underwriters, modules, requests and deposits.                    *)
(***************************************************************************)
EXTENDS ZeroController, TLAPS

-----------------------------------------------------------------------------
(* Arithmetic.                                                             *)

\* Integer division of natural numbers is a natural number.
LEMMA DivNat ==
    ASSUME NEW x \in Nat, NEW y \in Nat \ {0}
    PROVE  x \div y \in Nat
  OBVIOUS

\* Truncation to the lock's width fits the width.
LEMMA ModWord ==
    ASSUME NEW x \in Nat
    PROVE  x % LockWord \in Word
  BY SheetAssumption DEF Word

\* The product of natural numbers is a natural number.
LEMMA MulNat ==
    ASSUME NEW x \in Nat, NEW y \in Nat
    PROVE  x * y \in Nat
  OBVIOUS

\* A quotient is bounded by what the dividend is bounded by.
LEMMA DivOfMore ==
    ASSUME NEW x \in Nat, NEW y \in Nat \ {0}, NEW z \in Nat, x = z * y \/ x > z * y
    PROVE  x \div y >= z
  OBVIOUS

LEMMA DivOfLess ==
    ASSUME NEW x \in Nat, NEW y \in Nat \ {0}, NEW z \in Nat, x <= z * y
    PROVE  x \div y <= z
  OBVIOUS

\* Two divisions of one number by n leave the same remainder.
LEMMA OneRemainder ==
    ASSUME NEW n \in Nat \ {0}, NEW p \in Nat, NEW q \in Nat,
           NEW s \in 0 .. n - 1, NEW t \in 0 .. n - 1, n * p + s = n * q + t
    PROVE  s = t
<1>1. ASSUME NEW i \in Nat, NEW j \in Nat, i < j
      PROVE  n * i + n <= n * j
  <2>1. PICK k \in Nat : j = i + 1 + k
    <3>1. j - i - 1 \in Nat /\ j = i + 1 + (j - i - 1)
      BY <1>1
    <3> QED BY <3>1
  <2>2. n * j = n * i + n + n * k
    BY <2>1
  <2>3. n * k \in Nat /\ n * i \in Nat
    OBVIOUS
  <2> QED BY <2>2, <2>3
<1>2. n * p \in Nat /\ n * q \in Nat
  OBVIOUS
<1>3. CASE p < q
  BY <1>1, <1>2, <1>3
<1>4. CASE q < p
  BY <1>1, <1>2, <1>4
<1>5. CASE p = q
  BY <1>2, <1>5
<1> QED BY <1>3, <1>4, <1>5

\* Truncating a sum before it is added to changes nothing after the addition
\* is truncated.
LEMMA ModOfMod ==
    ASSUME NEW n \in Nat \ {0}, NEW x \in Nat, NEW y \in Nat
    PROVE  ((x % n) + y) % n = (x + y) % n
<1> DEFINE z == (x % n) + y
<1>1. \A v \in Nat : /\ v \div n \in Nat /\ v % n \in 0 .. n - 1
                     /\ v = n * (v \div n) + (v % n)
  OBVIOUS
<1>2. x % n \in Nat /\ z \in Nat /\ x + y \in Nat
  BY <1>1
<1>3. z = n * (z \div n) + (z % n) /\ z \div n \in Nat /\ z % n \in 0 .. n - 1
  BY <1>1, <1>2
<1>4. x + y = n * (x \div n) + z
  BY <1>1
<1>5. /\ x + y = n * ((x + y) \div n) + ((x + y) % n)
      /\ (x + y) \div n \in Nat /\ (x + y) % n \in 0 .. n - 1
  BY <1>1, <1>2
<1> HIDE DEF z
<1>6. x \div n \in Nat
  BY <1>1
<1> DEFINE p == (x \div n) + (z \div n)
<1>7. p \in Nat /\ n * p = n * (x \div n) + n * (z \div n)
  <2>1. \A a \in Nat, b \in Nat : a + b \in Nat /\ n * (a + b) = n * a + n * b
    OBVIOUS
  <2> QED BY <1>3, <1>6, <2>1, Zenon
<1>8. x + y = n * p + (z % n)
  <2>1. n * (x \div n) \in Nat /\ n * (z \div n) \in Nat
    BY <1>3, <1>6
  <2> HIDE DEF p
  <2> QED BY <1>3, <1>4, <1>7, <2>1
<1> HIDE DEF p
<1>9. z % n = (x + y) % n
  BY <1>3, <1>5, <1>7, <1>8, OneRemainder
<1> QED BY <1>9 DEF z

-----------------------------------------------------------------------------
(* What the operators of BalanceSheet.tla return: a sheet stays a sheet,   *)
(* and what it owes.                                                       *)

LEMMA OwedNat ==
    ASSUME NEW s \in Sheet
    PROVE  /\ s.loaned \in Nat /\ s.required \in Nat /\ s.repaid \in Nat
           /\ Owed(s) \in Nat
           /\ Adjusted(s) \in Nat
<1>1. s.loaned \in Nat /\ s.required \in Nat /\ s.repaid \in Nat
  BY SheetAssumption DEF Sheet, Word
<1>2. Owed(s) \in Nat
  BY <1>1 DEF Owed
<1>3. s.required * Owed(s) \in Nat
  BY <1>1, <1>2, MulNat
<1>4. Adjusted(s) \in Nat
  BY <1>3, DivNat, SheetAssumption DEF Adjusted
<1> QED BY <1>1, <1>2, <1>4

\* trackOut returns a sheet when it does not revert.
LEMMA TrackOutType ==
    ASSUME NEW s \in Sheet, NEW amount \in Nat, NEW reserve \in Nat,
           TrackOutDefined(s, amount)
    PROVE  TrackOut(s, amount, reserve) \in Sheet
<1>1. Owed(s) \in Nat /\ Adjusted(s) \in Nat /\ s.loaned \in Nat
  BY OwedNat
<1>2. Owed(s) + amount \in Nat \ {0}
  BY <1>1 DEF TrackOutDefined
<1>3. (reserve * Unit) \div (Owed(s) + amount) \in Nat
  BY <1>2, MulNat, DivNat, SheetAssumption
<1>4. (s.loaned + amount) % LockWord \in Word
  BY <1>1, ModWord
<1>5. (Adjusted(s) + (reserve * Unit) \div (Owed(s) + amount)) % LockWord \in Word
  BY <1>1, <1>3, ModWord
<1> QED
  BY <1>4, <1>5 DEF TrackOut, Sheet

\* trackIn returns a sheet when it does not revert.
LEMMA TrackInType ==
    ASSUME NEW s \in Sheet, NEW amount \in Nat, TrackInDefined(s, amount)
    PROVE  TrackIn(s, amount) \in Sheet
<1>1. Owed(s) \in Nat /\ Adjusted(s) \in Nat /\ s.repaid \in Nat
  BY OwedNat
<1>2. s.repaid + amount \in Nat
  BY <1>1
<1>3. CASE Covers(s, amount)
  <2>1. 0 \in Word
    BY SheetAssumption DEF Word
  <2> QED BY <1>2, <1>3, <2>1 DEF TrackIn, Sheet
<1>4. CASE ~ Covers(s, amount)
  <2>1. Adjusted(s) - amount \in Nat /\ Owed(s) - amount \in Nat \ {0}
    BY <1>1, <1>4 DEF Covers, TrackInDefined
  <2>2. ((Adjusted(s) - amount) * Unit) \div (Owed(s) - amount) \in Nat
    BY <2>1, MulNat, DivNat, SheetAssumption
  <2>3. (((Adjusted(s) - amount) * Unit) \div (Owed(s) - amount)) % LockWord \in Word
    BY <2>2, ModWord
  <2> QED BY <1>2, <1>4, <2>3 DEF TrackIn, Sheet
<1> QED BY <1>3, <1>4

\* Repaying lowers the debt by the amount, down to zero.
THEOREM RepaymentLowersDebt ==
    ASSUME NEW s \in Sheet, NEW amount \in Nat
    PROVE  Owed(TrackIn(s, amount)) = IF Owed(s) > amount THEN Owed(s) - amount ELSE 0
<1>1. /\ TrackIn(s, amount).loaned = s.loaned
      /\ TrackIn(s, amount).repaid = s.repaid + amount
  BY DEF TrackIn, Sheet
<1>2. s.loaned \in Nat /\ s.repaid \in Nat
  BY OwedNat
<1> QED BY <1>1, <1>2 DEF Owed

-----------------------------------------------------------------------------
(* Loans.                                                                  *)

\* A digest names the underwriter it is lent by.
LEMMA DigestInDigests ==
    ASSUME NEW r \in Requests, NEW u \in Underwriters
    PROVE  /\ Digest(r, u) \in Digests
           /\ Digest(r, u).underwriter = u
           /\ Digest(r, u).module = r.module
           /\ Digest(r, u).nonce = r.nonce
  BY DEF Digest, Digests

-----------------------------------------------------------------------------
(* Type correctness.  First what the helpers return.                       *)

\* What an estimate or a trade makes of an amount misses it by no more than
\* MaxDrift.
LEMMA WorthBound ==
    ASSUME NEW x \in Nat, NEW y \in Worth(x)
    PROVE  /\ y \in Nat
           /\ y <= x + MaxDrift
           /\ x <= y + MaxDrift
<1>1. MaxDrift \in Nat
  BY DeskAssumption
<1>2. CASE x = 0
  BY <1>1, <1>2 DEF Worth
<1>3. CASE x # 0
  <2>1. PICK d \in Drifts : y = x + d /\ x + d >= 0
    BY <1>3 DEF Worth
  <2>2. d \in Int /\ d >= -MaxDrift /\ d <= MaxDrift
    BY <1>1, DeskAssumption
  <2> QED BY <1>1, <2>1, <2>2
<1> QED BY <1>2, <1>3

LEMMA SentNat ==
    ASSUME TypeOK, NEW r \in Requests, NEW gas \in Worth(params.txGas),
           LoanCovered(r.amount, gas)
    PROVE  DeductFee(r.amount, gas) \in Nat
<1>1. r.amount \in Nat /\ params.baseFee \in Nat /\ params.txGas \in Nat
  BY DeskAssumption DEF TypeOK, Request, ParamsType
<1>2. Unit - params.fee \in Nat
  <2>1. params.fee \in 0 .. Unit
    BY DeskAssumption DEF TypeOK, ParamsType
  <2> QED BY <2>1, SheetAssumption
<1>3. FeeOn(r.amount) \in Nat
  BY <1>1, <1>2, MulNat, DivNat, SheetAssumption DEF FeeOn
<1>4. gas \in Nat
  BY <1>1, WorthBound
<1> QED BY <1>1, <1>3, <1>4 DEF DeductFee, LoanCovered

\* What meta charges is at least the gas it paid.
LEMMA AddFeeBound ==
    ASSUME TypeOK, NEW gas \in Nat
    PROVE  AddFee(gas) \in Nat /\ AddFee(gas) >= gas
<1>1. params.fee \in Nat /\ params.baseFee \in Nat /\ Unit \in Nat \ {0}
  <2>1. params.fee \in 0 .. Unit /\ params.baseFee \in Nat
    BY DeskAssumption DEF TypeOK, ParamsType
  <2> QED BY <2>1, SheetAssumption
<1>2. gas * (Unit + params.fee) = gas * Unit + gas * params.fee /\ gas * params.fee \in Nat
  BY <1>1, MulNat
<1>3. (gas * (Unit + params.fee)) \div Unit \in Nat
  BY <1>1, <1>2, MulNat, DivNat
<1>4. (gas * (Unit + params.fee)) \div Unit >= gas
  <2>1. gas * Unit \in Nat /\ gas * (Unit + params.fee) \in Nat
    BY <1>1, MulNat
  <2>2. gas * (Unit + params.fee) = gas * Unit \/ gas * (Unit + params.fee) > gas * Unit
    BY <1>2, <2>1
  <2> QED BY <1>1, <2>1, <2>2, DivOfMore
<1> QED BY <1>1, <1>3, <1>4 DEF AddFee

\* What burn sends to the gateway is at most the amount less the gas.
LEMMA ActualBound ==
    ASSUME TypeOK, NEW amount \in Nat, NEW gas \in Nat, amount >= gas,
           ActualAmount(amount, gas) >= 0
    PROVE  /\ ActualAmount(amount, gas) \in Nat
           /\ ActualAmount(amount, gas) <= amount - gas
<1> DEFINE rest == amount - gas
<1>1. /\ params.fee \in 0 .. Unit /\ params.baseFee \in Nat
      /\ Unit \in Nat \ {0}
  BY DeskAssumption, SheetAssumption DEF TypeOK, ParamsType
<1>2. rest \in Nat /\ Unit - params.fee \in Nat
  BY <1>1
<1>3. rest * (Unit - params.fee) \in Nat /\ rest * (Unit - params.fee) <= rest * Unit
  <2>1. rest * (Unit - params.fee) = rest * Unit - rest * params.fee
    BY <1>1, <1>2
  <2>2. rest * params.fee \in Nat /\ rest * (Unit - params.fee) \in Nat /\ rest * Unit \in Nat
    BY <1>1, <1>2, MulNat
  <2> QED BY <2>1, <2>2
<1>4. FeeOn(rest) \in Nat /\ FeeOn(rest) <= rest
  BY <1>1, <1>2, <1>3, DivNat, DivOfLess DEF FeeOn
<1>5. ActualAmount(amount, gas) = FeeOn(rest) - params.baseFee
  BY DEF ActualAmount
<1> HIDE DEF rest
<1>6. ActualAmount(amount, gas) \in Nat /\ ActualAmount(amount, gas) <= rest
  BY <1>1, <1>2, <1>4, <1>5
<1> QED BY <1>1, <1>6 DEF rest

LEMMA TrackedNat ==
    ASSUME NEW amount \in Nat
    PROVE  Tracked(amount) \in Nat
  BY DEF Tracked

LEMMA ReserveNat ==
    ASSUME NEW m, NEW amount \in Nat
    PROVE  ReserveRequirement(m, amount) \in Nat
  BY DEF ReserveRequirement

LEMMA SendType ==
    ASSUME strategy \in Strategy, NEW m, NEW amount \in Nat, NEW cost \in Nat,
           CanSend(m, amount, cost)
    PROVE  AfterSend(m, amount, cost) \in Strategy
  BY DEF AfterSend, CanSend, FromVault, Strategy

LEMMA EtherType ==
    ASSUME NEW s \in Strategy, NEW refund \in Nat, NEW cost \in Nat,
           CanPayEther(s, refund, cost)
    PROVE  PayEther(s, refund, cost) \in Strategy
  BY DeskAssumption DEF PayEther, CanPayEther, Strategy

LEMMA RefundType ==
    ASSUME NEW s \in Strategy, RefundEther(s)
    PROVE  strategy' \in Strategy
<1>1. PICK refund \in GasRefunds : \E cost \in Worth(refund) :
         CanPayEther(s, refund, cost) /\ strategy' = PayEther(s, refund, cost)
  BY DEF RefundEther
<1>2. PICK cost \in Worth(refund) :
         CanPayEther(s, refund, cost) /\ strategy' = PayEther(s, refund, cost)
  BY <1>1
<1>3. refund \in Nat /\ cost \in Nat
  BY WorthBound, DeskAssumption
<1> QED BY <1>2, <1>3, EtherType

\* A loan ends with an amount sent at a cost, what arrives of it received, and
\* a refund.
LEMMA LoanParts ==
    ASSUME TypeOK, NEW r \in Requests, NEW u \in Underwriters, Loan(r, u)
    PROVE  \E amount, cost, sent \in Nat :
              /\ CanSend(r.module, amount, cost)
              /\ ReceiveLoan(r, sent) \/ QuickReceiveLoan(r, sent)
              /\ RefundEther(AfterSend(r.module, amount, cost))
<1>1. PICK gas \in Worth(params.txGas) :
         LoanCovered(r.amount, gas) /\ Lend(r, DeductFee(r.amount, gas))
  BY DEF Loan
<1> DEFINE amount == DeductFee(r.amount, gas)
<1>2. amount \in Nat
  BY <1>1, SentNat
<1> HIDE DEF amount
<1>3. PICK cost \in Worth(amount), sent \in Sent(r.module, amount) :
         /\ CanSend(r.module, amount, cost)
         /\ ReceiveLoan(r, sent) \/ QuickReceiveLoan(r, sent)
         /\ RefundEther(AfterSend(r.module, amount, cost))
  BY <1>1 DEF Lend, amount
<1>4. cost \in Nat /\ sent \in Nat
  BY <1>2, WorthBound DEF Sent
<1> QED BY <1>2, <1>3, <1>4

Value(s) == s.want + s.vault + s.ether

\* Ether paid costs the strategy no more than the ether and what the estimate
\* of its shares misses, and takes nothing else.
LEMMA EtherValue ==
    ASSUME NEW s \in Strategy, NEW refund \in Nat, NEW cost \in Worth(refund),
           CanPayEther(s, refund, cost)
    PROVE  Value(PayEther(s, refund, cost)) + refund + MaxDrift >= Value(s)
<1>1. s.want \in Nat /\ s.vault \in Nat /\ s.ether \in Nat /\ MaxDrift \in Nat
  BY DeskAssumption DEF Strategy
<1>2. cost \in Nat /\ cost <= refund + MaxDrift
  BY WorthBound
<1>3. CASE refund > GasReserve
  <2>1. PayEther(s, refund, cost) = [s EXCEPT !.vault = s.vault - cost]
    BY <1>3 DEF PayEther
  <2>2. Value(PayEther(s, refund, cost)) = s.want + (s.vault - cost) + s.ether
    BY <2>1 DEF Strategy, Value
  <2> QED BY <1>1, <1>2, <2>2 DEF Value
<1>4. CASE ~ (refund > GasReserve)
  <2>1. PayEther(s, refund, cost) = [s EXCEPT !.ether = s.ether - refund]
    BY <1>4 DEF PayEther
  <2>2. Value(PayEther(s, refund, cost)) = s.want + s.vault + (s.ether - refund)
    BY <2>1 DEF Strategy, Value
  <2> QED BY <1>1, <2>2 DEF Value
<1> QED BY <1>3, <1>4

LEMMA ExcessNat ==
    ASSUME NEW s \in Strategy
    PROVE  /\ s.want \in Nat /\ s.vault \in Nat /\ s.ether \in Nat
           /\ Excess(s) \in Nat /\ s.want - Excess(s) \in Nat
           /\ EtherDeficit(s) \in Nat
<1>1. s.want \in Nat /\ s.vault \in Nat /\ s.ether \in Nat
  BY DEF Strategy
<1>2. Excess(s) \in Nat /\ s.want - Excess(s) \in Nat
  BY <1>1, DeskAssumption DEF Excess
<1>3. EtherDeficit(s) \in Nat
  BY <1>1, DeskAssumption DEF EtherDeficit
<1> QED BY <1>1, <1>2, <1>3

\* Depositing moves value inside the strategy, in three trades.
LEMMA DepositValue ==
    ASSUME NEW s \in Strategy, NEW put \in Worth(Excess(s)),
           NEW cost \in Worth(EtherDeficit(s)), NEW got \in Worth(EtherDeficit(s))
    PROVE  Value(AfterDeposit(s, put, cost, got)) + 3 * MaxDrift >= Value(s)
<1>1. /\ s.want \in Nat /\ s.vault \in Nat /\ s.ether \in Nat
      /\ Excess(s) \in Nat /\ EtherDeficit(s) \in Nat
  BY ExcessNat
<1>2. put \in Nat /\ Excess(s) <= put + MaxDrift
  BY <1>1, WorthBound
<1>3. cost \in Nat /\ cost <= EtherDeficit(s) + MaxDrift
  BY <1>1, WorthBound
<1>4. got \in Nat /\ EtherDeficit(s) <= got + MaxDrift
  BY <1>1, WorthBound
<1>5. Value(AfterDeposit(s, put, cost, got))
        = (s.want - Excess(s)) + (s.vault + put - cost) + (s.ether + got)
  BY DEF AfterDeposit, Value
<1>6. MaxDrift \in Nat
  BY DeskAssumption
<1> QED BY <1>1, <1>2, <1>3, <1>4, <1>5, <1>6 DEF Value

LEMMA DepositType ==
    ASSUME NEW s \in Strategy, NEW put \in Worth(Excess(s)),
           NEW cost \in Worth(EtherDeficit(s)), NEW got \in Worth(EtherDeficit(s)),
           CanDeposit(s, put, cost)
    PROVE  AfterDeposit(s, put, cost, got) \in Strategy
<1>1. /\ s.want \in Nat /\ s.vault \in Nat /\ s.ether \in Nat
      /\ Excess(s) \in Nat /\ s.want - Excess(s) \in Nat /\ EtherDeficit(s) \in Nat
  BY ExcessNat
<1>2. put \in Nat /\ cost \in Nat /\ got \in Nat
  BY <1>1, WorthBound
<1>3. s.vault + put - cost \in Nat
  <2>1. CASE EtherDeficit(s) > 0
    BY <1>1, <1>2, <2>1 DEF CanDeposit
  <2>2. CASE EtherDeficit(s) = 0
    <3>1. cost = 0
      BY <2>2 DEF Worth
    <3> QED BY <1>1, <1>2, <3>1
  <2> QED BY <1>1, <2>1, <2>2
<1> QED BY <1>1, <1>2, <1>3 DEF AfterDeposit, Strategy

LEMMA MintedNat ==
    ASSUME TypeOK, NEW dep \in deposits, NEW r \in Requests, GatewayMint(dep, r)
    PROVE  /\ Minted(dep) \in Nat /\ dep.amount \in Nat /\ dep.id \in DepositIds
<1>1. dep \in DepositSet
  BY DEF TypeOK
<1>2. dep.id \in DepositIds /\ dep.amount \in DepositAmounts
  BY <1>1 DEF DepositSet
<1>3. dep.amount \in Nat /\ MintFee \in Nat /\ dep.amount >= MintFee
  BY <1>2, DeskAssumption DEF GatewayMint
<1> QED BY <1>2, <1>3 DEF Minted

LEMMA RequestType ==
    ASSUME NEW r \in Requests
    PROVE  /\ r.to \in Users /\ r.amount \in Nat /\ r.module \in Modules /\ r.nonce \in Nonces
  BY DeskAssumption DEF Request

\* A record of the right shape keeps the table of records well typed.
LEMMA SetRecordType ==
    ASSUME TypeOK, NEW m \in Modules, NEW n \in Nonces, NEW rec \in Record,
           SetRecord(m, n, rec)
    PROVE  outstanding' \in [Modules -> [Nonces -> Record]]
  BY DEF SetRecord, TypeOK

LEMMA RecordType ==
    ASSUME TypeOK, NEW m \in Modules, NEW n \in Nonces
    PROVE  outstanding[m][n].qty \in Nat /\ outstanding[m][n].when \in Nat
  BY DEF TypeOK, Record

LEMMA NoRecordType == NoRecord \in Record
  BY DEF NoRecord, Record

LEMMA TimestampNat ==
    ASSUME TypeOK PROVE BlockTimestamp(block) \in Nat
<1>1. BlockSeconds * block \in Nat
  BY MulNat, DeskAssumption DEF TypeOK
<1> QED BY <1>1, DeskAssumption DEF BlockTimestamp

LEMMA TypeInit == Init => TypeOK
<1> SUFFICES ASSUME Init PROVE TypeOK
  OBVIOUS
<1>1. EmptySheet \in Sheet
  BY SheetAssumption DEF EmptySheet, Sheet, Word
<1>2. NoLoan \in [underwriter : Underwriters \union {NoOwner}, status : LoanStatusCode]
  BY DEF NoLoan, LoanStatusCode
<1>3. strategy \in Strategy
  BY DeskAssumption DEF Init, Strategy
<1> QED
  BY <1>1, <1>2, <1>3, NoRecordType, DeskAssumption DEF Init, TypeOK

LEMMA LoanType ==
    ASSUME TypeOK, NEW r \in Requests, NEW u \in Underwriters, Loan(r, u)
    PROVE  TypeOK'
<1> DEFINE tracked == Tracked(r.amount)
<1>1. r.to \in Users /\ r.amount \in Nat /\ r.module \in Modules /\ r.nonce \in Nonces
  BY RequestType
<1>2. PICK amount, cost, sent \in Nat :
         /\ CanSend(r.module, amount, cost)
         /\ ReceiveLoan(r, sent) \/ QuickReceiveLoan(r, sent)
         /\ RefundEther(AfterSend(r.module, amount, cost))
  BY LoanParts
<1>3. tracked \in Nat /\ ReserveRequirement(r.module, tracked) \in Nat
  BY <1>1, TrackedNat, ReserveNat
<1>4. sheet' \in [Underwriters -> Sheet]
  <2>1. sheet[u] \in Sheet /\ TrackOutDefined(sheet[u], tracked)
    BY DEF TypeOK, Loan
  <2>2. TrackOut(sheet[u], tracked, ReserveRequirement(r.module, tracked)) \in Sheet
    BY <1>3, <2>1, TrackOutType
  <2> QED BY <2>2 DEF Loan, TypeOK
<1>5. loanStatus' \in [Digests -> [underwriter : Underwriters \union {NoOwner},
                                  status : LoanStatusCode]]
  BY DigestInDigests DEF Loan, TypeOK, LoanStatusCode
<1>6. strategy' \in Strategy
  <2>1. AfterSend(r.module, amount, cost) \in Strategy
    BY <1>2, SendType DEF TypeOK
  <2> QED BY <1>2, <2>1, RefundType
<1>7. CASE ReceiveLoan(r, sent)
  <2>1. PICK loss \in Slippages :
            /\ loss <= sent
            /\ SetRecord(r.module, r.nonce,
                         [qty |-> sent - loss, when |-> BlockTimestamp(block)])
            /\ held' = [held EXCEPT ![r.module] = @ + (sent - loss)]
    BY <1>7 DEF ReceiveLoan
  <2>2. sent - loss \in Nat
    BY <1>2, <2>1, DeskAssumption
  <2>3. [qty |-> sent - loss, when |-> BlockTimestamp(block)] \in Record
    BY <2>2, TimestampNat DEF Record
  <2>4. outstanding' \in [Modules -> [Nonces -> Record]]
    BY <1>1, <2>1, <2>3, SetRecordType
  <2>5. held' \in [Modules -> Nat]
    BY <1>1, <2>1, <2>2 DEF TypeOK
  <2> QED
    BY <1>4, <1>5, <1>6, <1>7, <2>4, <2>5 DEF Loan, ReceiveLoan, TypeOK
<1>8. CASE QuickReceiveLoan(r, sent)
  <2>1. PICK loss \in Slippages :
            loss <= sent /\ wallet' = [wallet EXCEPT ![r.to] = @ + (sent - loss)]
    BY <1>8 DEF QuickReceiveLoan
  <2>2. sent - loss \in Nat
    BY <1>2, <2>1, DeskAssumption
  <2>3. wallet' \in [Users -> Nat]
    BY <1>1, <2>1, <2>2 DEF TypeOK
  <2>4. [qty |-> sent, when |-> block] \in Record
    BY <1>2 DEF Record, TypeOK
  <2>5. outstanding' \in [Modules -> [Nonces -> Record]]
    BY <1>1, <1>8, <2>4, SetRecordType DEF QuickReceiveLoan
  <2>6. capacity' \in [QuickModules -> Nat]
    BY <1>2, <1>8 DEF QuickReceiveLoan, TypeOK
  <2> QED
    BY <1>4, <1>5, <1>6, <1>8, <2>3, <2>5, <2>6 DEF Loan, QuickReceiveLoan, TypeOK
<1> QED BY <1>2, <1>7, <1>8

LEMMA RepayType ==
    ASSUME TypeOK, NEW caller \in Underwriters, NEW u \in Underwriters,
           NEW r \in Requests, NEW dep \in deposits, Repay(caller, r, u, dep)
    PROVE  TypeOK'
<1> DEFINE qty == outstanding[r.module][r.nonce].qty
<1>1. r.to \in Users /\ r.module \in Modules /\ r.nonce \in Nonces
  BY RequestType
<1>2. Minted(dep) \in Nat /\ dep.amount \in Nat /\ dep.id \in DepositIds
  BY MintedNat DEF Repay
<1>3. sheet' \in [Underwriters -> Sheet]
  <2>1. sheet[caller] \in Sheet /\ TrackInDefined(sheet[caller], dep.amount)
    BY DEF TypeOK, Repay
  <2>2. TrackIn(sheet[caller], dep.amount) \in Sheet
    BY <1>2, <2>1, TrackInType
  <2> QED BY <2>2 DEF Repay, TypeOK
<1>4. claim' \in [DepositIds -> {"none", "repay", "fallback"}]
  BY DEF Repay, TypeOK
<1>5. strategy' \in Strategy /\ desk' \in Nat
  <2> DEFINE swept == [strategy EXCEPT !.want = @ + desk + Minted(dep)]
  <2>1. swept \in Strategy
    BY <1>2 DEF TypeOK, Strategy
  <2>2. RefundEther(swept)
    BY DEF Repay
  <2>3. strategy' \in Strategy
    BY <2>1, <2>2, RefundType
  <2> QED BY <2>3 DEF Repay
<1>6. qty \in Nat
  BY <1>1, RecordType
<1>7. CASE RepayLoan(r)
  <2>1. outstanding' \in [Modules -> [Nonces -> Record]]
    BY <1>1, <1>7, SetRecordType, NoRecordType DEF RepayLoan
  <2>2. wallet' \in [Users -> Nat] /\ held' \in [Modules -> Nat]
    BY <1>1, <1>6, <1>7 DEF RepayLoan, TypeOK
  <2> QED BY <1>3, <1>4, <1>5, <1>7, <2>1, <2>2 DEF Repay, RepayLoan, TypeOK
<1>8. CASE QuickRepayLoan(r)
  <2>1. outstanding' \in [Modules -> [Nonces -> Record]]
    BY <1>1, <1>8, SetRecordType, NoRecordType DEF QuickRepayLoan
  <2>2. capacity' \in [QuickModules -> Nat]
    BY <1>1, <1>6, <1>8 DEF QuickRepayLoan, TypeOK
  <2> QED BY <1>3, <1>4, <1>5, <1>8, <2>1, <2>2 DEF Repay, QuickRepayLoan, TypeOK
<1> QED BY <1>7, <1>8 DEF Repay

\* What a meta call does, with the estimate and the cost of its gas.
MetaDoes(caller, e, gas, gasInRen, cost) ==
    /\ CanPayEther(strategy, gas, cost)
    /\ TrackInDefined(sheet[caller], AddFee(gasInRen))
    /\ sheet' = [sheet EXCEPT ![caller] = TrackIn(@, AddFee(gasInRen))]
    /\ purse[e] >= RepayMeta(e, gasInRen)
    /\ purse' = [purse EXCEPT ![e] = @ - RepayMeta(e, gasInRen)]
    /\ strategy' = [PayEther(strategy, gas, cost) EXCEPT
                       !.want = @ + desk + RepayMeta(e, gasInRen)]

LEMMA MetaParts ==
    ASSUME TypeOK, NEW caller \in Underwriters, NEW e \in Executors, Meta(caller, e)
    PROVE  \E gas \in Nat : \E gasInRen, cost \in Worth(gas) :
              MetaDoes(caller, e, gas, gasInRen, cost)
<1>1. PICK gas \in GasRefunds :
         \E gasInRen, cost \in Worth(gas) : MetaDoes(caller, e, gas, gasInRen, cost)
  BY DEF Meta, MetaDoes
<1> QED BY <1>1, DeskAssumption

LEMMA MetaType ==
    ASSUME TypeOK, NEW caller \in Underwriters, NEW e \in Executors, Meta(caller, e)
    PROVE  TypeOK'
<1>1. PICK gas \in Nat : \E gasInRen, cost \in Worth(gas) :
         MetaDoes(caller, e, gas, gasInRen, cost)
  BY MetaParts
<1>2. PICK gasInRen, cost \in Worth(gas) : MetaDoes(caller, e, gas, gasInRen, cost)
  BY <1>1
<1>3. /\ gasInRen \in Nat /\ cost \in Nat /\ AddFee(gasInRen) \in Nat
      /\ RepayMeta(e, gasInRen) \in Nat
  BY WorthBound, AddFeeBound DEF RepayMeta
<1>4. sheet' \in [Underwriters -> Sheet]
  <2>1. TrackIn(sheet[caller], AddFee(gasInRen)) \in Sheet
    BY <1>2, <1>3, TrackInType DEF MetaDoes, TypeOK
  <2> QED BY <1>2, <2>1 DEF MetaDoes, TypeOK
<1>5. purse' \in [Executors -> Nat]
  BY <1>2, <1>3 DEF MetaDoes, TypeOK
<1>6. strategy' \in Strategy
  <2>1. PayEther(strategy, gas, cost) \in Strategy
    BY <1>2, <1>3, EtherType DEF MetaDoes, TypeOK
  <2> QED BY <1>2, <1>3, <2>1 DEF MetaDoes, TypeOK, Strategy
<1> QED BY <1>4, <1>5, <1>6 DEF Meta, TypeOK

\* What a burn does to the strategy, with the estimate and the cost of its gas.
LEMMA BurnParts ==
    ASSUME TypeOK, NEW caller \in Underwriters, NEW a \in Users, NEW amount \in BurnAmounts,
           Burn(caller, a, amount)
    PROVE  \E gasInRen, cost \in Worth(params.burnGas), actual \in Nat :
              /\ actual <= amount - gasInRen
              /\ CanPayEther(strategy, params.burnGas, cost)
              /\ strategy' = [PayEther(strategy, params.burnGas, cost) EXCEPT
                                 !.want = @ + desk + amount - actual]
<1>1. PICK gasInRen, cost \in Worth(params.burnGas) :
         /\ CanPayEther(strategy, params.burnGas, cost)
         /\ amount >= gasInRen
         /\ ActualAmount(amount, gasInRen) >= 0
         /\ strategy' = [PayEther(strategy, params.burnGas, cost) EXCEPT
                            !.want = @ + desk + amount - ActualAmount(amount, gasInRen)]
  BY DEF Burn
<1>2. amount \in Nat /\ params.burnGas \in Nat
  BY DeskAssumption DEF TypeOK, ParamsType
<1>3. gasInRen \in Nat
  BY <1>2, WorthBound
<1>4. /\ ActualAmount(amount, gasInRen) \in Nat
      /\ ActualAmount(amount, gasInRen) <= amount - gasInRen
  BY <1>1, <1>2, <1>3, ActualBound
<1> QED BY <1>1, <1>4

LEMMA BurnType ==
    ASSUME TypeOK, NEW caller \in Underwriters, NEW a \in Users, NEW amount \in BurnAmounts,
           Burn(caller, a, amount)
    PROVE  TypeOK'
<1>1. amount \in Nat /\ params.burnGas \in Nat
  BY DeskAssumption DEF TypeOK, ParamsType
<1>2. PICK gasInRen, cost \in Worth(params.burnGas), actual \in Nat :
         /\ actual <= amount - gasInRen
         /\ CanPayEther(strategy, params.burnGas, cost)
         /\ strategy' = [PayEther(strategy, params.burnGas, cost) EXCEPT
                            !.want = @ + desk + amount - actual]
  BY BurnParts
<1>3. wallet' \in [Users -> Nat]
  BY <1>1 DEF Burn, TypeOK
<1>4. gasInRen \in Nat /\ cost \in Nat
  BY <1>1, WorthBound
<1>5. strategy' \in Strategy
  <2>1. PayEther(strategy, params.burnGas, cost) \in Strategy
    BY <1>1, <1>2, <1>4, EtherType DEF TypeOK
  <2>2. PICK s \in Strategy : strategy' = [s EXCEPT !.want = @ + desk + amount - actual]
    BY <1>2, <2>1
  <2>3. s.want + desk + amount - actual \in Nat
    BY <1>1, <1>2, <1>4 DEF TypeOK, Strategy
  <2> QED BY <2>2, <2>3 DEF Strategy
<1> QED BY <1>3, <1>5 DEF Burn, TypeOK

LEMMA FallbackType ==
    ASSUME TypeOK, NEW r \in Requests, NEW u \in Underwriters, NEW dep \in deposits,
           FallbackMint(r, u, dep)
    PROVE  TypeOK'
<1>1. r.to \in Users
  BY RequestType
<1>2. Minted(dep) \in Nat /\ dep.id \in DepositIds
  BY MintedNat DEF FallbackMint
<1>3. wallet' \in [Users -> Nat]
  BY <1>1, <1>2 DEF FallbackMint, TypeOK
<1>4. claim' \in [DepositIds -> {"none", "repay", "fallback"}]
  BY <1>2 DEF FallbackMint, TypeOK
<1>5. loanStatus' \in [Digests -> [underwriter : Underwriters \union {NoOwner},
                                  status : LoanStatusCode]]
  BY DigestInDigests DEF FallbackMint, TypeOK, NoLoan, LoanStatusCode
<1> QED BY <1>3, <1>4, <1>5 DEF FallbackMint, TypeOK

LEMMA DefaultType ==
    ASSUME TypeOK, NEW m \in Modules, NEW n \in Nonces, DefaultLoan(m, n)
    PROVE  TypeOK'
<1> DEFINE qty == outstanding[m][n].qty
<1>1. qty \in Nat
  BY RecordType
<1>2. PICK loss \in Slippages : loss <= qty /\ desk' = desk + (qty - loss)
  BY DEF DefaultLoan
<1>3. desk' \in Nat
  BY <1>1, <1>2, DeskAssumption DEF TypeOK
<1>4. held' \in [Modules -> Nat]
  BY <1>1 DEF DefaultLoan, TypeOK
<1>5. outstanding' \in [Modules -> [Nonces -> Record]]
  BY SetRecordType, NoRecordType DEF DefaultLoan
<1> QED BY <1>3, <1>4, <1>5 DEF DefaultLoan, TypeOK

LEMMA QuickDefaultType ==
    ASSUME TypeOK, NEW m \in QuickModules, NEW n \in Nonces, QuickDefaultLoan(m, n)
    PROVE  TypeOK'
<1>1. m \in Modules
  BY DeskAssumption
<1>2. outstanding[m][n].qty \in Nat
  BY <1>1, RecordType
<1>3. capacity' \in [QuickModules -> Nat]
  BY <1>2 DEF QuickDefaultLoan, TypeOK
<1>4. outstanding' \in [Modules -> [Nonces -> Record]]
  BY <1>1, SetRecordType, NoRecordType DEF QuickDefaultLoan
<1> QED BY <1>3, <1>4 DEF QuickDefaultLoan, TypeOK

LEMMA EarnType ==
    ASSUME TypeOK, NEW amount \in EarnAmounts, Earn(amount)
    PROVE  TypeOK'
<1> DEFINE s == [strategy EXCEPT !.want = @ + amount]
<1>1. amount \in Nat /\ desk >= amount
  BY DeskAssumption DEF Earn
<1>2. s \in Strategy
  BY <1>1 DEF TypeOK, Strategy
<1>3. PICK put \in Worth(Excess(s)), cost, got \in Worth(EtherDeficit(s)) :
         CanDeposit(s, put, cost) /\ strategy' = AfterDeposit(s, put, cost, got)
  BY DEF Earn
<1>4. strategy' \in Strategy
  BY <1>2, <1>3, DepositType
<1>5. desk' \in Nat
  BY <1>1 DEF Earn, TypeOK
<1> QED BY <1>4, <1>5 DEF Earn, TypeOK

\* Governance, the locks and the environment.
LEMMA SettingsType ==
    ASSUME TypeOK,
           \/ \E caller, u \in Underwriters : Mint(caller, u)
           \/ \E m \in Modules \union Executors, isApproved \in BOOLEAN :
                ApproveModule(m, isApproved)
           \/ \E f \in Fees : SetFee(f)
           \/ \E f \in BaseFees : SetBaseFeeByAsset(f)
           \/ \E g \in TxGases, b \in BurnGases : SetGasParameters(g, b)
           \/ \E dep \in DepositSet : Deposit(dep)
           \/ MineBlock
    PROVE  TypeOK'
<1>1. CASE \E caller, u \in Underwriters : Mint(caller, u)
  BY <1>1 DEF Mint, TypeOK
<1>2. CASE \E m \in Modules \union Executors, isApproved \in BOOLEAN :
              ApproveModule(m, isApproved)
  BY <1>2 DEF ApproveModule, TypeOK
<1>3. CASE \E f \in Fees : SetFee(f)
  BY <1>3 DEF SetFee, SetParams, TypeOK, ParamsType
<1>4. CASE \E f \in BaseFees : SetBaseFeeByAsset(f)
  BY <1>4 DEF SetBaseFeeByAsset, SetParams, TypeOK, ParamsType
<1>5. CASE \E g \in TxGases, b \in BurnGases : SetGasParameters(g, b)
  <2>1. PICK g \in TxGases, b \in BurnGases :
           SetParams([params EXCEPT !.txGas = g, !.burnGas = b])
    BY <1>5 DEF SetGasParameters
  <2>2. [params EXCEPT !.txGas = g, !.burnGas = b] \in ParamsType
    BY DEF TypeOK, ParamsType
  <2> QED BY <2>1, <2>2 DEF SetParams, TypeOK
<1>6. CASE \E dep \in DepositSet : Deposit(dep)
  BY <1>6 DEF Deposit, TypeOK
<1>7. CASE MineBlock
  BY <1>7 DEF MineBlock, TypeOK
<1> QED BY <1>1, <1>2, <1>3, <1>4, <1>5, <1>6, <1>7

LEMMA TypeStep == TypeOK /\ [Next]_vars => TypeOK'
<1> SUFFICES ASSUME TypeOK, [Next]_vars PROVE TypeOK'
  OBVIOUS
<1>1. CASE \E r \in Requests, u \in Underwriters : Loan(r, u)
  BY <1>1, LoanType
<1>2. CASE \E caller, u \in Underwriters, r \in Requests, dep \in deposits :
              Repay(caller, r, u, dep)
  BY <1>2, RepayType
<1>3. CASE \E r \in Requests, u \in Underwriters, dep \in deposits : FallbackMint(r, u, dep)
  BY <1>3, FallbackType
<1>4. CASE \E m \in Modules \ QuickModules, n \in Nonces : DefaultLoan(m, n)
  BY <1>4, DefaultType
<1>5. CASE \E m \in QuickModules, n \in Nonces : QuickDefaultLoan(m, n)
  BY <1>5, QuickDefaultType
<1>6. CASE \E amount \in EarnAmounts : Earn(amount)
  BY <1>6, EarnType
<1>7. CASE \E caller \in Underwriters, e \in Executors : Meta(caller, e)
  BY <1>7, MetaType
<1>8. CASE \E caller \in Underwriters, a \in Users, amount \in BurnAmounts :
              Burn(caller, a, amount)
  BY <1>8, BurnType
<1>9. CASE UNCHANGED vars
  BY <1>9 DEF vars, TypeOK
<1> QED
  BY <1>1, <1>2, <1>3, <1>4, <1>5, <1>6, <1>7, <1>8, <1>9, SettingsType DEF Next

\* Every balance of the desk stays a natural number: no call takes more than
\* there is, for any fees, refunds, slippage and timeouts.
THEOREM TypeCorrect == Spec => []TypeOK
  BY TypeInit, TypeStep, PTL DEF Spec

-----------------------------------------------------------------------------
(* Loans and records.  RecordHasLoan is inductive relative to TypeOK: a     *)
(* status is never lowered, and only Loan makes a record active.           *)

\* A record set anew is the only one that changes.
LEMMA SetRecordEffect ==
    ASSUME TypeOK, NEW m \in Modules, NEW n \in Nonces, NEW rec,
           SetRecord(m, n, rec)
    PROVE  /\ outstanding'[m][n] = rec
           /\ \A k \in Modules, i \in Nonces :
                (k # m \/ i # n) => outstanding'[k][i] = outstanding[k][i]
  BY DEF SetRecord, TypeOK

\* Clearing a record, or leaving the table alone, keeps every active record
\* backed as long as the loans stay.
LEMMA ClearedRecords ==
    ASSUME TypeOK, RecordHasLoan, UNCHANGED loanStatus,
           \/ UNCHANGED outstanding
           \/ \E m \in Modules, n \in Nonces : SetRecord(m, n, NoRecord)
    PROVE  RecordHasLoan'
<1>1. CASE UNCHANGED outstanding
  BY <1>1 DEF RecordHasLoan, Active, Unpaid
<1>2. ASSUME NEW m \in Modules, NEW n \in Nonces, SetRecord(m, n, NoRecord)
      PROVE  RecordHasLoan'
  <2>1. \A k \in Modules, i \in Nonces : Active(k, i)' => Active(k, i)
    BY <1>2, SetRecordEffect DEF Active, NoRecord
  <2> QED BY <2>1 DEF RecordHasLoan, Unpaid
<1> QED BY <1>1, <1>2

LEMMA LoanKeepsRecords ==
    ASSUME TypeOK, RecordHasLoan, NEW r \in Requests, NEW u \in Underwriters, Loan(r, u)
    PROVE  RecordHasLoan'
<1> DEFINE d == Digest(r, u)
<1>1. /\ d \in Digests /\ d.underwriter = u
      /\ d.module = r.module /\ d.nonce = r.nonce
  BY DigestInDigests
<1>2. /\ loanStatus'[d] = [underwriter |-> u, status |-> "UNPAID"]
      /\ \A e \in Digests : e # d => loanStatus'[e] = loanStatus[e]
  BY <1>1 DEF Loan, TypeOK
<1>4. \E rec : SetRecord(r.module, r.nonce, rec)
  <2>1. PICK sent \in Nat : ReceiveLoan(r, sent) \/ QuickReceiveLoan(r, sent)
    BY LoanParts
  <2> QED BY <2>1 DEF ReceiveLoan, QuickReceiveLoan
<1>5. \A k \in Modules, i \in Nonces :
         (k # r.module \/ i # r.nonce) => outstanding'[k][i] = outstanding[k][i]
  BY <1>4, RequestType, SetRecordEffect
<1>6. ASSUME NEW k \in Modules, NEW i \in Nonces, Active(k, i)'
      PROVE  \E e \in Digests : Unpaid(e)' /\ e.module = k /\ e.nonce = i
  <2>1. CASE k = r.module /\ i = r.nonce
    BY <1>1, <1>2, <2>1 DEF Unpaid
  <2>2. CASE k # r.module \/ i # r.nonce
    <3>1. Active(k, i)
      BY <1>5, <1>6, <2>2 DEF Active
    <3>2. PICK e \in Digests : Unpaid(e) /\ e.module = k /\ e.nonce = i
      BY <3>1 DEF RecordHasLoan
    <3>3. Unpaid(e)'
      BY <1>2, <3>2 DEF Unpaid
    <3> QED BY <3>2, <3>3
  <2> QED BY <2>1, <2>2
<1> QED BY <1>6 DEF RecordHasLoan

\* fallbackMint's delete hits an entry that was never set.
LEMMA FallbackKeepsStatus ==
    ASSUME TypeOK, NEW r \in Requests, NEW u \in Underwriters, NEW dep \in deposits,
           FallbackMint(r, u, dep)
    PROVE  \A d \in Digests : (Unpaid(d)' <=> Unpaid(d))
                             /\ (Unpaid(d) => loanStatus'[d] = loanStatus[d])
  BY DigestInDigests DEF FallbackMint, MayFallback, NoLoan, Unpaid, TypeOK

LEMMA RecordsInit == Init => RecordHasLoan
  BY DEF Init, RecordHasLoan, Active, NoRecord

LEMMA RecordsStep == TypeOK /\ RecordHasLoan /\ [Next]_vars => RecordHasLoan'
<1> SUFFICES ASSUME TypeOK, RecordHasLoan, [Next]_vars PROVE RecordHasLoan'
  OBVIOUS
<1>1. CASE \E r \in Requests, u \in Underwriters : Loan(r, u)
  BY <1>1, LoanKeepsRecords
<1>2. ASSUME NEW r \in Requests, NEW u \in Underwriters, NEW dep \in deposits,
             FallbackMint(r, u, dep)
      PROVE  RecordHasLoan'
  <2>1. UNCHANGED outstanding
    BY <1>2 DEF FallbackMint
  <2> QED BY <1>2, <2>1, FallbackKeepsStatus DEF RecordHasLoan, Active
<1>3. ASSUME NEW caller \in Underwriters, NEW u \in Underwriters, NEW r \in Requests,
             NEW dep \in deposits, Repay(caller, r, u, dep)
      PROVE  RecordHasLoan'
  <2>1. SetRecord(r.module, r.nonce, NoRecord) /\ UNCHANGED loanStatus
    BY <1>3 DEF Repay, RepayLoan, QuickRepayLoan
  <2> QED BY <2>1, ClearedRecords, RequestType
<1>4. ASSUME NEW m \in Modules, NEW n \in Nonces, DefaultLoan(m, n) \/ QuickDefaultLoan(m, n)
      PROVE  RecordHasLoan'
  <2>1. SetRecord(m, n, NoRecord) /\ UNCHANGED loanStatus
    BY <1>4 DEF DefaultLoan, QuickDefaultLoan
  <2> QED BY <2>1, ClearedRecords
<1>5. CASE UNCHANGED <<loanStatus, outstanding>>
  BY <1>5, ClearedRecords
<1> QED
  BY <1>1, <1>2, <1>3, <1>4, <1>5, DeskAssumption
     DEF Next, vars, Mint, ApproveModule, SetFee, SetBaseFeeByAsset, SetGasParameters,
         SetParams, Meta, Burn, Earn, Deposit, MineBlock

\* A record a module still carries has an unpaid loan behind it, however
\* nonces collide between requests, modules and underwriters.
THEOREM RecordsHaveLoans == Spec => []RecordHasLoan
  BY TypeInit, TypeStep, RecordsInit, RecordsStep, PTL DEF Spec

\* No call ever takes a digest out of the UNPAID state, so nothing is lent
\* twice under one digest.
THEOREM LoansAreFinal == Spec => LoanIsFinal
<1>1. ASSUME TypeOK, [Next]_vars
      PROVE  [\A d \in Digests : Unpaid(d) => loanStatus'[d] = loanStatus[d]]_vars
  <2>1. ASSUME NEW r \in Requests, NEW u \in Underwriters, Loan(r, u)
        PROVE  \A d \in Digests : Unpaid(d) => loanStatus'[d] = loanStatus[d]
    BY <1>1, <2>1, DigestInDigests DEF Loan, Unpaid, TypeOK
  <2>2. CASE \E r \in Requests, u \in Underwriters, dep \in deposits : FallbackMint(r, u, dep)
    BY <1>1, <2>2, FallbackKeepsStatus
  <2>3. CASE UNCHANGED loanStatus
    BY <2>3
  <2> QED
    BY <1>1, <2>1, <2>2, <2>3
       DEF Next, vars, Mint, ApproveModule, SetFee, SetBaseFeeByAsset, SetGasParameters,
           SetParams, Repay, Meta, Burn, DefaultLoan, QuickDefaultLoan, Earn, Deposit, MineBlock
<1> QED
  BY <1>1, TypeInit, TypeStep, PTL DEF Spec, LoanIsFinal

-----------------------------------------------------------------------------
(* The pool.  Two lemmas for the services that pay ether, then the theorem. *)

LEMMA PoolValue == TypeOK => Pool = Value(strategy) + desk /\ Pool \in Nat
  BY DEF TypeOK, Strategy, Pool, Value

LEMMA MetaPays ==
    ASSUME TypeOK, NEW caller \in Underwriters, NEW e \in Executors, Meta(caller, e)
    PROVE  Pool' + 3 * MaxDrift >= Pool
<1>1. PICK gas \in Nat : \E gasInRen, cost \in Worth(gas) :
         MetaDoes(caller, e, gas, gasInRen, cost)
  BY MetaParts
<1>2. PICK gasInRen, cost \in Worth(gas) : MetaDoes(caller, e, gas, gasInRen, cost)
  BY <1>1
<1>3. /\ cost \in Nat /\ gasInRen \in Nat /\ MaxDrift \in Nat
      /\ gas <= gasInRen + MaxDrift
      /\ RepayMeta(e, gasInRen) \in Nat /\ RepayMeta(e, gasInRen) >= gasInRen
  BY WorthBound, AddFeeBound, DeskAssumption DEF RepayMeta
<1>4. strategy \in Strategy /\ desk \in Nat
  BY DEF TypeOK
<1> DEFINE paid == PayEther(strategy, gas, cost)
<1>5. paid \in Strategy
  BY <1>2, <1>3, <1>4, EtherType DEF MetaDoes
<1>6. Value(paid) + gas + MaxDrift >= Value(strategy)
  BY <1>2, <1>4, EtherValue DEF MetaDoes
<1> HIDE DEF paid
<1>7. strategy' = [paid EXCEPT !.want = @ + desk + RepayMeta(e, gasInRen)]
  BY <1>2 DEF MetaDoes, paid
<1>8. Value(strategy') = Value(paid) + desk + RepayMeta(e, gasInRen) /\ Value(paid) \in Nat
  BY <1>3, <1>4, <1>5, <1>7 DEF Value, Strategy
<1>9. Pool = Value(strategy) + desk /\ Value(strategy) \in Nat
  BY <1>4, PoolValue DEF Value, Strategy
<1>10. Pool' = Value(strategy') + desk' /\ desk' = 0
  BY DEF Pool, Value, Meta
<1> QED BY <1>3, <1>4, <1>6, <1>8, <1>9, <1>10

LEMMA BurnPays ==
    ASSUME TypeOK, NEW caller \in Underwriters, NEW a \in Users, NEW amount \in BurnAmounts,
           Burn(caller, a, amount)
    PROVE  Pool' + 3 * MaxDrift >= Pool
<1> DEFINE gas == params.burnGas
<1>1. amount \in Nat /\ gas \in Nat /\ MaxDrift \in Nat
  BY DeskAssumption DEF TypeOK, ParamsType
<1>2. PICK gasInRen, cost \in Worth(gas), actual \in Nat :
         /\ actual <= amount - gasInRen
         /\ CanPayEther(strategy, gas, cost)
         /\ strategy' = [PayEther(strategy, gas, cost) EXCEPT
                            !.want = @ + desk + amount - actual]
  BY BurnParts
<1>3. strategy \in Strategy /\ desk \in Nat
  BY DEF TypeOK
<1> HIDE DEF gas
<1>4. cost \in Nat /\ gasInRen \in Nat /\ gas <= gasInRen + MaxDrift
  BY <1>1, WorthBound
<1> DEFINE paid == PayEther(strategy, gas, cost)
<1>5. paid \in Strategy
  BY <1>1, <1>2, <1>3, <1>4, EtherType
<1>6. Value(paid) + gas + MaxDrift >= Value(strategy)
  BY <1>1, <1>2, <1>3, EtherValue
<1> HIDE DEF paid
<1>7. strategy' = [paid EXCEPT !.want = @ + desk + amount - actual]
  BY <1>2 DEF paid
<1>8. Value(strategy') = Value(paid) + desk + amount - actual /\ Value(paid) \in Nat
  BY <1>1, <1>2, <1>3, <1>5, <1>7 DEF Value, Strategy
<1>9. Pool = Value(strategy) + desk /\ Value(strategy) \in Nat
  BY <1>3, PoolValue DEF Value, Strategy
<1>10. Pool' = Value(strategy') + desk' /\ desk' = 0
  BY DEF Pool, Value, Burn
<1> QED BY <1>1, <1>2, <1>3, <1>4, <1>6, <1>8, <1>9, <1>10

LEMMA EarnPays ==
    ASSUME TypeOK, NEW amount \in EarnAmounts, Earn(amount)
    PROVE  Pool' + 3 * MaxDrift >= Pool
<1> DEFINE s == [strategy EXCEPT !.want = @ + amount]
<1>1. amount \in Nat /\ desk \in Nat /\ strategy \in Strategy /\ MaxDrift \in Nat
  BY DeskAssumption DEF TypeOK
<1>2. s \in Strategy /\ Value(s) = Value(strategy) + amount /\ Value(strategy) \in Nat
  BY <1>1 DEF Strategy, Value
<1>3. PICK put \in Worth(Excess(s)), cost, got \in Worth(EtherDeficit(s)) :
         CanDeposit(s, put, cost) /\ strategy' = AfterDeposit(s, put, cost, got)
  BY DEF Earn
<1>4. desk' = desk - amount /\ desk >= amount
  BY DEF Earn
<1> HIDE DEF s
<1>5. strategy' \in Strategy
  BY <1>2, <1>3, DepositType
<1>6. Value(strategy') + 3 * MaxDrift >= Value(s)
  BY <1>2, <1>3, DepositValue
<1>7. Pool = Value(strategy) + desk /\ Pool' = Value(strategy') + desk'
  BY PoolValue DEF Pool, Value
<1>8. Value(strategy') \in Nat
  BY <1>5 DEF Strategy, Value
<1> QED BY <1>1, <1>2, <1>4, <1>6, <1>7, <1>8

\* Lending and settling are the only calls that may cost the pool more than
\* its trades miss: a loan sets a status and a settlement spends a deposit,
\* meta and burn charge the gas they pay, earn and defaultLoan only trade.
THEOREM ServicesAreCharged == Spec => ServicesCostOnlyTheirTrades
<1>1. ASSUME TypeOK, [Next]_vars
      PROVE  [UNCHANGED <<loanStatus, claim>> => Pool' + 3 * MaxDrift >= Pool]_vars
  <2> SUFFICES ASSUME UNCHANGED <<loanStatus, claim>> PROVE Pool' + 3 * MaxDrift >= Pool
    OBVIOUS
  <2>1. Pool \in Nat /\ MaxDrift \in Nat
    BY <1>1, PoolValue, DeskAssumption
  <2>2. ~ \E r \in Requests, u \in Underwriters : Loan(r, u)
    <3> SUFFICES ASSUME NEW r \in Requests, NEW u \in Underwriters, Loan(r, u)
                 PROVE  FALSE
      OBVIOUS
    <3>1. loanStatus'[Digest(r, u)] = [underwriter |-> u, status |-> "UNPAID"]
      BY <1>1, DigestInDigests DEF Loan, TypeOK
    <3>2. loanStatus[Digest(r, u)].status = "UNINITIALIZED"
      BY DEF Loan
    <3> QED BY <3>1, <3>2
  <2>3. ~ \E caller, u \in Underwriters, r \in Requests, dep \in deposits :
             Repay(caller, r, u, dep)
    <3> SUFFICES ASSUME NEW caller \in Underwriters, NEW u \in Underwriters,
                        NEW r \in Requests, NEW dep \in deposits, Repay(caller, r, u, dep)
                 PROVE  FALSE
      OBVIOUS
    <3>1. dep.id \in DepositIds
      BY <1>1, MintedNat DEF Repay
    <3> QED BY <1>1, <3>1 DEF Repay, GatewayMint, TypeOK
  <2>4. ~ \E r \in Requests, u \in Underwriters, dep \in deposits : FallbackMint(r, u, dep)
    <3> SUFFICES ASSUME NEW r \in Requests, NEW u \in Underwriters, NEW dep \in deposits,
                        FallbackMint(r, u, dep)
                 PROVE  FALSE
      OBVIOUS
    <3>1. dep.id \in DepositIds
      BY <1>1, MintedNat DEF FallbackMint
    <3> QED BY <1>1, <3>1 DEF FallbackMint, GatewayMint, TypeOK
  <2>5. CASE \E caller \in Underwriters, e \in Executors : Meta(caller, e)
    BY <1>1, <2>5, MetaPays
  <2>6. CASE \E caller \in Underwriters, a \in Users, amount \in BurnAmounts :
                Burn(caller, a, amount)
    BY <1>1, <2>6, BurnPays
  <2>7. ASSUME NEW m \in Modules, NEW n \in Nonces, DefaultLoan(m, n)
        PROVE  Pool' + 3 * MaxDrift >= Pool
    <3>1. PICK loss \in Slippages :
             loss <= outstanding[m][n].qty /\ desk' = desk + (outstanding[m][n].qty - loss)
      BY <2>7 DEF DefaultLoan
    <3>2. outstanding[m][n].qty - loss \in Nat /\ desk \in Nat
      BY <1>1, <3>1, RecordType, DeskAssumption DEF TypeOK
    <3>3. strategy' = strategy
      BY <2>7 DEF DefaultLoan
    <3>4. strategy \in Strategy
      BY <1>1 DEF TypeOK
    <3>5. Pool' = Pool + (outstanding[m][n].qty - loss)
      BY <3>1, <3>2, <3>3, <3>4 DEF Pool, Strategy
    <3> QED BY <2>1, <3>2, <3>5
  <2>8. CASE \E amount \in EarnAmounts : Earn(amount)
    BY <1>1, <2>1, <2>8, EarnPays
  <2>9. CASE UNCHANGED <<strategy, desk>>
    BY <2>1, <2>9 DEF Pool
  <2> QED
    BY <1>1, <2>2, <2>3, <2>4, <2>5, <2>6, <2>7, <2>8, <2>9
       DEF Next, vars, Mint, ApproveModule, SetFee, SetBaseFeeByAsset, SetGasParameters,
           SetParams, QuickDefaultLoan, Deposit, MineBlock
<1> QED
  BY <1>1, TypeInit, TypeStep, PTL DEF Spec, ServicesCostOnlyTheirTrades

-----------------------------------------------------------------------------
(* Payouts.  One lemma for each call that pays a user.                     *)

\* What PayoutBacked asks of a step, for one user.
Backed(a) ==
    \/ \E dep \in deposits : /\ dep.pHash.to = a
                             /\ claim[dep.id] = "none"
                             /\ claim'[dep.id] # "none"
    \/ \E r \in Requests, u \in Underwriters :
         /\ r.to = a
         /\ r.module \in QuickModules
         /\ ~ Unpaid(Digest(r, u))
         /\ Unpaid(Digest(r, u))'

LEMMA SpendingBacks ==
    ASSUME TypeOK, NEW r \in Requests, NEW dep \in deposits, GatewayMint(dep, r),
           NEW how \in {"repay", "fallback"}, claim' = [claim EXCEPT ![dep.id] = how]
    PROVE  Backed(r.to)
<1>1. dep.id \in DepositIds
  BY MintedNat
<1>2. claim'[dep.id] = how
  BY <1>1 DEF TypeOK
<1>3. dep.pHash.to = r.to /\ claim[dep.id] = "none"
  BY DEF GatewayMint, PHash
<1> QED
  BY <1>2, <1>3 DEF Backed

LEMMA LoanBacks ==
    ASSUME TypeOK, NEW r \in Requests, NEW u \in Underwriters, Loan(r, u),
           NEW a \in Users, wallet'[a] > wallet[a]
    PROVE  Backed(a)
<1>1. loanStatus'[Digest(r, u)] = [underwriter |-> u, status |-> "UNPAID"]
  BY DigestInDigests DEF Loan, TypeOK
<1>2. Unpaid(Digest(r, u))' /\ ~ Unpaid(Digest(r, u))
  <2>1. Unpaid(Digest(r, u))'
    BY <1>1 DEF Unpaid, Digest
  <2>2. ~ Unpaid(Digest(r, u))
    BY DEF Loan, Unpaid
  <2> QED BY <2>1, <2>2
<1>3. wallet[a] \in Nat
  BY DEF TypeOK
<1>4. r.module \in QuickModules /\ r.to = a
  <2>1. PICK sent \in Nat : ReceiveLoan(r, sent) \/ QuickReceiveLoan(r, sent)
    BY LoanParts
  <2>2. ~ ReceiveLoan(r, sent)
    BY <1>3 DEF ReceiveLoan
  <2>3. QuickReceiveLoan(r, sent)
    BY <2>1, <2>2
  <2>4. PICK x : wallet' = [wallet EXCEPT ![r.to] = x]
    BY <2>3 DEF QuickReceiveLoan
  <2>5. a # r.to => wallet'[a] = wallet[a]
    BY <2>4 DEF TypeOK
  <2> QED
    BY <1>3, <2>3, <2>5 DEF QuickReceiveLoan
<1> QED
  BY <1>2, <1>4 DEF Backed

LEMMA RepayBacks ==
    ASSUME TypeOK, NEW caller \in Underwriters, NEW u \in Underwriters, NEW r \in Requests,
           NEW dep \in deposits, Repay(caller, r, u, dep),
           NEW a \in Users, wallet'[a] > wallet[a]
    PROVE  Backed(a)
<1>1. Backed(r.to)
  BY SpendingBacks DEF Repay
<1>2. wallet[a] \in Nat
  BY DEF TypeOK
<1>3. \E x : wallet' = [wallet EXCEPT ![r.to] = x]
  <2>1. RepayLoan(r) \/ QuickRepayLoan(r)
    BY DEF Repay
  <2>2. ~ QuickRepayLoan(r)
    BY <1>2 DEF QuickRepayLoan
  <2> QED
    BY <2>1, <2>2 DEF RepayLoan
<1>4. a = r.to
  BY <1>2, <1>3 DEF TypeOK
<1> QED
  BY <1>1, <1>4

LEMMA FallbackBacks ==
    ASSUME TypeOK, NEW r \in Requests, NEW u \in Underwriters, NEW dep \in deposits,
           FallbackMint(r, u, dep), NEW a \in Users, wallet'[a] > wallet[a]
    PROVE  Backed(a)
<1>1. Backed(r.to)
  BY SpendingBacks DEF FallbackMint
<1>2. a = r.to
  BY DEF FallbackMint, TypeOK
<1> QED
  BY <1>1, <1>2

\* A user is paid only against a deposit of their own minted in the same
\* transaction, or by a quick module against a loan made in it (loan, repay,
\* fallbackMint, receiveLoan, repayLoan).
THEOREM PayoutsAreBacked == Spec => PayoutBacked
<1>1. ASSUME TypeOK, [Next]_vars
      PROVE  [\A a \in Users : wallet'[a] > wallet[a] => Backed(a)]_vars
  <2> SUFFICES ASSUME NEW a \in Users, wallet'[a] > wallet[a] PROVE Backed(a)
    OBVIOUS
  <2>1. wallet[a] \in Nat
    BY <1>1 DEF TypeOK
  <2>2. CASE \E r \in Requests, u \in Underwriters : Loan(r, u)
    BY <1>1, <2>2, LoanBacks
  <2>3. CASE \E caller, u \in Underwriters, r \in Requests, dep \in deposits :
                Repay(caller, r, u, dep)
    BY <1>1, <2>3, RepayBacks
  <2>4. CASE \E r \in Requests, u \in Underwriters, dep \in deposits : FallbackMint(r, u, dep)
    BY <1>1, <2>4, FallbackBacks
  <2>5. CASE UNCHANGED wallet
    BY <2>1, <2>5
  <2>6. ASSUME NEW caller \in Underwriters, NEW b \in Users, NEW amount \in BurnAmounts,
               Burn(caller, b, amount)
        PROVE  FALSE
    <3>1. amount \in Nat /\ wallet' = [wallet EXCEPT ![b] = @ - amount]
      BY <2>6, DeskAssumption DEF Burn
    <3>2. wallet'[a] <= wallet[a]
      BY <1>1, <2>1, <3>1 DEF TypeOK
    <3>3. wallet'[a] \in Int
      BY <1>1, <2>1, <3>1 DEF TypeOK
    <3> QED
      BY <2>1, <3>2, <3>3
  <2> QED
    BY <1>1, <2>2, <2>3, <2>4, <2>5, <2>6
       DEF Next, vars, Mint, ApproveModule, SetFee, SetBaseFeeByAsset, SetGasParameters,
           SetParams, Meta, DefaultLoan, QuickDefaultLoan, Earn, Deposit, MineBlock
<1> QED
  BY <1>1, TypeInit, TypeStep, PTL DEF Spec, PayoutBacked, Backed
=============================================================================
