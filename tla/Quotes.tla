------------------------------- MODULE Quotes -------------------------------
(***************************************************************************)
(* What the user is told a transfer or a burn will bring: lib/quotes.js,   *)
(* which asks the exchanges of a chain, and lib/badger.js, which deducts   *)
(* the fees.                                                               *)
(*                                                                         *)
(* A computation is a program of the calls that are awaited in turn.  The  *)
(* exchanges, the gas price and RenVM are environment: any of them may     *)
(* have any answer, or none, at any time, so what one call is told may     *)
(* have changed by the next.  There are two registers, the amount that is  *)
(* computed and the price of gas, each with the token it is an amount of.  *)
(***************************************************************************)
EXTENDS Integers, Sequences

CONSTANTS
    Inputs,      \* amounts asked for
    Answers,     \* amounts the exchanges answer
    GasPrices,
    GasCost,     \* GAS_COST of the chain
    keeperReward,
    OneEther,
    Thousandth,  \* of a bitcoin, in satoshis
    Unanswered

ASSUME QuotesAssumption ==
    /\ Inputs \union Answers \union GasPrices \subseteq Nat
    /\ GasCost \in Nat
    /\ keeperReward \in Nat
    /\ OneEther \in Nat \ {0}
    /\ Thousandth \in Nat
    /\ Unanswered \notin Int

VARIABLES
    order,       \* what is asked: chain, direction, primary token, asset, amount
    program,     \* calls still to be made
    held,        \* by register, the token it is an amount of
    sum,         \* by register, the amount
    gasPrice,
    fees,        \* what applyFee returned, with the amount it was asked for
    quote        \* Unanswered, the number returned, or -1 if it rejected

quoteVars == <<order, program, held, sum, gasPrice, fees, quote>>

-----------------------------------------------------------------------------
(* Exchanges.                                                              *)

returnChainDetails == {"ETHEREUM", "ARBITRUM", "OPTIMISM", "AVALANCHE", "MATIC"}

\* The tokens of the pools, by index.
Coins(pool, chain) ==
    CASE pool = "Curve_Ren" -> IF chain = "ETHEREUM" THEN <<"renBTC", "WBTC">>
                               ELSE <<"WBTC", "renBTC">>
      [] pool = "tricrypto" -> <<"USDT", "WBTC", "wETH">>
      [] pool = "aTricrypto" -> <<"av3CRV", "WBTC", "wETH">>

wNative(chain) ==
    CASE chain = "MATIC" -> "WMATIC"
      [] chain = "AVALANCHE" -> "WAVAX"
      [] OTHER -> "wETH"

\* Pools the fixtures have no address of.
Missing(pool, chain) ==
    \/ pool = "Curve_Ren" /\ chain = "OPTIMISM"
    \/ pool = "tricrypto" /\ chain # "ETHEREUM"

Swap(pool, from, to) ==
    [do |-> "swap", register |-> "amount", pool |-> pool, from |-> from, to |-> to]

\* get_dy(i, j, amount).
get_dy(pool, chain, i, j) == Swap(pool, Coins(pool, chain)[i + 1], Coins(pool, chain)[j + 1])

Aside(step) == [step EXCEPT !.register = "none"]

\* quoteExactInput: one pool for every two neighbours of the path.
quoteExactInput(path) ==
    [i \in 1 .. Len(path) - 1 |-> Swap("uniswap", path[i], path[i + 1])]

\* path.splice(2, 2): the token in the middle is left out except on MATIC.
Spliced(path, chain) == IF chain = "MATIC" THEN path ELSE <<path[1], path[3]>>

\* Bug variant: one index path for all chains.
getWbtcQuoteFixed(chain, direction) ==
    IF direction THEN <<get_dy("Curve_Ren", chain, 1, 0)>>
    ELSE <<get_dy("Curve_Ren", chain, 0, 1)>>

\* direction: renBTC to WBTC.
getWbtcQuote(chain, direction) ==
    IF direction = (chain = "ETHEREUM")
    THEN <<get_dy("Curve_Ren", chain, 0, 1)>>
    ELSE <<get_dy("Curve_Ren", chain, 1, 0)>>

\* direction: renBTC to USDT.  There, what getWbtcQuote answers is not used.
getUSDTQuote(chain, direction) ==
    IF direction
    THEN <<Aside(getWbtcQuote(chain, TRUE)[1]), get_dy("tricrypto", chain, 1, 0)>>
    ELSE <<get_dy("tricrypto", chain, 0, 1)>> \o getWbtcQuote(chain, FALSE)

getRenZECETHQuote(direction) ==
    IF direction THEN quoteExactInput(<<"renZEC", "wETH">>)
    ELSE quoteExactInput(<<"wETH", "renZEC">>)

getAVAXQuote(chain, direction) ==
    IF direction THEN getWbtcQuote(chain, TRUE) \o <<Swap("joe", "WBTC", "WAVAX")>>
    ELSE <<Swap("joe", "WAVAX", "WBTC")>> \o getWbtcQuote(chain, FALSE)

\* direction: USDC to renBTC.
getUsdcQuoteAVAX(chain, direction) ==
    IF direction
    THEN <<Swap("crvUSD", "USDC", "av3CRV"), get_dy("aTricrypto", chain, 0, 1),
           get_dy("Curve_Ren", chain, 0, 1)>>
    ELSE <<get_dy("Curve_Ren", chain, 1, 0), get_dy("aTricrypto", chain, 1, 0),
           Swap("crvUSD", "av3CRV", "USDC")>>

ETHtoRenBTC(chain) ==
    IF chain = "AVALANCHE" THEN getAVAXQuote(chain, FALSE)
    ELSE quoteExactInput(Spliced(<<wNative(chain), "wETH", "WBTC">>, chain))
           \o getWbtcQuote(chain, FALSE)

renBTCToETH(chain) ==
    IF chain = "AVALANCHE" THEN getAVAXQuote(chain, TRUE)
    ELSE getWbtcQuote(chain, TRUE)
           \o quoteExactInput(Spliced(<<"WBTC", "wETH", wNative(chain)>>, chain))

fromUSDC(chain) ==
    IF chain = "AVALANCHE" THEN getUsdcQuoteAVAX(chain, TRUE)
    ELSE quoteExactInput(<<"USDC", "wETH", "WBTC">>) \o getWbtcQuote(chain, FALSE)

toUSDC(chain) ==
    IF chain = "AVALANCHE" THEN getUsdcQuoteAVAX(chain, FALSE)
    ELSE getWbtcQuote(chain, TRUE) \o quoteExactInput(<<"WBTC", "wETH", "USDC">>)

\* A zero on OPTIMISM.
getRenBTCForOneETHPrice(chain) ==
    CASE chain = "OPTIMISM" -> <<>>
      [] chain = "ETHEREUM" -> <<Swap("uniswap", "wETH", "renBTC")>>
      [] OTHER -> ETHtoRenBTC(chain)

-----------------------------------------------------------------------------
(* Programs.                                                               *)

\* selectNetwork: the ren token of the primary token.
RenToken(primaryToken) == IF primaryToken = "ZEC" THEN "renZEC" ELSE "renBTC"

PriceRoute(chain, primaryToken) ==
    IF primaryToken = "ZEC" THEN getRenZECETHQuote(FALSE) ELSE getRenBTCForOneETHPrice(chain)

\* applyFee as its calls: the gas price, the price of gas, RenVM's fees.
ApplyFee(chain, primaryToken) ==
    LET route == PriceRoute(chain, primaryToken) IN
    <<[do |-> "gasPrice"]>>
      \o [i \in 1 .. Len(route) |->
            IF route[i].register = "amount" THEN [route[i] EXCEPT !.register = "price"]
            ELSE route[i]]
      \o <<[do |-> "renVmFees"]>>

\* From primary token to asset.
computeTransferOutput(chain, primaryToken, asset) ==
    LET fee == ApplyFee(chain, primaryToken) IN
    IF primaryToken = "ZEC"
    THEN IF asset = "renZEC" THEN fee ELSE fee \o getRenZECETHQuote(TRUE)
    ELSE CASE asset = "USDC" -> fee \o toUSDC(chain)
           [] asset = "WBTC" -> getWbtcQuote(chain, TRUE) \o fee
           [] asset = "renBTC" -> fee
           [] asset = "USDT" -> fee \o getUSDTQuote(chain, TRUE)
           [] asset = "native" -> fee \o renBTCToETH(chain)

\* From asset to ren token.
getConvertedAmount(chain, primaryToken, asset) ==
    IF primaryToken = "ZEC"
    THEN IF asset = "renZEC" THEN <<>> ELSE getRenZECETHQuote(FALSE)
    ELSE CASE asset = "WBTC" -> getWbtcQuote(chain, FALSE)
           [] asset = "renBTC" -> <<>>
           [] asset = "USDC" -> fromUSDC(chain)
           [] asset = "USDT" -> getUSDTQuote(chain, FALSE)
           [] asset = "native" -> ETHtoRenBTC(chain)

computeOutputBTC(chain, primaryToken, asset) ==
    getConvertedAmount(chain, primaryToken, asset) \o ApplyFee(chain, primaryToken)

Program(o) ==
    IF o.burn THEN computeOutputBTC(o.chain, o.primaryToken, o.asset)
    ELSE computeTransferOutput(o.chain, o.primaryToken, o.asset)

Token(asset, chain) == IF asset = "native" THEN wNative(chain) ELSE asset

Orders ==
    {o \in [chain : returnChainDetails, burn : BOOLEAN, primaryToken : {"BTC", "ZEC"},
            asset : {"USDC", "WBTC", "renBTC", "USDT", "native", "renZEC"}, amount : Inputs] :
        IF o.primaryToken = "ZEC" THEN o.asset \in {"renZEC", "native"} /\ o.chain = "ETHEREUM"
        ELSE o.asset # "renZEC"}

QuotesStart(o) ==
    /\ order = o
    /\ program = Program(o)
    /\ held = [amount |-> IF o.burn THEN Token(o.asset, o.chain) ELSE RenToken(o.primaryToken),
               price |-> wNative(o.chain), none |-> Unanswered]
    /\ sum = [amount |-> o.amount, price |-> 0]
    /\ gasPrice = Unanswered
    /\ fees = Unanswered
    /\ quote = Unanswered

QuotesInit == \E o \in Orders : QuotesStart(o)

-----------------------------------------------------------------------------
(* Calls.                                                                  *)

Step == Head(program)

Awaited(do) == quote = Unanswered /\ program # <<>> /\ Step.do = do

SwapAnswered(answer) ==
    /\ Awaited("swap")
    /\ ~ Missing(Step.pool, order.chain)
    /\ held' = [held EXCEPT ![Step.register] = Step.to]
    /\ sum' = IF Step.register = "none" THEN sum ELSE [sum EXCEPT ![Step.register] = answer]
    /\ program' = Tail(program)
    /\ UNCHANGED <<order, gasPrice, fees, quote>>

\* keeperReward is divided by it, which throws for zero.
GasPriceAnswered(price) ==
    /\ Awaited("gasPrice")
    /\ gasPrice' = price
    /\ IF price = 0 THEN quote' = -1 /\ UNCHANGED program
       ELSE program' = Tail(program) /\ UNCHANGED quote
    /\ UNCHANGED <<order, held, sum, fees>>

\* In thousandths, as the ratios are.
burnFee == 3
renVmFeeBurn == 1
mintFee == 2
renVmFeeMint == 2

applyRatio(amount, ratio) == (amount * ratio) \div 1000

computeGasFee(price) ==
    ((GasCost + (keeperReward \div gasPrice)) * gasPrice * price) \div OneEther

\* Bug variant: RenVM's fee is part of its network fee, too.
applyFeeTwice(amountIn, renOutput, zeroFee, renVmFee) ==
    LET gas == computeGasFee(sum.price)
        zero == applyRatio(amountIn, zeroFee)
        renVm == applyRatio(amountIn, renVmFee)
        network == amountIn - renOutput
    IN [amountIn |-> amountIn, renOutput |-> renOutput, gasFee |-> gas,
        zeroProtocolFeeAmt |-> zero, renVmFeeAmt |-> renVm, renVmBtcNetworkFee |-> network,
        totalFees |-> gas + zero + renVm + network]

\* The fees: RenVM's network fee is what is missing from its output beyond its
\* own fee.
applyFee(amountIn, renOutput, zeroFee, renVmFee) ==
    LET gas == computeGasFee(sum.price)
        zero == applyRatio(amountIn, zeroFee)
        renVm == applyRatio(amountIn, renVmFee)
        network == amountIn - renOutput - renVm
    IN [amountIn |-> amountIn, renOutput |-> renOutput, gasFee |-> gas,
        zeroProtocolFeeAmt |-> zero, renVmFeeAmt |-> renVm, renVmBtcNetworkFee |-> network,
        totalFees |-> gas + zero + renVm + network]

\* deductMintFee, deductBurnFee.
Deduct(amount, f) == IF amount - f.totalFees <= 0 THEN 0 ELSE amount - f.totalFees

\* RenVM's estimate, or the amount less a constant if it could not be had.
RenVmFeesAnswered(renOutput) ==
    LET f == IF order.burn THEN applyFee(sum.amount, renOutput, burnFee, renVmFeeBurn)
             ELSE applyFee(sum.amount, renOutput, mintFee, renVmFeeMint)
    IN
    /\ Awaited("renVmFees")
    /\ fees' = f
    /\ sum' = [sum EXCEPT !.amount = Deduct(sum.amount, f)]
    /\ program' = Tail(program)
    /\ UNCHANGED <<order, held, gasPrice, quote>>

\* toUSDC, and fromUSDC except on AVALANCHE, answer zero if Uniswap or, for
\* toUSDC, any exchange fails.
Caught ==
    /\ order.asset = "USDC" /\ Step.do = "swap" /\ Step.register = "amount"
    /\ IF order.burn THEN Step.pool = "uniswap" ELSE TRUE

\* A call of a node fails.
CallFails ==
    /\ quote = Unanswered
    /\ program # <<>>
    /\ Step.do # "renVmFees"
    /\ IF ~ Caught THEN quote' = -1 /\ UNCHANGED <<program, held, sum>>
       ELSE /\ quote' = quote
            /\ sum' = [sum EXCEPT !.amount = 0]
            /\ held' = [held EXCEPT !.amount = IF order.burn THEN "renBTC" ELSE "USDC"]
            /\ program' = IF order.burn THEN ApplyFee(order.chain, order.primaryToken) ELSE <<>>
    /\ UNCHANGED <<order, gasPrice, fees>>

Return ==
    /\ quote = Unanswered
    /\ program = <<>>
    /\ quote' = sum.amount
    /\ UNCHANGED <<order, program, held, sum, gasPrice, fees>>

Estimates(amount) == {0, amount \div 2, amount, amount - 4 * Thousandth}

QuotesNext ==
    \/ \E answer \in Answers : SwapAnswered(answer)
    \/ \E price \in GasPrices : GasPriceAnswered(price)
    \/ \E renOutput \in Estimates(sum.amount) : RenVmFeesAnswered(renOutput)
    \/ CallFails
    \/ Return

-----------------------------------------------------------------------------
(* Properties.                                                             *)

\* Every exchange is asked for the token the amount at hand is an amount of,
\* on every chain and in both directions, and the last one answers in the
\* token asked for.  A transfer to USDT is the exception: getUSDTQuote passes
\* an amount of renBTC for one of WBTC (getConvertedAmount,
\* computeTransferOutput and the quotes they call).
RoutesConnect ==
    ~ (order.asset = "USDT" /\ ~ order.burn) =>
        /\ program # <<>> /\ Step.do = "swap" => Step.register # "none" /\ held[Step.register] = Step.from
        /\ quote # Unanswered /\ quote >= 0 =>
             held.amount = IF order.burn THEN RenToken(order.primaryToken)
                           ELSE Token(order.asset, order.chain)
        /\ program # <<>> /\ Step.do = "renVmFees" /\ order.chain # "OPTIMISM" =>
             held.price = RenToken(order.primaryToken)

\* What is left of an amount is what RenVM puts out less Zero's fee and the
\* gas, never more than RenVM puts out, and never negative, whatever the
\* estimate, a failed one included (applyFee, deductMintFee, deductBurnFee).
FeesAddUp ==
    fees # Unanswered =>
        LET left == Deduct(fees.amountIn, fees)
            due == fees.renOutput - fees.zeroProtocolFeeAmt - fees.gasFee
        IN /\ left = IF due > 0 THEN due ELSE 0
           /\ left >= 0
           /\ fees.renOutput >= 0 => left <= fees.renOutput
=============================================================================
