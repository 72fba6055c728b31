----------------------------- MODULE MCPriceService -----------------------------
(* Small instances of PriceService. *)
EXTENDS PriceService, TLC

\* As in the constructor of PriceService; "other" is not registered.
MCOracleIds == {"mock", "binance_mexc", "other"}
MCProviders == {"binance", "mexc"}
MCSources == "mock" :> <<>> @@ "binance_mexc" :> <<"binance", "mexc">>
===============================================================================
