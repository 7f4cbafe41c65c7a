--------------------------- MODULE MCExchangeRates ---------------------------
(* Instances of ExchangeRates for TLC. *)
EXTENDS ExchangeRates
=============================================================================
