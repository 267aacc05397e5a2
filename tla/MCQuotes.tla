--------------------------------- MODULE MCQuotes ---------------------------------
(* Values for the constants of Quotes in TLC's run. *)
EXTENDS Quotes

CONSTANTS USD, SAR, JPY

\* The table has no rate from SAR to JPY.
MCFallback == {<<USD, JPY>>, <<USD, USD>>, <<SAR, USD>>}
MCFirst == <<USD, JPY>>
=================================================================================
