--------------------------- MODULE MCSendsRecord ---------------------------
(***************************************************************************)
(* Small instances of SendsRecord.  Coin c is worth c.  Three payments to  *)
(* one destination and a message, told apart by what they spend: a payment *)
(* of 1, a larger one to the same destination that needs both coins, one   *)
(* of 2, and a message that spends coin 2.                                 *)
(***************************************************************************)
EXTENDS SendsRecord

MCCoins == {1, 2}
MCValue == <<1, 2>>

MCIn == <<{1, 2}, {1}, {2}, {2}>>
MCAmount == <<3, 1, 1, 2>>
MCPaidTo == <<"dest", "dest", "chat", "dest">>
MCMessages == {3}

Mixed == {2, 3, 4}

===========================================================================
