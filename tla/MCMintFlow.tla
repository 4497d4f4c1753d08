---------------------------- MODULE MCMintFlow ----------------------------
(* Prices and plugin answers for MintFlow: one price, the same amount      *)
(* written with a decimal more, another amount, a free one, one with too   *)
(* many decimals, an unknown contract and no price at all.                 *)
EXTENDS MintFlow

One == [value |-> 1, decimals |-> 0, currency |-> "native"]
OneAgain == [value |-> 10, decimals |-> 1, currency |-> "native"]
Two == [value |-> 2, decimals |-> 0, currency |-> "native"]
Free == [value |-> 0, decimals |-> 0, currency |-> "native"]
Fine == [value |-> 1, decimals |-> 3, currency |-> "token"]
Garbled == [value |-> Nil, decimals |-> 0, currency |-> "iso"]
Unknown == [value |-> 1, decimals |-> 0, currency |-> "unknown"]

MCExpected == {One}

Answer(status, uri, until, price, cancellable) ==
  [status |-> status, uri |-> uri, until |-> until, price |-> price,
   cancellable |-> cancellable]

MCAnswers ==
  {Answer("failure", "", 0, Nil, FALSE), Answer("unspecified", "", 0, One, FALSE),
   Answer("success", "uri", 0, One, TRUE), Answer("success", "uri", 1, OneAgain, FALSE),
   Answer("success", "uri", 9, Two, FALSE), Answer("success", "", 2, Free, FALSE),
   Answer("success", "uri", 0, Fine, FALSE),
   Answer("success", "uri", 0, Unknown, FALSE),
   Answer("success", "uri", 0, Garbled, FALSE)}
=============================================================================
