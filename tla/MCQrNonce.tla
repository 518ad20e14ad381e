------------------------------ MODULE MCQrNonce ------------------------------
(* Instances of QrNonce for TLC: a tick is 5 seconds, so codes last 6 ticks *)
(* and the site asks every 5.                                              *)
EXTENDS QrNonce, TLC

Interchangeable == Permutations(Codes) \cup Permutations(Tabs)
=============================================================================
