----------------------------- MODULE MCProducer -----------------------------
(***************************************************************************)
(* Small instances of Producer for TLC.                                    *)
(***************************************************************************)
EXTENDS Producer, TLC

CONSTANTS q, r, a, b   \* model values: requests and topics

\* Payloads of no, one incomplete, one full, a full and an incomplete, and two full
\* batches, and with a value that panics in the second batch or the first.
Valid ==
  {<<"context">>, <<"context", "entity">>,
   <<"context", "entity", "entity">>,
   <<"context", "entity", "entity", "entity">>,
   <<"context", "entity", "entity", "entity", "entity">>,
   <<"context", "entity", "entity", "unprefixed">>,
   <<"context", "entity", "malformed">>}

=============================================================================
