--------------------------- MODULE MCSubscription ---------------------------
(***************************************************************************)
(* Instances of Subscription for TLC: a log of at most five events, read    *)
(* from its start, after an event, and from its end, with and without       *)
(* RetryOptions.                                                           *)
(***************************************************************************)
EXTENDS Subscription

From(kind, revision, retry) ==
    [position |-> [kind |-> kind, revision |-> revision], retry |-> retry]

AllRequests == {From("Start", 0, 3), From("Revision", 0, None),
                From("End", 0, 2), From("End", 0, None)}
=============================================================================
