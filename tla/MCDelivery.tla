------------------------------ MODULE MCDelivery ------------------------------
(***************************************************************************)
(* Values of the constants of Delivery for TLC: an entry of each vendor,   *)
(* or two of one, whose goroutines write their packages at the same time.  *)
(***************************************************************************)
EXTENDS Delivery

CONSTANTS h, d, c

Offer(a, b) == [e \in {h, d, c} |-> IF e = h THEN a ELSE IF e = d THEN b ELSE "unlisted"]

TwoOf(a, b) == [e \in {h, d, c} |-> IF e = h THEN "unlisted" ELSE IF e = d THEN a ELSE b]

SomeOffers == {Offer("digest", "digest"), Offer("digest", "size"), Offer("none", "digest"),
               Offer("missing", "none"), Offer("broken", "digest"),
               Offer("deviceless", "digest"), TwoOf("digest", "size")}

AllKeys == Package \cup {metadata, jcat}
AllValues == Document \cup {Cabinet}
AllWriters == Entries \cup {Main}
=============================================================================
