--------------------------- MODULE MCOrderListing ---------------------------
(* A small instance of OrderListing for TLC. *)
EXTENDS OrderListing

\* The order in the middle belongs to somebody else.
Owners == [o \in Orders |-> IF o = 3 THEN "bob" ELSE "ann"]
Lists  == [c \in Clients |-> "ann"]

=============================================================================
