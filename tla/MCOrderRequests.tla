-------------------------- MODULE MCOrderRequests ---------------------------
(* A small instance of OrderRequests for TLC: amounts from -16 to 15. *)
EXTENDS OrderRequests

Line(price, quantity, currency) ==
    [price |-> price, quantity |-> quantity, currency |-> currency, fits |-> TRUE]

\* Two lines, a name that is too long, and a price of 0.
SomeCarts ==
    {<<Line(5, 2, "RUB"), Line(4, 1, "RUB")>>,
     <<[Line(1, 1, "RUB") EXCEPT !.fits = FALSE]>>,
     <<Line(0, 1, "RUB")>>}

FirstOrder == [g \in Gets |-> "o1"]

=============================================================================
