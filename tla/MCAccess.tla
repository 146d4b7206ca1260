------------------------------ MODULE MCAccess ------------------------------
(***************************************************************************)
(* Small instances of Access for TLC.                                      *)
(***************************************************************************)
EXTENDS Access, TLC

CONSTANTS c1, c2, ann, bob, secret, r1, r2, a1, a2

TwoChannels == {<<c1, 1>>, <<c1, 2>>, <<c2, 1>>}
OneChannel == {<<c1, 1>>, <<c2, 1>>}

FirstOnly == {<<c1, 1>>}
\* The container of the connection that no request comes from.
LastOnly == {<<c2, 1>>}

\* A profile that keeps its container, for one name, and the dynamic one for all others.
Loaded == <<[name |-> "work", accepts |-> {ann}, keep |-> TRUE]>>
Image == [name |-> "", accepts |-> {}, keep |-> FALSE]

Asks(user, password) == [user |-> user, password |-> password]
\* AuthGet, and AuthPost with each field absent, empty or set.
AllBodies == {None} \cup {Asks(user, password) :
                              user \in {None, Empty, bob}, password \in {None, Empty, secret}}

\* The statements whose order matters most: a row is given a name and a password, or deleted.
SomeBodies == {Asks(None, secret), Asks(None, Empty)}

PasswordOnly == {Asks(None, secret)}

Interchangeable == Permutations({a1, a2}) \cup Permutations({r1, r2})
=============================================================================
