----------------------------- MODULE MCCcrProxy -----------------------------
(* Small instances of CcrProxy.                                            *)
EXTENDS CcrProxy, TLC

CONSTANTS s1, s2, i1, i2

\* A client that declares its session, with one and with two large blocks.
Declared(large) ==
    [session |-> s1, moved |-> s1, blocks |-> large, opener |-> {}, marked |-> FALSE]

\* A conversation known by its hash, with a large block in a later message.
Conversation == [Declared({i1}) EXCEPT !.moved = s2]

\* A conversation known by its hash, with a large block in its first message.
Hashed == [Declared({i1}) EXCEPT !.moved = s2, !.opener = {i1}]

\* A history that quotes a marker and has nothing large in it.
Quoting == [Declared({}) EXCEPT !.marked = TRUE]

PairBodies == {Conversation}
WideBodies == {Declared({i1, i2}), Quoting}
HashedBodies == {Hashed}

Interchangeable == Permutations(Slots)
=============================================================================
