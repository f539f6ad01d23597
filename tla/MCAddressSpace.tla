-------------------------- MODULE MCAddressSpace --------------------------
(* Two levels of tables, with two entries in a half of one.                *)
EXTENDS AddressSpace

CONSTANTS t1, t2

MCFrames == 2 .. 7
MCBase == <<2, 0>>
MCAddresses == {<<2, 0>>, <<2, 1>>, <<3, 3>>, <<0, 1>>}

\* An entry of a table that lay in the frame before, in its first place or a later one.
Left(i) == [Empty EXCEPT ![i] = Entry(Identity, TRUE)]
\* One that is not present, and not all zero.
Stale(i) == [Empty EXCEPT ![i].user = TRUE]
MCContents == {Empty, Left(0), Left(1), Left(2), Stale(0), Stale(3)}
=============================================================================
