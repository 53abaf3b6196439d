--------------------------- MODULE MCPrefixedStorage ---------------------------
\* PrefixedStorage with bytes below 3, for TLC.
EXTENDS PrefixedStorage

\* A keeper, another whose name ends in the largest byte, the contracts of the first,
\* and a namespace whose bytes are those of the first with a key.  Their upper bounds
\* are tight: the only name that ends in the largest byte is that of a keeper.
Namespaces == {<< <<1>> >>, << <<2>> >>, << <<1>>, <<2, 1>> >>, << <<1, 1>> >>}

\* Among the keys: none, the largest, and one of the contracts in the words of the keeper.
ByteKeys == {<<>>, <<1>>, <<2, 2>>, <<0, 2, 2, 1, 1>>}
=============================================================================
