---- MODULE MCWatcherTree ----
EXTENDS WatcherTree, TLC
\* Up to three labels deep, with a path that ends in a slash at each depth.
MCPaths == {<<1>>, <<2>>, <<0>>, <<1, 1>>, <<1, 2>>, <<2, 1>>, <<1, 0>>, <<1, 2, 1>>, <<1, 2, 0>>}
\* Two labels deep.
ShortPaths == {<<1>>, <<2>>, <<1, 1>>, <<1, 2>>}
MCWidth == "int8" :> 1 @@ "int16" :> 2 @@ "uint16" :> 2 @@ "int32" :> 4
\* What can be set is an int16.
MCType == [w \in Values \cup Functions |-> IF w \in Writable THEN "int16" ELSE "int8"]
Stream(type, readWrite, bytes) == [type |-> type, readWrite |-> readWrite, bytes |-> bytes]
\* A value of the watcher's type, of one with as many bytes (and the number of a
\* directory), a shorter and a longer one, and one that asks for another mode.
MCStreams ==
    {Stream("int16", TRUE, <<0, 1>>), Stream("uint16", TRUE, <<1, 1>>), Stream("int8", TRUE, <<1>>),
     Stream("int32", TRUE, <<0, 1, 1, 0>>), Stream("int16", FALSE, <<1, 0>>)}
OneStream == {Stream("int16", TRUE, <<0, 0>>)}
====
