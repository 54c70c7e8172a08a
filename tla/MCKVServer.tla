----------------------------- MODULE MCKVServer -----------------------------
(* KVServer with two loops, one plain key and one with the delimiter in it, and *)
(* values with line ends in them.                                              *)
EXTENDS KVServer

MCOrder == <<Eol, ":", "DEL", "DUMP", "GET", "LOAD", "SET", "a", "b", "x">>

SetPlain == <<<<"SET">>, <<"b">>, <<"x">>>>
SetTwice == <<<<"SET">>, <<"b">>, <<"x", Eol, "DUMP">>>>   \* two lines, read at once
SetOther == <<<<"SET">>, <<"a", ":", "b">>, <<"x">>>>
SetEnd == <<<<"SET">>, <<"b">>, <<Eol>>>>      \* a line that ends in a blank
DelPlain == <<<<"DEL">>, <<"b">>>>
GetPlain == <<<<"GET">>, <<"b">>>>
GetTwice == <<<<"GET">>, <<"b", "GET">>, <<"b">>>>    \* two commands, read at once
Dump == <<<<"DUMP">>>>
Load == <<<<"LOAD">>>>
Blank == <<>>

\* One loop changes what the other dumps; one does everything with two keys; a value
\* gets longer, by a second line, under a dump and a load; two dumps and two loads
\* meet; the value of a key begins with a line end; both search.
MCScenarios ==
  {<<{SetOther, Dump, Blank, GetTwice}, {SetPlain, DelPlain}>>,
   <<{SetOther, Dump, Load}, {}>>,
   <<{SetPlain, Dump, Load}, {SetTwice, DelPlain}>>,
   <<{SetPlain, DelPlain, Dump, Load}, {Dump, Load}>>,
   <<{Load}, {SetEnd, Dump}>>,
   <<{GetPlain, Dump}, {GetPlain, SetPlain, DelPlain}>>}

\* No file, and one that a crash has torn.
MCFiles == {<<>>, <<"b", ":", "x", Eol, "a">>}

MCWatched == <<"b">>
=============================================================================
