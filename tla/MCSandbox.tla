------------------------------ MODULE MCSandbox ------------------------------
(***************************************************************************)
(* Sandbox for TLC: a directory, a path in it and a path beside it; stacks *)
(* of a lower layer and every way to order up to three entries of an upper *)
(* one, or an upper one with a base directory; and stacks where the middle *)
(* layer hides the directory.                                              *)
(***************************************************************************)
EXTENDS Sandbox

A == <<"a">>
AB == <<"a", "b">>
C == <<"c">>
Entry(op_, path_, uid_, to_) == [op |-> op_, path |-> path_, uid |-> uid_, to |-> to_]
L(base_, entries_) == [base |-> base_, entries |-> entries_]
DirA == Entry("dir", A, 1, <<>>)
FileAB(uid_, to_) == Entry("file", AB, uid_, to_)

Lower ==
  {L(<<>>, <<DirA, FileAB(1, <<"old">>)>>),
   L(<<>>, <<Entry("file", A, 0, <<"old">>), Entry("symlink", C, 2, AB)>>)}

UpperSets ==
  {{Entry("dir", A, 2, <<>>), FileAB(1, <<"new">>), Entry("link", C, 0, AB)},
   {DirA, Entry("whiteout", AB, 0, <<>>), Entry("device", C, 0, <<>>)},
   {DirA, Entry("opaque", A, 0, <<>>), Entry("symlink", <<"a", "d">>, 0, C)},
   {Entry("whiteout", A, 0, <<>>), Entry("whiteout", C, 0, <<>>)},
   {Entry("file", A, 0, <<"new">>), Entry("opaque", A, 0, <<>>)},
   {Entry("symlink", A, 1, C)},
   {Entry("file", <<"a", "b", "e">>, 1, <<"new">>)},
   {FileAB(9, <<"new">>)},
   {FileAB(2, <<"new">>)}, {Entry("opaque", A, 0, <<>>)}}

Based == {<<Entry("file", <<"b">>, 0, <<"new">>)>>, <<Entry("whiteout", <<"b">>, 0, <<>>)>>}

MCStacks ==
  {<<l, L(<<>>, u)>> : l \in Lower, u \in UNION {SetToSeqs(S) : S \in UpperSets}}
    \cup {<<l, L(A, u)>> : l \in Lower, u \in Based}
    \cup {<<L(A, u)>> : u \in Based}
    \cup {<<l, L(<<>>, <<Entry("whiteout", A, 0, <<>>)>>), u>> : l \in Lower,
           u \in {L(A, b) : b \in Based} \cup {L(<<>>, <<FileAB(0, <<"new">>)>>)}}

Map(n, h, s) == [ns |-> n, host |-> h, size |-> s]
Mappings == <<Map(0, 10, 1), Map(1, 20, 2)>>
\* A range that does not begin with 1, and an id mapped alone.
OtherMappings == <<Map(0, 10, 1), Map(1, 30, 1), Map(2, 20, 2)>>
MCModes ==
  {[uid |-> 0, mount |-> TRUE, maps |-> <<>>],
   [uid |-> 0, mount |-> FALSE, maps |-> Mappings],
   [uid |-> 0, mount |-> FALSE, maps |-> OtherMappings],
   [uid |-> 10, mount |-> FALSE, maps |-> OtherMappings]}

\* Mappings of the form of those in id_translator_test.go, for root.
OwnerModes == {[uid |-> 0, mount |-> FALSE, maps |-> <<Map(2, 20, 2), Map(0, 10, 1)>>]}
==============================================================================
