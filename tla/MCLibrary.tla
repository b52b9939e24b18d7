------------------------------ MODULE MCLibrary ------------------------------
(***************************************************************************)
(* The routines without hardware, one call at a time, for TLC: formats for *)
(* vsprintf, or any sequence of calls of string.c, or any sequence of      *)
(* calls that attach and detach interrupt handlers.  They share nothing,   *)
(* so that two of them never need to move in one behaviour.                *)
(***************************************************************************)
EXTENDS Format, Strings, HandlerList

NoSize == [form |-> "none", n |-> 0]
Conversion(flags, width, precision, spec, value) ==
  [flags |-> flags, width |-> width, precision |-> precision, spec |-> spec, arg |-> value]

\* Any number in any field, alone.
Sizes == {NoSize} \cup [form : {"digits"}, n : {1, 4}] \cup [form : {"star"}, n : {-4, 3}]
Precisions == {NoSize} \cup [form : {"digits"}, n : {0, 3}] \cup [form : {"star"}, n : {-1, 2}]
FlagTexts == {<<>>} \cup [1..1 -> FlagChars] \cup [1..2 -> FlagChars]
Fields ==
  {Conversion(f, w, p, s, v) : f \in FlagTexts, w \in Sizes, p \in Precisions,
                               s \in {"d", "x"}, v \in {0, 5, 19, 31}}
  \cup {Conversion(f, NoSize, NoSize, s, v) : f \in FlagTexts, s \in {"i", "u", "o", "X", "b"},
                                              v \in {0, 8, 15, 16, 30}}

\* Short messages of anything.
Parts ==
  {[char |-> "a"], [char |-> "."], Conversion(<<>>, NoSize, NoSize, "c", "b")}
  \cup {Conversion(<<>>, NoSize, NoSize, "s", t) : t \in {<<>>, <<"a">>, <<"b", "%">>}}
  \cup {Conversion(<<"0">>, [form |-> "star", n |-> 2], NoSize, "d", v) : v \in {7, 20}}

MCRequests == {<<d>> : d \in Fields} \cup UNION {[1..n -> Parts] : n \in 0..3}
MCBehind == {<<"a", Null>>, <<"%", "d", Null>>, <<"%", Null>>, <<Null>>}

Init ==
  /\ FormatInit
  /\ MemInit
  /\ HandlersInit

\* The calls that print nothing come in the kernel that has just printed an empty
\* message.
Silent == Done /\ request = <<>>

Next ==
  \/ vsprintf /\ UNCHANGED <<mem, hvars>>
  \/ Silent /\ HandlersInit /\ MemNext /\ UNCHANGED <<fvars, hvars>>
  \/ Silent /\ MemInit /\ HandlersNext /\ UNCHANGED <<fvars, mem>>

Spec == Init /\ [][Next]_<<fvars, mem, hvars>>

=============================================================================
