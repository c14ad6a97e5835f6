------------------------ MODULE MC_DotenvConsumers ------------------------
(***************************************************************************)
(* Environment files of at most two lines for TLC, with every kind of      *)
(* quotes around every text of at most MaxItems characters and escapes.    *)
(***************************************************************************)
EXTENDS DotenvConsumers

CONSTANTS MaxItems, Escaped

Items == [char : Char] \union [esc : Escaped]

Values == {raw \in [quote : {"double", "single", "none"},
                   items : UNION {[1 .. n -> Items] : n \in 0 .. MaxItems}] : raw \in Raw}

Lines == [key : Name, value : Values]

Skipped == [skipped |-> TRUE]
SopsRow == [key |-> CHOOSE name \in SopsName : TRUE, value |-> [quote |-> "none", items |-> << >>]]

OneLine == {<<line>> : line \in Lines \union {SopsRow}} \union {<<Skipped, line>> : line \in Lines}

ShortValues == {value \in Values : Len(value.items) = 1 /\ value.quote # "single"}

TwoLines == {<<[key |-> name, value |-> v], [key |-> other, value |-> w]>> :
               name \in Name, other \in Name, v \in ShortValues, w \in ShortValues}

OneOrTwoLines == OneLine \union TwoLines
=============================================================================
