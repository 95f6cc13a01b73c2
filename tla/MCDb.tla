-------------------------------- MODULE MCDb --------------------------------
(* Two processes, keys a and b on one chain and c on the other; a can be     *)
(* stored with data of either length, b and c with short data.               *)
EXTENDS Db, TLC

MCHash == [k \in Keys |-> IF k = "c" THEN 2 ELSE 1]
MCKeyLen == [k \in Keys |-> 1]
MCDataOf == [k \in Keys |-> IF k = "a" THEN {"x", "zz"} ELSE IF k = "b" THEN {"y"} ELSE {"w"}]
MCDatLen == [d \in {"w", "x", "y", "zz"} |-> IF d = "zz" THEN 3 ELSE 2]

Row(k, i, len) == [key |-> k, keylen |-> 1, datoff |-> i, datlen |-> len]
Dat(d, len) == [data |-> d, len |-> len]

\* a has been stored with x and b with y, and then a with zz
Used == [ptr |-> (0 :> 3) @@ (1 :> 5) @@ (2 :> 0) @@ (3 :> 0) @@ (4 :> 0) @@ (5 :> 4),
         idx |-> <<Row(Blank, 1, 2), Row("b", 2, 2), Row("a", 3, 3)>>,
         dat |-> <<Dat(Blank, 2), Dat("y", 2), Dat("zz", 3)>>]

MCFiles == {Used}
=============================================================================
